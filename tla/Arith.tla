-------------------------------- MODULE Arith --------------------------------
(***************************************************************************)
(* Operators and numeric builtins on vectors.  A call that stops gives     *)
(* Failed.  Integers are those of R: from -IntMax to IntMax, a result      *)
(* beyond them being NA.                                                   *)
(***************************************************************************)
EXTENDS VectorValues

CONSTANT IntMax

Failed == Vec("error", <<>>)
failed(x) == x.t = "error"
WholeType(x) == x.t \in {"lgl", "int"}
numeric(x) == x.t \in {"lgl", "int", "dbl"} /\ ~IsFactor(x)
At(s, i) == s[((i - 1) % Len(s)) + 1]
Missing(e) == e \in {NA, NaN}
Absent(type, e) == e = NA \/ (type = "dbl" /\ Missing(e))
int_in_range(p) == p[2] # 0 /\ Size(Toward0(p)) <= IntMax
in_range_or_na(p) == IF p = NA THEN NA ELSE IF int_in_range(p) THEN Toward0(p) ELSE NA
\* as.integer: what an integer cannot hold is NA.
as_integer(x) == [i \in DOMAIN x.v |-> in_range_or_na(as_dbl(x)[i])]

(***************************************************************************)
(* Recycling, and the attributes of a result.                              *)
(***************************************************************************)
recycle_len(x, y) == IF 0 \in {size(x), size(y)} THEN 0 ELSE Max({size(x), size(y)})
recycles_unevenly(x, y) ==
    LET n == recycle_len(x, y) IN n # 0 /\ n % Min({size(x), size(y)}) # 0
carry_attrs(out, lhs, rhs) ==
    LET dims == IF lhs.dim # <<>> THEN lhs.dim ELSE rhs.dim
        labels == IF lhs.dn # <<>> THEN lhs ELSE rhs
        fits(v) == v.names # <<>> /\ Len(v.names) = size(out)
    IN  IF dims # <<>> THEN [out EXCEPT !.dim = dims, !.dn = labels.dn, !.dnn = labels.dnn]
        ELSE IF fits(lhs) THEN Named(out, lhs.names)
        ELSE IF fits(rhs) THEN Named(out, rhs.names) ELSE out
copy_most_attrs(out, from) ==
    IF size(out) # size(from) THEN out
    ELSE [out EXCEPT !.levels = IF from.levels # <<>> THEN from.levels ELSE @,
                     !.class = IF from.class # <<>> THEN from.class ELSE @]
shaped_like(out, x) == carry_attrs(out, x, x)
math_like(out, x) == copy_most_attrs(shaped_like(out, x), x)

(***************************************************************************)
(* Arithmetic.                                                             *)
(***************************************************************************)
IsFinite(p) == p[2] # 0
Sub(p, q) == Plus(p, Minus(q))
Rounded(p) == IF p[2] = 0 THEN p     \* to the nearest, halves away from zero
              ELSE Whole(Sgn(p[1]) * ((2 * Size(p[1]) + p[2]) \div (2 * p[2])))
with_sign_of(y, r) == IF r[1] # 0 /\ (r[1] < 0) # (y[1] < 0) THEN Plus(r, y) ELSE r
r_mod(x, y) ==
    IF y[1] = 0 \/ x[2] = 0 THEN NaN
    ELSE with_sign_of(y, IF y[2] = 0 THEN x ELSE Sub(x, Times(y, Whole(Toward0(Over(x, y))))))
\* A quotient that is not finite is not rounded.
r_idiv(x, y) ==
    Rounded(Over(IF y = Whole(0) \/ x[2] = 0 THEN x ELSE Sub(x, r_mod(x, y)), y))
RECURSIVE Power(_, _)
Power(p, n) == IF n = 0 THEN Whole(1) ELSE Times(p, Power(p, n - 1))
r_pow(x, y) ==                       \* a whole or an infinite exponent
    CASE y = Whole(0) \/ x = Whole(1) -> Whole(1)
      [] NaN \in {x, y} -> NaN
      [] x[1] < 0 /\ y[2] # 1 -> NaN
      [] y[2] = 0 -> IF Less(Whole(1), x) = (y = Inf) THEN Inf ELSE Whole(0)
      [] OTHER -> IF y[1] > 0 THEN Power(x, y[1]) ELSE Over(Whole(1), Power(x, -y[1]))
Operate(op, p, q) ==
    CASE op \in {"+", "-"} -> Plus(p, IF op = "+" THEN q ELSE Minus(q)) [] op = "*" -> Times(p, q)
      [] op = "/" -> Over(p, q) [] op = "^" -> r_pow(p, q)
      [] op = "%%" -> r_mod(p, q) [] op = "%/%" -> r_idiv(p, q)
Integral(op, x, y) == op \in {"+", "-", "*", "%%", "%/%"} /\ WholeType(x) /\ WholeType(y)

\* The way of two bare numbers, and the way of all the rest.
scalar_real(x) == numeric(x) /\ x = Vec(x.t, x.v) /\ size(x) = 1 /\ x.v # <<NA>>
\* A mutant of arith_scalar: two bare integers may pass the range.
UnrangedScalar(op, lhs, rhs) ==
    LET as_is(r) == IF r = NA \/ r[2] = 0 THEN NA ELSE Toward0(r)
        typed(r) == IF Integral(op, lhs, rhs) THEN Ints(<<as_is(r)>>) ELSE Dbls(<<r>>)
    IN  typed(Operate(op, as_dbl(lhs)[1], as_dbl(rhs)[1]))
arith_scalar(op, lhs, rhs) ==
    LET typed(r) == IF Integral(op, lhs, rhs) THEN Ints(<<in_range_or_na(r)>>) ELSE Dbls(<<r>>)
    IN  typed(Operate(op, as_dbl(lhs)[1], as_dbl(rhs)[1]))
arith_element(op, x, y) == CASE op = "^" /\ (y = Whole(0) \/ x = Whole(1)) -> Whole(1)
                             [] x # NA /\ y # NA -> Operate(op, x, y)
                             [] x = NaN /\ y = NA /\ op # "%%" -> NaN
                             [] OTHER -> NA
in_range(r) == [i \in DOMAIN r |-> in_range_or_na(r[i])]
dressed(v, lhs, rhs) == copy_most_attrs(copy_most_attrs(carry_attrs(v, lhs, rhs), rhs), lhs)
arith_vector(op, lhs, rhs) ==
    LET a == as_dbl(lhs)
        b == as_dbl(rhs)
        typed(r) == IF Integral(op, lhs, rhs) THEN Ints(in_range(r)) ELSE Dbls(r)
    IN  dressed(typed([i \in 1 .. recycle_len(lhs, rhs) |-> arith_element(op, At(a, i), At(b, i))]), lhs, rhs)
arith(op, lhs, rhs) ==
    IF scalar_real(lhs) /\ scalar_real(rhs) THEN arith_scalar(op, lhs, rhs)
    ELSE IF "str" \in {lhs.t, rhs.t} THEN Failed ELSE arith_vector(op, lhs, rhs)
\* A finite result beyond the integers is worth a warning.
beyond(p) == p # NA /\ IsFinite(p) /\ ~int_in_range(p)
overflows(op, lhs, rhs) ==
    /\ Integral(op, lhs, rhs)
    /\ \E i \in 1 .. recycle_len(lhs, rhs) :
          beyond(arith_element(op, At(as_dbl(lhs), i), At(as_dbl(rhs), i)))

(***************************************************************************)
(* Comparison and logic.                                                   *)
(***************************************************************************)
\* The order of the strings in use; str_cmp of collate.rs.
Collation == <<"", "-1", "0", "1", "1/2", "2", "3", "4", "5", "6", "a", "A", "b", "B", "c", "FALSE",
               "Inf", "lo", "NaN", "TRUE", "z">>
str_less(s, u) == position(Collation, s) < position(Collation, u)
cmp_result(op, eq, lt) ==
    Flag(CASE op = "==" -> eq [] op = "!=" -> ~eq [] op = "<" -> lt /\ ~eq
           [] op = ">" -> ~lt /\ ~eq [] op = "<=" -> lt \/ eq [] op = ">=" -> ~lt)
compare(op, lhs, rhs) ==
    LET text == "str" \in {lhs.t, rhs.t}
        a == IF text THEN as_str(lhs) ELSE as_dbl(lhs)
        b == IF text THEN as_str(rhs) ELSE as_dbl(rhs)
        one(x, y) == IF NA \in {x, y} THEN NA
                     ELSE IF text THEN cmp_result(op, x = y, str_less(x, y))
                     ELSE IF NaN \in {x, y} THEN NA ELSE cmp_result(op, x = y, Less(x, y))
    IN  carry_attrs(Lgls([i \in 1 .. recycle_len(lhs, rhs) |-> one(At(a, i), At(b, i))]), lhs, rhs)
And(x, y) == IF 0 \in {x, y} THEN 0 ELSE IF NA \in {x, y} THEN NA ELSE 1
Or(x, y) == IF 1 \in {x, y} THEN 1 ELSE IF NA \in {x, y} THEN NA ELSE 0
logic(op, lhs, rhs) ==
    LET one(x, y) == IF op = "&" THEN And(x, y) ELSE Or(x, y)
    IN  carry_attrs(Lgls([i \in 1 .. recycle_len(lhs, rhs) |->
                            one(At(as_lgl(lhs), i), At(as_lgl(rhs), i))]), lhs, rhs)
Not(e) == IF e = NA THEN NA ELSE 1 - e
not(x) == shaped_like(Lgls([i \in DOMAIN x.v |-> Not(as_lgl(x)[i])]), x)

\* A factor compares by its labels, an ordered one by the place of its levels.
level_code(s, levels) == IF s # NA /\ Contains(levels, s) THEN position(levels, s) ELSE NA
place_of_level(v, levels) ==
    Ints(IF IsFactor(v) THEN v.v ELSE [i \in DOMAIN v.v |-> level_code(as_str(v)[i], levels)])
ops_factor(op, lhs, rhs) ==
    LET ordered == is_ordered(lhs) \/ is_ordered(rhs)
        levels == IF IsFactor(lhs) THEN lhs.levels ELSE rhs.levels
        equality == op \in {"==", "!="}
        same == IF equality THEN ToSet(lhs.levels) = ToSet(rhs.levels) ELSE lhs.levels = rhs.levels
        seen(v) == IF equality THEN Strs(as_str_labels(v)) ELSE place_of_level(v, levels)
    IN  IF ~equality /\ ~(ordered /\ op \in {"<", ">", "<=", ">="})
        THEN Lgls([i \in 1 .. Max({size(lhs), size(rhs)}) |-> NA])
        ELSE IF IsFactor(lhs) /\ IsFactor(rhs) /\ ~same THEN Failed
        ELSE compare(op, seen(lhs), seen(rhs))

\* from:to: the first of each counts.  With FLT_EPSILON out, the ends decide.
colon_items(from, to) ==
    [i \in 1 .. FloorOf(IF Less(to, from) THEN Sub(from, to) ELSE Sub(to, from)) + 1 |->
        Plus(from, Whole(IF Less(to, from) THEN 1 - i ELSE i - 1))]
colon_typed(to, items) ==
    IF /\ IsWhole(items[1])
       /\ int_in_range(items[1])
       /\ int_in_range(IF IsWhole(to) THEN to ELSE Last(items))
    THEN Ints([i \in DOMAIN items |-> items[i][1]]) ELSE Dbls(items)
colon(lhs, rhs) ==
    IF 0 \in {size(lhs), size(rhs)} THEN Failed
    ELSE IF Missing(as_dbl(lhs)[1]) \/ Missing(as_dbl(rhs)[1]) THEN Failed
    ELSE IF ~IsFinite(as_dbl(lhs)[1]) \/ ~IsFinite(as_dbl(rhs)[1])
         THEN IF as_dbl(lhs)[1] = as_dbl(rhs)[1]      \* Inf:Inf, whose length is NaN
              THEN Dbls(<<as_dbl(lhs)[1]>>) ELSE Failed
    ELSE colon_typed(as_dbl(rhs)[1], colon_items(as_dbl(lhs)[1], as_dbl(rhs)[1]))
\* What a loop over from:to runs through: b_range_from, _step and _len.
native_range(lhs, rhs) ==
    LET from == as_dbl(lhs)[1]
        to == as_dbl(rhs)[1]
        step == Whole(IF Less(to, from) THEN -1 ELSE 1)
        n == FloorOf(Times(Sub(to, from), step)) + 1
        items == [i \in 1 .. n |-> Plus(from, Times(step, Whole(i - 1)))]
    IN  IF Missing(from) \/ Missing(to) THEN Ints(<<NA>>)
        ELSE IF IsWhole(from) /\ IsWhole(to) THEN Ints([i \in 1 .. n |-> Toward0(items[i])]) ELSE Dbls(items)

binop_internal(op, lhs, rhs) ==
    IF op # ":" /\ (IsFactor(lhs) \/ IsFactor(rhs)) THEN ops_factor(op, lhs, rhs)
    ELSE CASE op \in {"+", "-", "*", "/", "^", "%%", "%/%"} ->
                IF "list" \in {lhs.t, rhs.t} THEN Failed ELSE arith(op, lhs, rhs)
           [] op \in {"==", "!=", "<", ">", "<=", ">="} -> compare(op, lhs, rhs)
           [] op \in {"&", "|"} -> logic(op, lhs, rhs)
           [] op = ":" -> colon(lhs, rhs)

\* if and while: one element, and an answer.
condition_truth(v) ==
    LET e == as_lgl(v)
    IN  IF size(v) # 1 \/ v.t \notin {"lgl", "int", "dbl", "str"} THEN Failed
        ELSE IF e[1] = NA THEN Failed ELSE Lgls(e)
\* An operand of && or ||.
logic2_operand(v) == IF ~numeric(v) \/ size(v) > 1 THEN Failed
                     ELSE Lgls(IF size(v) = 0 THEN <<NA>> ELSE as_lgl(v))

(***************************************************************************)
(* Summaries.  A missing value on the left of an addition is what comes    *)
(* out of it.                                                              *)
(***************************************************************************)
lhs_missing_first(x, y, r) == IF Missing(x) THEN x ELSE IF y = NA THEN NA ELSE r
Sum(s) == FoldLeft(LAMBDA a, e : lhs_missing_first(a, e, Plus(a, e)), Whole(0), s)
Product(s) == FoldLeft(LAMBDA a, e : lhs_missing_first(a, e, Times(a, e)), Whole(1), s)
Kept(s, narm) == IF narm THEN SelectSeq(s, LAMBDA e : ~Missing(e)) ELSE s

\* Each argument has its own total; a missing integer settles a sum at once.
sum(args, narm) ==
    LET all_int == All(args, WholeType)
        settled == ~narm /\ Some(args, LAMBDA v : WholeType(v) /\ Contains(v.v, NA))
        typed(acc) == IF all_int /\ ~Missing(acc) THEN Ints(<<acc[1]>>) ELSE Dbls(<<acc>>)
    IN  IF Some(args, LAMBDA v : ~(numeric(v) \/ v.t = "NULL")) THEN Failed
        ELSE IF settled THEN Vec(IF all_int THEN "int" ELSE "dbl", <<NA>>)
        ELSE typed(Sum([i \in DOMAIN args |-> Sum(Kept(as_dbl(args[i]), narm))]))
prod(args, narm) ==
    LET one(v) == IF WholeType(v) /\ Contains(v.v, NA) /\ ~narm THEN NA
                  ELSE Product(Kept(as_dbl(v), narm))
    IN  IF Some(args, LAMBDA v : ~(numeric(v) \/ v.t = "NULL")) THEN Failed
        ELSE Dbls(<<Product([i \in DOMAIN args |-> one(args[i])])>>)
missing_result(s, nan_unless_na) == IF nan_unless_na /\ ~Contains(s, NA) THEN Dbls(<<NaN>>) ELSE Dbls(<<NA>>)
mean(x, narm) ==
    LET xs == Kept(as_dbl(x), narm)
    IN  IF ~numeric(x) THEN Dbls(<<NA>>)
        ELSE IF Some(xs, Missing) THEN missing_result(xs, TRUE)
        ELSE Dbls(<<Over(Sum(xs), Whole(Len(xs)))>>)
median(x, narm) ==
    LET xs == SortSeq(Kept(as_dbl(x), narm), Less)
        n == Len(xs)
    IN  IF ~narm /\ Some(as_dbl(x), Missing) THEN missing_result(xs, FALSE)
        ELSE IF n = 0 THEN Dbls(<<NA>>)
        ELSE IF n % 2 = 1 THEN Vec(x.t, To(x.t, Dbls(<<xs[(n + 1) \div 2]>>)))
        ELSE Dbls(<<Over(Plus(xs[n \div 2], xs[n \div 2 + 1]), Whole(2))>>)

FMin(p, q) == IF Missing(p) THEN q ELSE IF Missing(q) \/ Less(p, q) THEN p ELSE q
FMax(p, q) == IF Missing(p) THEN q ELSE IF Missing(q) \/ Less(q, p) THEN p ELSE q
Ends(which, lo, hi) == CASE which = "min" -> <<lo>> [] which = "max" -> <<hi>> [] which = "range" -> <<lo, hi>>
extremes(which, x, narm) ==
    LET xs == Kept(as_dbl(x), TRUE)
        bad == SelectSeq(as_dbl(x), Missing)
        marker == IF Contains(bad, NA) THEN NA ELSE NaN
        lo == FoldLeft(FMin, Inf, xs)
        hi == FoldLeft(FMax, Minus(Inf), xs)
        ss == SortSeq(SelectSeq(x.v, LAMBDA e : e # NA), str_less)
        codes == SelectSeq(x.v, LAMBDA e : e # NA)
    IN  CASE IsFactor(x) /\ ~is_ordered(x) -> Failed
          [] is_ordered(x) -> IF codes = <<>> THEN mk_factor(Ends(which, NA, NA), x.levels, TRUE)
                              ELSE mk_factor(Ends(which, Min(ToSet(codes)), Max(ToSet(codes))), x.levels, TRUE)
          [] x.t = "str" -> Strs(IF ss = <<>> THEN Ends(which, NA, NA) ELSE Ends(which, ss[1], Last(ss)))
          [] ~narm /\ bad # <<>> -> IF WholeType(x) THEN Ints(Ends(which, NA, NA)) ELSE Dbls(Ends(which, marker, marker))
          [] OTHER -> IF WholeType(x) /\ xs # <<>> THEN Ints(Ends(which, lo[1], hi[1])) ELSE Dbls(Ends(which, lo, hi))

(***************************************************************************)
(* Running totals and differences.                                         *)
(***************************************************************************)
\* The running f of x's elements; all is NA from the first NA on.
running(s, start, f(_, _)) ==
    Tail(FoldLeft(LAMBDA acc, e : Append(acc, IF NA \in {Last(acc), e} THEN NA ELSE f(Last(acc), e)),
                  <<start>>, s))
cumsum(x) ==
    LET r == running(as_dbl(x), Whole(0), Plus)
        lost(i) == \E j \in 1 .. i : r[j] = NA \/ ~int_in_range(r[j])
    IN  shaped_like(IF WholeType(x) THEN Ints([i \in DOMAIN r |-> IF lost(i) THEN NA ELSE r[i][1]])
                    ELSE Dbls(r), x)
cumprod(x) == shaped_like(Dbls(running(as_dbl(x), Whole(1), Times)), x)
WholeIf(x, s) == IF WholeType(x) THEN Ints([i \in DOMAIN s |-> IF s[i] = NA THEN NA ELSE s[i][1]])
                 ELSE Dbls(s)
cummax(x) == shaped_like(WholeIf(x, running(as_dbl(x), NaN, FMax)), x)
cummin(x) == shaped_like(WholeIf(x, running(as_dbl(x), NaN, FMin)), x)
diff(x, lag) ==
    LET s == as_dbl(x)
        d == [i \in 1 .. (IF Len(s) > lag THEN Len(s) - lag ELSE 0) |->
                IF NA \in {s[i], s[i + lag]} THEN NA ELSE Sub(s[i + lag], s[i])]
    IN  IF WholeType(x) THEN Ints([i \in DOMAIN d |-> IF d[i] = NA THEN NA ELSE d[i][1]]) ELSE Dbls(d)

(***************************************************************************)
(* Element by element.                                                     *)
(***************************************************************************)
Each(x, f(_)) == [i \in DOMAIN x.v |-> IF as_dbl(x)[i] = NA THEN NA ELSE f(as_dbl(x)[i])]
abs(x) == LET r == Each(x, LAMBDA p : <<Size(p[1]), p[2]>>)
          IN  math_like(IF WholeType(x) THEN Ints([i \in DOMAIN r |-> IF r[i] = NA THEN NA ELSE r[i][1]])
                        ELSE Dbls(r), x)
ToWhole(p, f(_)) == IF p[2] = 0 THEN p ELSE Whole(f(p))
rounding(how, x) ==
    math_like(Dbls(Each(x, LAMBDA p :
        CASE how = "floor" -> ToWhole(p, FloorOf) [] how = "trunc" -> ToWhole(p, Toward0)
          [] how = "ceiling" -> ToWhole(p, LAMBDA q : -((-q[1]) \div q[2]))
          [] how = "sign" -> IF p = NaN THEN NaN ELSE Whole(Sgn(p[1])))), x)
pextreme(args, least, narm) ==
    LET n == Max(Sizes(args))
        f(p, q) == IF least THEN FMin(p, q) ELSE FMax(p, q)
        row(i) == [k \in DOMAIN args |-> At(as_dbl(args[k]), i)]
        kept(i) == SelectSeq(row(i), LAMBDA e : e # NA)
        best(i) == IF (~narm /\ Contains(row(i), NA)) \/ kept(i) = <<>> THEN NA
                   ELSE FoldLeft(f, kept(i)[1], Tail(kept(i)))
        r == [i \in 1 .. n |-> best(i)]
    IN  IF All(args, WholeType)
        THEN Ints([i \in 1 .. n |-> IF r[i] = NA THEN NA ELSE r[i][1]]) ELSE Dbls(r)
pmin(args, narm) == pextreme(args, TRUE, narm)
pmax(args, narm) == pextreme(args, FALSE, narm)
any(args, narm) == LET s == FlattenSeq([i \in DOMAIN args |-> as_lgl(args[i])])
                   IN  Lgls(<<IF Contains(s, 1) THEN 1 ELSE IF Contains(s, NA) /\ ~narm THEN NA ELSE 0>>)
all(args, narm) == LET s == FlattenSeq([i \in DOMAIN args |-> as_lgl(args[i])])
                   IN  Lgls(<<IF Contains(s, 0) THEN 0 ELSE IF Contains(s, NA) /\ ~narm THEN NA ELSE 1>>)
isTRUE(x) == x.t = "lgl" /\ x.v = <<1>>
isFALSE(x) == x.t = "lgl" /\ x.v = <<0>>
xor(x, y) == LET one(a, b) == IF NA \in {a, b} THEN NA ELSE Flag(a # b)
             IN  Lgls([i \in 1 .. Max({size(x), size(y)}) |-> one(At(as_lgl(x), i), At(as_lgl(y), i))])
is_na(x) ==
    shaped_like(Lgls([i \in DOMAIN x.v |->
        Flag(IF x.t = "list" THEN size(x.v[i]) = 1 /\ as_dbl(x.v[i])[1] = NA ELSE Absent(x.t, x.v[i]))]), x)
is_nan(x) == shaped_like(Lgls([i \in DOMAIN x.v |-> Flag(x.t = "dbl" /\ x.v[i] = NaN)]), x)
is_finite(x) ==
    shaped_like(Lgls([i \in DOMAIN x.v |->
        Flag(IF x.t = "dbl" THEN x.v[i] # NA /\ IsFinite(x.v[i]) ELSE WholeType(x) /\ x.v[i] # NA)]), x)
is_infinite(x) ==
    shaped_like(Lgls([i \in DOMAIN x.v |-> Flag(x.t = "dbl" /\ x.v[i] \in {Inf, Minus(Inf)})]), x)
anyNA(x) == Lgls(<<Flag(\E i \in DOMAIN x.v : is_na(x).v[i] = 1)>>)
complete_cases(x) == Lgls([i \in DOMAIN x.v |-> 1 - is_na(Vec(x.t, x.v)).v[i]])
ifelse(test, yes, no) ==
    LET pick(v, i) == take_positions(v, <<IF size(v) = 0 THEN 0 ELSE ((i - 1) % size(v)) + 1>>)
        one(i) == CASE as_lgl(test)[i] = NA -> Lgls(<<NA>>)
                    [] as_lgl(test)[i] = 1 -> pick(yes, i) [] OTHER -> pick(no, i)
    IN  shaped_like(c([i \in DOMAIN test.v |-> one(i)]), test)
Ten(n) == r_pow(Whole(10), Whole(n))
\* The nearer of the neighbours of |x| with that many decimals, or the even one.
nearest(x, n) ==
    LET scaled == Times(<<Size(x[1]), x[2]>>, Ten(n))
        down == Sub(scaled, Whole(FloorOf(scaled)))
        up == Less(<<1, 2>>, down) \/ (down = <<1, 2>> /\ FloorOf(scaled) % 2 = 1)
    IN  Times(Over(Whole(FloorOf(scaled) + Flag(up)), Ten(n)), Whole(Sgn(x[1])))
r_round(x, digits) ==
    CASE NaN \in {x, digits} -> NaN
      [] x[2] = 0 \/ digits = Inf -> x
      [] digits = Minus(Inf) -> Whole(0)
      [] OTHER -> nearest(x, FloorOf(Plus(digits, <<1, 2>>)))
\* The power of ten of the leading figure of a finite number but 0, small here.
exponent(x) == CHOOSE e \in -4 .. 4 : LET p == <<Size(x[1]), x[2]>> IN ~Less(p, Ten(e)) /\ Less(p, Ten(e + 1))
signif(x, digits) ==
    CASE NaN \in {x, digits} -> NaN
      [] x[2] = 0 \/ x = Whole(0) \/ digits = Inf -> x
      [] OTHER -> LET dig == IF digits[2] = 0 THEN 1 ELSE Max({1, Rounded(digits)[1]})
                  IN  nearest(x, dig - 1 - exponent(x))
\* round(x, digits) and signif(x, digits), which recycle over each other.
math2(how, x, digits) ==
    LET n == Max({size(x), size(digits)})
        one(p, q) == IF NA \in {p, q} THEN NA ELSE IF how = "round" THEN r_round(p, q) ELSE signif(p, q)
    IN  IF size(digits) = 0 \/ ~numeric(x) \/ ~numeric(digits) THEN Failed
        ELSE IF size(x) = 0 THEN math_like(Dbls(<<>>), x)
        ELSE math_like(Dbls([i \in 1 .. n |-> one(At(as_dbl(x), i), At(as_dbl(digits), i))]),
                       IF n = size(x) THEN x ELSE digits)
=============================================================================
