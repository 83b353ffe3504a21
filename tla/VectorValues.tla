---------------------------- MODULE VectorValues ----------------------------
(***************************************************************************)
(* Vectors as the builtins take and give them: a type, the elements, and   *)
(* the attributes names, dim, dimnames (with its own names), levels and    *)
(* class.  An attribute that is absent is the empty sequence.              *)
(*                                                                         *)
(* A logical is 0 or 1, an integer an integer, a double an exact fraction  *)
(* <<numerator, denominator>> with <<1, 0>>, <<-1, 0>> and <<0, 0>> for    *)
(* the infinities and NaN, a string a string and an element of a list a    *)
(* vector.  NA is the missing element of every atomic type.                *)
(***************************************************************************)
EXTENDS Integers, Sequences, FiniteSets, SequencesExt

CONSTANT NA

Vec(type, elements) ==
    [t |-> type, v |-> elements, names |-> <<>>, dim |-> <<>>, dn |-> <<>>, dnn |-> <<>>,
     levels |-> <<>>, class |-> <<>>]
Null == Vec("NULL", <<>>)
Lgls(s) == Vec("lgl", s)
Ints(s) == Vec("int", s)
Dbls(s) == Vec("dbl", s)
Strs(s) == Vec("str", s)
Lists(s) == Vec("list", s)
Named(x, names) == [x EXCEPT !.names = names]

Rank(type) == CASE type = "NULL" -> 0 [] type = "lgl" -> 1 [] type = "int" -> 2
                [] type = "dbl" -> 3 [] type = "str" -> 4 [] type = "list" -> 5
TypeOfRank == <<"lgl", "int", "dbl", "str", "list">>
size(x) == Len(x.v)
Upto(n) == [i \in 1 .. n |-> i]
IsFactor(x) == Contains(x.class, "factor")
Flag(b) == IF b THEN 1 ELSE 0
Some(s, P(_)) == \E i \in DOMAIN s : P(s[i])
All(s, P(_)) == \A i \in DOMAIN s : P(s[i])
Sizes(vs) == {size(vs[i]) : i \in DOMAIN vs}

(***************************************************************************)
(* Doubles, exactly: the rounding of floating point is left out.           *)
(***************************************************************************)
RECURSIVE Gcd(_, _)
Gcd(a, b) == IF b = 0 THEN a ELSE Gcd(b, a % b)
Size(n) == IF n < 0 THEN -n ELSE n
Sgn(n) == IF n < 0 THEN -1 ELSE IF n = 0 THEN 0 ELSE 1
Cancelled(n, d, g) == <<(IF d < 0 THEN -n ELSE n) \div g, Size(d) \div g>>
Frac(n, d) == IF d = 0 THEN <<Sgn(n), 0>> ELSE Cancelled(n, d, Gcd(Size(n), Size(d)))
NaN == <<0, 0>>
Inf == <<1, 0>>
Whole(n) == <<n, 1>>
Plus(p, q) ==
    IF p[2] = 0 \/ q[2] = 0
    THEN IF p[2] # 0 THEN q ELSE IF q[2] # 0 \/ p = q THEN p ELSE NaN
    ELSE Frac(p[1] * q[2] + q[1] * p[2], p[2] * q[2])
Minus(p) == <<-p[1], p[2]>>
Times(p, q) == Frac(p[1] * q[1], p[2] * q[2])
Over(p, q) == Frac(p[1] * q[2] * (IF q[1] < 0 THEN -1 ELSE 1), p[2] * Size(q[1]))
Less(p, q) == IF p[2] = 0 /\ q[2] = 0 THEN p[1] < q[1] /\ NaN \notin {p, q}
              ELSE p[1] * q[2] < q[1] * p[2]
IsWhole(p) == p[2] = 1
FloorOf(p) == p[1] \div p[2]
Toward0(p) == IF p[1] < 0 THEN -((-p[1]) \div p[2]) ELSE p[1] \div p[2]

(***************************************************************************)
(* One element as another type: as_lgl, as_int, as_dbl, as_str.            *)
(***************************************************************************)
NumberText(p) == CASE p = NaN -> "NaN" [] p = Inf -> "Inf" [] p = Minus(Inf) -> "-Inf"
                   [] p[2] = 1 -> ToString(p[1])
                   [] OTHER -> ToString(p[1]) \o "/" \o ToString(p[2])
Numeral == [s \in {ToString(k) : k \in -3 .. 30} |-> Whole(CHOOSE k \in -3 .. 30 : ToString(k) = s)]
Parsed(s) == IF s \in DOMAIN Numeral THEN Numeral[s] ELSE NA
ToDbl(type, e) ==
    CASE e = NA -> NA
      [] type \in {"lgl", "int"} -> Whole(e)
      [] type = "str" -> Parsed(e)
      [] OTHER -> e
Cut(d) == IF d = NA THEN NA ELSE IF d[2] = 0 THEN NA ELSE Toward0(d)
ToInt(type, e) == Cut(ToDbl(type, e))
ToLgl(type, e) ==
    CASE e = NA -> NA
      [] type = "lgl" -> e
      [] type = "int" -> Flag(e # 0)
      [] type = "dbl" -> Flag(e # Whole(0))
      [] OTHER -> IF e \in {"T", "TRUE", "true", "True"} THEN 1
                  ELSE IF e \in {"F", "FALSE", "false", "False"} THEN 0 ELSE NA
ToStr(type, e) ==
    CASE e = NA -> NA
      [] type = "lgl" -> IF e = 1 THEN "TRUE" ELSE "FALSE"
      [] type = "int" -> ToString(e)
      [] type = "dbl" -> NumberText(e)
      [] OTHER -> e
element_to(type, from, e) ==
    CASE type = "lgl" -> ToLgl(from, e) [] type = "int" -> ToInt(from, e)
      [] type = "dbl" -> ToDbl(from, e) [] type = "str" -> ToStr(from, e)
RECURSIVE To(_, _)
To(type, x) ==
    IF x.t = "list" THEN FlattenSeq([i \in DOMAIN x.v |-> To(type, x.v[i])])
    ELSE [i \in DOMAIN x.v |-> element_to(type, x.t, x.v[i])]
as_dbl(x) == To("dbl", x)
as_int(x) == To("int", x)
as_lgl(x) == To("lgl", x)
as_str(x) == To("str", x)
elements(x) == IF x.t = "list" THEN x.v ELSE [i \in DOMAIN x.v |-> Vec(x.t, <<x.v[i]>>)]

\* A factor reads as its labels.
factor_labels(x) == [i \in DOMAIN x.v |-> IF x.v[i] = NA THEN NA ELSE x.levels[x.v[i]]]
as_str_labels(x) == IF IsFactor(x) THEN factor_labels(x) ELSE as_str(x)
carry_factor(out, x) == IF IsFactor(x) THEN [out EXCEPT !.levels = x.levels, !.class = x.class]
                        ELSE out

(***************************************************************************)
(* Picking elements by position, 0 standing for the code's None; the       *)
(* result carries no attribute.                                            *)
(***************************************************************************)
take_positions(x, pos) ==
    Vec(x.t, IF x.t = "NULL" THEN <<>> ELSE
             [i \in DOMAIN pos |-> IF pos[i] \in DOMAIN x.v THEN x.v[pos[i]]
                                   ELSE IF x.t = "list" THEN Null ELSE NA])
recycle_to(x, n) ==
    take_positions(x, [i \in 1 .. n |-> IF size(x) = 0 THEN 0 ELSE ((i - 1) % size(x)) + 1])
labels_at(names, pos) ==
    [i \in DOMAIN pos |-> IF pos[i] \in DOMAIN names THEN names[pos[i]] ELSE NA]
\* The elements at pos with their names, as a factor if x is one.
take(x, pos) ==
    LET labelled(out) == IF x.names = <<>> THEN out ELSE Named(out, labels_at(x.names, pos))
    IN  carry_factor(labelled(take_positions(x, pos)), x)

(***************************************************************************)
(* c(): a part is <<tag, value>>, the tag "" when it has none.             *)
(***************************************************************************)
new_base(base, tag) == IF base # "" /\ tag # "" THEN base \o "." \o tag
                       ELSE IF tag # "" THEN tag ELSE base
new_name(base, tag, seqno, count) ==
    IF base = "" THEN tag
    ELSE IF tag # "" THEN base \o "." \o tag
    ELSE IF count = 1 THEN base ELSE base \o ToString(seqno)
item_name(v, i) == IF i \in DOMAIN v.names THEN v.names[i] ELSE ""
Plain(label) == IF label = NA THEN "" ELSE label

\* How many elements will share a tag, counted as far as two.
RECURSIVE names_count(_, _, _)
names_count(v, recurse, count) ==
    IF v.t = "list" /\ recurse
    THEN FoldLeft(LAMBDA n, i : IF n > 1 \/ Plain(item_name(v, i)) # "" THEN n
                                ELSE names_count(v.v[i], recurse, n),
                  count, Upto(size(v)))
    ELSE count + (IF size(v) > 2 THEN 2 ELSE size(v))

\* The names of v's elements after those of out; seqno numbers the elements
\* under the tag in force, and a new tag starts it again.
RECURSIVE extract_names(_, _, _, _, _)
extract_names(v, base, tag, recurse, nd) ==
    LET below == IF tag = "" THEN base ELSE new_base(base, tag)
        start == IF tag = "" THEN nd
                 ELSE [nd EXCEPT !.seqno = 0, !.count = names_count(v, recurse, 0)]
        leaf(d, i) ==
            [d EXCEPT !.seqno = @ + 1,
                      !.out = Append(@, IF item_name(v, i) # NA
                                        THEN new_name(below, item_name(v, i), d.seqno + 1, d.count)
                                        ELSE IF below = "" THEN NA ELSE below \o ".NA")]
        child(d, i) == extract_names(v.v[i], below, Plain(item_name(v, i)), recurse, d)
        end == FoldLeft(LAMBDA d, i : IF v.t = "list" /\ recurse THEN child(d, i) ELSE leaf(d, i),
                        start, Upto(size(v)))
    IN  IF tag = "" THEN end ELSE [end EXCEPT !.count = nd.count, !.seqno = @ + nd.seqno]
NoNames == [out |-> <<>>, seqno |-> 0, count |-> 0]
part_names(parts, recurse) ==
    FoldLeft(LAMBDA d, p : extract_names(p[2], "", p[1], recurse, d), NoNames, parts).out

distinct(s) == FoldLeft(LAMBDA u, e : IF Contains(u, e) THEN u ELSE Append(u, e), <<>>, s)
position(s, e) == SelectInSeq(s, LAMBDA f : f = e)

mk_factor(codes, levels, ordered) ==
    [Ints(codes) EXCEPT !.levels = levels,
                       !.class = IF ordered THEN <<"ordered", "factor">> ELSE <<"factor">>]
is_ordered(x) == Contains(x.class, "ordered")
join_factors(vs) ==
    LET coded(labels, levels) ==
            mk_factor([i \in DOMAIN labels |-> IF labels[i] = NA THEN NA ELSE position(levels, labels[i])],
                      levels, \A i \in DOMAIN vs : is_ordered(vs[i]) /\ vs[i].levels = levels)
    IN  coded(FlattenSeq([i \in DOMAIN vs |-> factor_labels(vs[i])]),
              distinct(FlattenSeq([i \in DOMAIN vs |-> vs[i].levels])))

of_type(type, vs) ==
    Vec(type, FlattenSeq([i \in DOMAIN vs |-> IF type = "list" THEN elements(vs[i]) ELSE To(type, vs[i])]))
joined_values(vs) == IF \A i \in DOMAIN vs : IsFactor(vs[i]) THEN join_factors(vs)
              ELSE of_type(TypeOfRank[Max({Rank(vs[i].t) : i \in DOMAIN vs})], vs)
concat_parts(parts) ==
    IF parts = <<>> THEN Null
    ELSE IF Some(parts, LAMBDA p : p[1] # "" \/ p[2].names # <<>>)
    THEN Named(joined_values([i \in DOMAIN parts |-> parts[i][2]]), part_names(parts, FALSE))
    ELSE joined_values([i \in DOMAIN parts |-> parts[i][2]])
concat(args) == concat_parts(SelectSeq(args, LAMBDA p : p[2].t # "NULL"))
c(vs) == concat([i \in DOMAIN vs |-> <<"", vs[i]>>])

RECURSIVE flat_values(_)
flat_values(x) ==
    IF x.t # "list" THEN x
    ELSE Named(c([i \in DOMAIN x.v |-> flat_values(x.v[i])]), <<>>)
RECURSIVE has_names(_)
has_names(x) == x.names # <<>> \/ (x.t = "list" /\ \E i \in DOMAIN x.v : has_names(x.v[i]))
unlist(x) ==
    LET labels == part_names([i \in DOMAIN x.v |-> <<Plain(item_name(x, i)), x.v[i]>>], TRUE)
        labelled(out) == IF out.t = "NULL" \/ ~has_names(x) \/ Len(labels) # size(out) THEN out
                         ELSE Named(out, labels)
    IN  IF x.t # "list" THEN x ELSE labelled(flat_values(x))

\* sapply: results of one length become a vector, or a matrix with a column each.
set_dimnames(x, rn, cn) ==
    IF rn = <<>> /\ cn = <<>> THEN x ELSE [x EXCEPT !.dn = <<rn, cn>>, !.dnn = <<>>]
simplify(x) ==
    LET k == size(x.v[1])
        stacked(out) == set_dimnames([out EXCEPT !.names = <<>>, !.dim = <<k, size(x)>>],
                                     x.v[1].names, x.names)
        filled(out) == IF k > 1 THEN stacked(out) ELSE IF x.names = <<>> THEN out ELSE Named(out, x.names)
    IN  IF x.t # "list" THEN x
        ELSE IF size(x) = 0 THEN x
        ELSE IF k = 0 \/ \E i \in DOMAIN x.v : size(x.v[i]) # k THEN x
        ELSE filled(c(x.v))
=============================================================================
