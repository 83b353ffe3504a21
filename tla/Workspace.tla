------------------------------ MODULE Workspace ------------------------------
(***************************************************************************)
(* A variable that vector builtins are called on, each result taking the   *)
(* place of the last.  The properties compare, for every value a few calls *)
(* can make, ways of computing one thing that the code writes separately.  *)
(***************************************************************************)
EXTENDS Mapping, Linear, Sampling

CONSTANTS
    Starts,          \* the values to begin with, in a sequence
    Partners,        \* second operands and second arguments, likewise
    Operators,       \* the binary operators called
    Functions,       \* the other calls
    MaxCalls,        \* bound on the calls in a row
    MaxLength,       \* bound on the length of a value
    MaxNumber        \* bound on numerators and denominators

VARIABLES value, calls
vars == <<value, calls>>

Small(v) ==
    /\ size(v) <= MaxLength
    /\ All(v.v, LAMBDA e :
          CASE e = NA -> TRUE
            [] v.t = "int" /\ e # NA -> Size(e) <= MaxNumber
            [] v.t = "dbl" /\ e # NA -> Size(e[1]) <= MaxNumber /\ e[2] <= 2
            [] v.t = "str" /\ e # NA -> Contains(Collation, e)
            [] v.t = "list" -> e.t # "list" /\ size(e) <= MaxLength
            [] OTHER -> TRUE)
Becomes(result) == /\ calls < MaxCalls
                   /\ ~failed(result) /\ Small(result)
                   /\ value' = result /\ calls' = calls + 1

Atomic(x) == x.t \in {"lgl", "int", "dbl", "str"}
Numeric(x) == numeric(x) /\ x.v # <<>>
Flat(x) == Atomic(x) /\ Len(x.dim) = 0

\* One call on a value; Failed for a call the value is not for.
rearranged(f, x) ==
    CASE f = "rev" -> rev(x) [] f = "sort" -> sort_value(x, FALSE, NA)
      [] f = "sort decreasing" -> sort_value(x, TRUE, 1) [] f = "order" -> order_value(x, FALSE, 1)
      [] f = "unique" -> unique(x, FALSE) [] f = "head" -> head(x, -1) [] f = "tail" -> tail(x, 2)
      [] f = "rep" -> rep(x, <<2>>, 1, NA) [] f = "rep each" -> rep(x, <<1>>, 2, 3)
      [] f = "append" -> append(x, x, 1) [] f = "na.omit" -> na_omit(x) [] f = "rle" -> rle(x)
      [] f = "as.list" -> as_list(x) [] f = "seq" -> seq(x, Null, Null, Ints(<<2>>))
measured(f, x) ==
    CASE f = "is.na" -> is_na(x) [] f = "cumsum" -> cumsum(x) [] f = "diff" -> diff(x, 1)
      [] f = "range" -> extremes("range", x, TRUE) [] f = "sum" -> sum(<<x>>, FALSE)
      [] f = "median" -> median(x, TRUE) [] f = "mean" -> mean(x, TRUE) [] f = "abs" -> abs(x)
      [] f = "trunc" -> rounding("trunc", x) [] f = "rank" -> rank(x, "average", "keep")
      [] f = "which" -> which(x) [] f = "tabulate" -> tabulate(x, NA) [] f = "not" -> not(x)
      [] f = "ifelse" -> ifelse(x, Strs(<<"a">>), Ints(<<1, 2>>))
      [] f = "round" -> math2("round", x, Ints(<<0>>))
converted(f, x) ==
    CASE f = "factor" -> r_factor(x, NA, NA, NA) [] f = "as.ordered" -> as_ordered(x)
      [] f = "table" -> table(<<x>>, <<"">>, "ifany", <<>>) [] f = "as.numeric" -> as_numeric(x)
      [] f = "as.integer" -> as_whole(x) [] f = "as.character" -> as_character(x)
      [] f = "as.vector" -> as_vector(x, "any") [] f = "as.logical" -> as_logical(x)
      [] f = "split" -> split(x, Strs(<<"b", "a">>)) [] f = "droplevels" -> drop_unused_levels(x)
      [] f = "relevel" -> relevel(x, "b") [] f = "cut" -> cut(x, Ints(<<0, 2, 4>>), NA, TRUE, TRUE)
labelled(f, x) ==
    CASE f = "names" -> set_names(x, Strs(<<"a", "b">>)) [] f = "no names" -> set_names(x, Null)
      [] f = "length" -> set_length(x, 3) [] f = "dim" -> set_dim(x, Ints(<<2, size(x) \div 2>>))
      [] f = "no dim" -> set_dim(x, Null) [] f = "rownames" -> set_margin(x, 1, Strs(<<"a", "b">>))
      [] f = "dimnames" -> set_dimnames_to(x, Named(Lists(<<Null, Strs(<<"lo", "z">>)>>), <<"a", "b">>))
mapped(f, x) ==
    CASE f = "lapply" -> lapply(x, <<"double">>) [] f = "sapply" -> sapply(x, <<"pair">>)
      [] f = "vapply" -> vapply(x, <<"sum">>, Dbls(<<NA>>)) [] f = "Reduce" -> Reduce(x, <<"c">>, Null, FALSE, FALSE)
      [] f = "unlist" -> unlist(x) [] f = "lengths" -> lengths(x) [] f = "rapply" -> rapply(x, {"str"}, "replace")
      [] f = "modifyList" -> modifyList(x, Named(Lists(<<Ints(<<1>>), Strs(<<"a">>)>>), <<"a", "z">>))
arranged(f, x) ==
    CASE f = "t" -> t(x) [] f = "aperm" -> aperm_default(x, <<>>, TRUE)
      [] f = "cbind" -> cbind(<<<<NA, x>>, <<"k", Ints(<<1>>)>>>>) [] f = "rbind" -> rbind(<<<<NA, x>>, <<NA, x>>>>)
      [] f = "rowSums" -> margin_sums(x, TRUE, FALSE, TRUE) [] f = "prop.table" -> prop_table(x, NA)
      [] f = "apply" -> apply(x, <<2>>, <<"pair">>) [] f = "matrix" -> matrix(x, NA, 2, TRUE, <<>>, <<>>)
      [] f = "array" -> array(x, <<2, 1, 2>>, <<>>, <<>>) [] f = "outer" -> outer(x, Ints(<<1, 2>>))
      [] f = "crossprod" -> matprod("cross", x, x) [] f = "diag" -> diag(x)
      [] f = "unique rows" -> unique(x, TRUE) [] f = "margin.table" -> margin_table(x, <<2>>)
      [] f = "as.table" -> as_table(x)

Rearrangements == {"rev", "sort", "sort decreasing", "order", "unique", "head", "tail", "rep", "rep each",
                   "append", "na.omit", "rle", "as.list", "seq"}
Measures == {"is.na", "cumsum", "diff", "range", "sum", "median", "mean", "abs", "trunc", "rank", "which",
             "tabulate", "not", "ifelse", "round"}
Conversions == {"factor", "as.ordered", "table", "as.numeric", "as.integer", "as.character", "as.vector",
                "as.logical", "split", "droplevels", "relevel", "cut"}
Labellings == {"names", "no names", "length", "dim", "no dim", "rownames", "dimnames"}
Mappings == {"lapply", "sapply", "vapply", "Reduce", "unlist", "lengths", "rapply", "modifyList"}
Arrangements == {"t", "aperm", "cbind", "rbind", "rowSums", "prop.table", "apply", "matrix", "array", "outer",
                 "crossprod", "diag", "unique rows", "margin.table", "as.table"}

\* The values each call is modelled for.
Takes(f, x) ==
    CASE f \in {"rev", "head", "append", "rep", "rep each", "as.list"} -> x.v # <<>> /\ x.dim = <<>>
      [] f \in {"sort", "sort decreasing", "order", "na.omit", "rle"} -> Flat(x) /\ x.v # <<>>
      [] f = "seq" -> numeric(x) /\ size(x) = 1
      [] f \in {"unique", "tail"} -> (Atomic(x) \/ x.t = "list") /\ Len(x.dim) \in {0, 2}
      [] f \in {"is.na", "which", "ifelse", "not"} -> Atomic(x) /\ x.t # "str" /\ ~IsFactor(x)
      [] f \in Measures \ {"is.na", "which", "ifelse", "not"} -> Numeric(x) /\ Flat(x)
      [] f \in {"factor", "as.ordered", "table", "split"} -> Flat(x) /\ x.v # <<>>
      [] f = "cut" -> Numeric(x) /\ Flat(x)
      [] f \in {"droplevels", "relevel"} -> IsFactor(x)
      [] f \in {"as.numeric", "as.integer", "as.character", "as.vector", "as.logical"} -> Atomic(x)
      [] f \in {"names", "no names", "length"} -> x.dim = <<>> /\ ~IsFactor(x)
      [] f = "dim" -> x.t # "NULL" /\ x.class = <<>> /\ x.v # <<>>
      [] f \in {"no dim", "rownames"} -> x.dim # <<>>
      [] f = "dimnames" -> IsMatrix(x)
      [] f \in {"lapply", "sapply", "vapply", "Reduce"} -> x.v # <<>> /\ x.dim = <<>>
      [] f \in {"unlist", "lengths", "rapply"} -> x.t = "list" /\ x.dim = <<>>
      [] f = "modifyList" -> x.t = "list" /\ x.names # <<>>
      [] f \in {"aperm", "margin.table"} -> Len(x.dim) \in {2, 3} /\ x.v # <<>> /\ x.t # "list"
      [] f \in {"rowSums", "prop.table", "apply", "crossprod", "unique rows"} ->
           IsMatrix(x) /\ Numeric(x)
      [] f = "as.table" -> Numeric(x) /\ (x.dim # <<>> \/ x.names # <<>>)
      [] f \in {"t", "cbind", "rbind"} -> Len(x.dim) \in {0, 2} /\ Atomic(x) /\ x.v # <<>> /\ ~IsFactor(x)
      [] f = "diag" -> Numeric(x) /\ (size(x) = 1 => as_int(x)[1] \notin {NA, 0} /\ as_int(x)[1] > 0)
      [] f \in {"matrix", "array", "outer"} -> Numeric(x)

CalculatesWith(op, w) == Becomes(binop_internal(op, value, w))
primitive_body(f, x) ==
    CASE f \in Rearrangements -> rearranged(f, x) [] f \in Measures -> measured(f, x)
      [] f \in Conversions -> converted(f, x) [] f \in Labellings -> labelled(f, x)
      [] f \in Mappings -> mapped(f, x) [] f \in Arrangements -> arranged(f, x)
Calls(f) == Takes(f, value) /\ Becomes(primitive_body(f, value))

Init == (\E i \in DOMAIN Starts : value = Starts[i]) /\ calls = 0
Next == \/ \E op \in Operators, i \in DOMAIN Partners :
              /\ Atomic(value) /\ value.v # <<>>
              /\ value.dim # <<>> => size(Partners[i]) <= size(value)
              /\ Partners[i].dim # <<>> => size(value) <= size(Partners[i]) /\ value.dim \in {<<>>, Partners[i].dim}
              /\ CalculatesWith(op, Partners[i])
        \/ \E f \in Functions : Calls(f)
Spec == Init /\ [][Next]_vars

(***************************************************************************)
(* What must hold of every value.                                          *)
(***************************************************************************)
\* A value's attributes fit its elements: dim multiplies out to the length,
\* dimnames fit the extents, there is a name for every element, and the codes
\* of a factor are places in its distinct levels.  Every builtin that moves
\* elements has to move, cut or drop the attributes with them.
AttributesFit ==
    LET x == value
    IN  /\ x.dim # <<>> => Cells(x.dim) = size(x)
        /\ x.dn # <<>> => /\ Len(x.dn) <= Len(x.dim)
                          /\ \A k \in DOMAIN x.dn : x.dn[k] # <<>> => Len(x.dn[k]) = x.dim[k]
        /\ x.names # <<>> => Len(x.names) = size(x)
        /\ x.dnn # <<>> => Len(x.dnn) = Len(x.dn)
        /\ IsFactor(x) => /\ x.t = "int" /\ Cardinality(ToSet(x.levels)) = Len(x.levels)
                          /\ \A i \in DOMAIN x.v : x.v[i] \in {NA} \cup DOMAIN x.levels

Scalar(x, i) == Vec(x.t, <<At(x.v, i)>>)
Plain2(x) == numeric(x) /\ x.v # <<>>
Finite(x, i) == At(x.v, i) # NA /\ IsFinite(At(as_dbl(x), i))
ArithmeticOps == {"+", "-", "*", "/", "^", "%%", "%/%"}
\* The way two bare numbers take through the operators and the way vectors
\* take are written separately: each element of a vector result is what the
\* bare numbers give.
OneByOne ==
    LET x == value
    IN  Plain2(x) => \A j \in DOMAIN Partners :
            LET w == Partners[j]
            IN  Plain2(w) => \A op \in ArithmeticOps \cap Operators :
                    LET r == arith(op, x, w)
                    IN  \A i \in DOMAIN r.v :
                          (At(x.v, i) # NA /\ At(w.v, i) # NA) =>
                              LET one == arith(op, Scalar(x, i), Scalar(w, i))
                              IN  one.t = r.t /\ one.v[1] = r.v[i]

\* x is (x %/% y) * y + x %% y, the remainder between 0 and y.
DividesBack ==
    LET x == value
    IN  Plain2(x) => \A j \in DOMAIN Partners :
            LET w == Partners[j]
                q == as_dbl(arith_vector("%/%", x, w))
                r == as_dbl(arith_vector("%%", x, w))
            IN  Plain2(w) => \A i \in DOMAIN r :
                    LET a == At(as_dbl(x), i)
                        b == At(as_dbl(w), i)
                    IN  (Finite(x, i) /\ Finite(w, i) /\ b # Whole(0)) =>
                            /\ Plus(Times(b, q[i]), r[i]) = a
                            /\ IsWhole(q[i])
                            /\ r[i] = Whole(0) \/ (r[i][1] < 0) = (b[1] < 0)
                            /\ Less(<<Size(r[i][1]), r[i][2]>>, <<Size(b[1]), b[2]>>)

\* The comparisons are three-way, == is symmetric, & and | are dual under !,
\* and if() accepts what && accepts.
Trichotomy ==
    LET x == value
    IN  (Atomic(x) /\ x.v # <<>>) => \A j \in DOMAIN Partners :
            LET w == Partners[j]
                three(is, back) ==
                    /\ (IsFactor(x) \/ IsFactor(w)) \/ \A i \in DOMAIN is["=="].v :
                        LET held == {op \in {"<", "==", ">"} : is[op].v[i] = 1}
                        IN  IF is["=="].v[i] = NA THEN held = {} /\ is["<="].v[i] = NA
                            ELSE /\ Cardinality(held) = 1
                                 /\ (is["<="].v[i] = 1) = (held # {">"}) /\ (is[">="].v[i] = 1) = (held # {"<"})
                                 /\ is["!="].v[i] = 1 - is["=="].v[i]
                    /\ is["=="].t = back.t /\ is["=="].v = back.v
            IN  /\ three([op \in {"<", "<=", "==", "!=", ">=", ">"} |-> binop_internal(op, x, w)], binop_internal("==", w, x))
                /\ (Plain2(x) /\ Plain2(w)) =>
                       not(logic("&", x, w)).v = logic("|", not(x), not(w)).v
\* A loop over from:to runs through what from:to is.
LoopRunsTheColon ==
    LET x == value
    IN  (Plain2(x) /\ size(x) = 1) => \A j \in DOMAIN Partners :
            LET w == Partners[j]
            IN  (Plain2(w) /\ Finite(x, 1) /\ Finite(w, 1)) =>
                    LET r == native_range(x, Scalar(w, 1))
                    IN  /\ as_dbl(r) = as_dbl(colon(x, w))
                        /\ (IsWhole(as_dbl(x)[1]) /\ IsWhole(as_dbl(w)[1])) => r.t = colon(x, w).t
\* What the builtins of the operators answer is one thing however they are
\* reached: by scalars or by vectors, by a quotient or its remainder, from either
\* side, by an operator or by the header of a loop.  (+, - and * of two unboxed
\* numbers are operations of the machine itself and are not compared here.)
ArithmeticAgrees == OneByOne /\ DividesBack /\ Trichotomy /\ LoopRunsTheColon

Bounded(v) == ~failed(v) /\ ~Contains(v.v, NA)
NoMissing(x) == ~Some(as_dbl(x), Missing)
\* Totals however they are made: running ones, those of the extremes, the
\* order statistics and the positions.
TotalsAgree ==
    LET x == value
        n == size(x)
        last(s) == Vec(s.t, <<s.v[n]>>)
        totalled(s) == Bounded(s) => /\ last(s) = sum(<<x>>, FALSE)
                                     /\ x.t = "int" => diff(s, 1).v = Tail(x.v)
        ends(sorted) == sorted.v # <<>> =>
              /\ as_dbl(extremes("range", x, TRUE)) = <<as_dbl(sorted)[1], Last(as_dbl(sorted))>>
              /\ as_dbl(x)[which_extreme(x, FALSE).v[1]] = as_dbl(sorted)[1]
              /\ which_extreme(x, FALSE).v[1] = match_positions(Scalar(sorted, 1), x, NA)[1]
        middle(m) == m.v[1] = To(m.t, Dbls(<<quantile(x, <<1, 2>>)>>))[1]
        between(xs, ws, both) == \A i \in 1 .. n : NaN \notin {xs[i], ws[i]} =>
            {both[1][i], both[2][i]} = IF NA \in {xs[i], ws[i]} THEN {NA} ELSE {xs[i], ws[i]}
    IN  (Numeric(x) /\ Flat(x)) =>
        /\ totalled(cumsum(x))
        /\ NoMissing(x) =>
              /\ last(cumprod(x)) = prod(<<x>>, FALSE)
              /\ as_dbl(last(cummax(x))) = as_dbl(extremes("max", x, FALSE))
              /\ middle(median(x, FALSE))
              /\ as_dbl(extremes("min", x, FALSE))[1] = quantile(x, Whole(0))
              /\ (\A i \in 1 .. n : Finite(x, i)) => Times(mean(x, FALSE).v[1], Whole(n)) = as_dbl(sum(<<x>>, FALSE))[1]
        /\ ends(sort_value(x, FALSE, NA))
        /\ any(<<not(x)>>, FALSE) = not(all(<<x>>, FALSE))
        /\ \A i \in 1 .. n, k \in -1 .. 1 : (x.names = <<>> /\ Finite(x, i) /\ as_dbl(x)[i] # Whole(0)) =>
              LET e == as_dbl(x)[i]
                  r == r_round(e, Whole(k))
                  away == Times(Sub(r, e), Ten(k))
              IN  /\ ~Less(<<1, 2>>, <<Size(away[1]), away[2]>>) /\ IsWhole(Times(r, Ten(k)))
                  /\ k > 0 => signif(e, Whole(k)) = r_round(e, Whole(k - 1 - exponent(e)))
                  /\ r_round(Minus(e), Whole(k)) = Minus(r)
        /\ \A w \in {rev(x)} :
              between(as_dbl(x), as_dbl(w), <<as_dbl(pmin(<<x, w>>, FALSE)), as_dbl(pmax(<<x, w>>, FALSE))>>)

\* Sorting, ordering, ranking, matching and dropping duplicates: rk holds the
\* ranks by each method, u the distinct elements and ops the set operations.
Ordered(x, n, order, rk, keys, transformed) ==
        /\ is_unsorted(sort_value(x, FALSE, NA), FALSE, FALSE).v = <<0>>
        /\ sort_value(x, FALSE, 1).v = Pick(x.v, order)
        /\ [k \in 1 .. n |-> rk["first"][order[k]]] = Upto(n)
        /\ \A i, j \in 1 .. n : (~missing(x, i) /\ ~missing(x, j)) =>
              /\ before(x, i, j) <=> Less(rk["average"][i], rk["average"][j])
              /\ ~IsFactor(x) => (rk["min"][i] = rk["min"][j]) = (keys[i] = keys[j])
              /\ rk["min"][i] <= rk["last"][i] /\ rk["last"][i] <= rk["max"][i]
        /\ \A i \in 1 .. n : (~missing(x, i) /\ transformed.t = "int" /\ (IsFactor(x) \/ x.t # "int"))
                                => transformed.v[i] = rk["min"][i]
Distinct(x, n, u, flags) ==
        /\ u.v = take_positions(x, Ind(n, LAMBDA i : flags[i] = 0)).v
        /\ \A from_last \in BOOLEAN : (any_duplicated(x, from_last) = 0) = (size(u) = n)
        /\ match_positions(u, u, NA) = Upto(size(u))
        /\ take_positions(u, match_positions(x, u, NA)).v = x.v
        /\ \A j \in DOMAIN Partners : LET w == Partners[j] IN (w.t = x.t /\ ~IsFactor(w) /\ ~IsFactor(x)) =>
              LET agree(ops) == /\ ops["union"].v = unique(c(<<x, w>>), FALSE).v
                                /\ size(ops["setdiff"]) + size(ops["intersect"]) = size(u)
                                /\ Filter(u, <<"is.element", w>>).v = ops["intersect"].v
              IN  agree([kind \in {"union", "setdiff", "intersect"} |-> set_op(kind, x, w)])
MadeUnique(n, labels, names, flags) ==
    Cardinality(ToSet(names)) = n /\ \A i \in 1 .. n : flags[i] = 0 => names[i] = labels[i]
RanksAgree ==
    LET x == value
        n == size(x)
        labels == as_str_labels(x)
    IN  (Flat(x) /\ x.v # <<>>) =>
        /\ Ordered(x, n, order_value(x, FALSE, 1).v,
                   [method \in {"first", "last", "min", "max", "average"} |-> rank(x, method, "last").v],
                   match_keys(x, x.t = "str"), xtfrm(x))
        /\ Distinct(x, n, unique(x, FALSE), duplicated_flags(x, FALSE))
        /\ MadeUnique(n, labels, make_unique(labels), duplicated_flags(Strs(labels), FALSE))
        /\ rev(rev(x)) = take(x, Upto(n))
        /\ \A k \in 0 .. n : c(<<head(x, k), tail(x, n - k)>>) = c(<<x>>)
        /\ append(x, Scalar(x, 1), 1).v = c(<<head(x, 1), Scalar(x, 1), tail(x, n - 1)>>).v
        /\ inverse_rle(rle(x)).v = x.v
AsText(x) == as_character(x).v
SameAttributes(x, w) == x.dim = w.dim /\ x.dn = w.dn /\ x.dnn = w.dnn /\ x.class = w.class /\ x.levels = w.levels
\* all.equal is true of x and itself, true of what identical() and equal
\* attributes say is the same, and does not mind which comes first; two equal
\* numbers are equal whatever their type.
EqualBothWays ==
    LET x == value
        others == Partners \o <<x, rev(take_positions(x, Upto(size(x)))), as_list(x),
                                 IF numeric(x) THEN as_numeric(x) ELSE Null,
                                 IF x.dim = <<>> THEN [x EXCEPT !.names = [i \in DOMAIN x.v |-> "a"]] ELSE Vec(x.t, x.v)>>
    IN  /\ \A j \in DOMAIN others :
              LET w == others[j]
              IN  /\ (all_equal(x, w) = <<>>) <=> (all_equal(w, x) = <<>>)
                  /\ (identical(x, w) /\ SameAttributes(x, w)) => all_equal(x, w) = <<>>
                  /\ (Atomic(x) /\ all_equal(x, w) = <<>>) =>
                        /\ size(x) = size(w) /\ x.names = w.names /\ x.dim = w.dim
                        /\ AsText(x) = AsText(w) \/ ~NoMissing(x)
        /\ all_equal(x, x) = <<>>
        /\ (numeric(x) /\ SameAttributes(x, Vec(x.t, x.v)) /\ x.names = <<>> /\ x.t # "lgl") => all_equal(x, as_numeric(x)) = <<>>

\* What sample() draws is an arrangement of what there is, each element as
\* often as its weight says whichever sampler is asked, and never one without
\* weight.
Weights(x) == numeric(x) /\ \A i \in DOMAIN x.v : x.v[i] # NA /\ as_dbl(x)[i] \in {Whole(k) : k \in 0 .. 3}
SamplesAgree ==
    LET x == value
        n == size(x)
        w == as_int(x)
        middles == {<<1, 100>>, <<1, 2>>, <<99, 100>>}
    IN  (Flat(x) /\ x.v # <<>> /\ x.names = <<>>) =>
        /\ whole_population(x) => IndicesEvenly(as_int(x)[1], 2) /\ IndicesEvenly(as_int(x)[1], 3)
        /\ ~whole_population(x) => \A d \in Draws([i \in 1 .. n |-> n + 1 - i]) :
               \A i \in 1 .. n : LET times(s) == Len(SelectSeq(s, LAMBDA e : e = x.v[i]))
                                  IN  times(sample(x, FALSE, d).v) = times(x.v)
        /\ Weights(x) =>
              /\ UniformlyDrawn(n, n)
              /\ (\E i \in DOMAIN w : w[i] > 0) => WeightsKept(w)
              /\ \A k \in 1 .. 3 : may_sample(Ints(<<n>>), Ints(<<k>>), FALSE, x) =>
                    \A us \in [1 .. k -> middles] :
                        LET y == prob_sample_no_replace(fixup_prob(as_dbl(x), k, FALSE), us)
                        IN  Cardinality(ToSet(y)) = k /\ \A i \in DOMAIN y : w[y[i]] > 0

\* There is one order and one equality of the elements, whichever builtin asks:
\* the summaries, the sorts, the ranks, the matches, the sets and all.equal;
\* and the samplers keep to it.
OrdersAgree == TotalsAgree /\ RanksAgree /\ EqualBothWays /\ SamplesAgree

\* Mapping over the elements is what the vector builtins do.
Mapped(x) ==
    /\ (Numeric(x) /\ x.t # "lgl" /\ NoMissing(x)) =>
          /\ Reduce(x, <<"+">>, Null, FALSE, TRUE).v
               = cumsum(x).v
          /\ mapply(x, Ints(<<2>>), <<"*">>, TRUE).v = binop_internal("*", x, Ints(<<2>>)).v
    /\ Reduce(x, <<"c">>, Null, FALSE, FALSE).v = x.v
    /\ Reduce(x, <<"c reversed">>, Null, TRUE, FALSE).v = Reverse(x.v)
    /\ Filter(x, <<"is.na">>).v = Pick(x.v, Ind(size(x), LAMBDA i : is_na(x).v[i] = 1))
    /\ Position(x, <<"is.na">>) = IF Contains(is_na(x).v, 1) THEN position(is_na(x).v, 1) ELSE NA
    /\ unlist(as_list(x)).v = x.v
\* Grouping is one partition however it is asked for: by split, tapply, table,
\* interaction, cut or a factor; and mapping over the groups is mapping.
GroupsAgree ==
    LET x == value
        n == size(x)
        f == Strs([i \in 1 .. n |-> IF i % 3 = 0 THEN "a" ELSE "b"])
        h == r_factor(x, NA, NA, NA)
        counted(groups, counts, tallied) ==
            /\ unsplit(groups, f).v = x.v
            /\ [k \in DOMAIN groups.v |-> size(groups.v[k])] = tallied.v
            /\ counts.v = tallied.v /\ counts.dn = tallied.dn
            /\ numeric(x) => sapply(groups, <<"sum">>).v = tapply(x, <<f>>, <<"sum">>).v
        coded(k) == k.levels = <<>> \/ table(<<x>>, <<"">>, "no", <<>>).v = tabulate(Ints(k.codes), Len(k.levels)).v
        crossed(cells, both) ==
            /\ cells.v = [at \in 1 .. Len(both.levels) |-> Len(Ind(n, LAMBDA i : both.v[i] = at))]
            /\ \A i \in 1 .. n : both.v[i] # NA => AsText(both)[i] = paste(<<x, f>>, ".", NA).v[i]
        binned(code, at) == \A i \in 1 .. n : code[i] = IF at[i] \in {0, 3} THEN NA ELSE at[i]
        breaks == Ints(<<-1, 2, 5>>)
    IN  (Flat(x) /\ x.v # <<>>) =>
        /\ counted(split(x, f), tapply(x, <<f>>, <<"length">>), table(<<f>>, <<"">>, "no", <<>>))
        /\ AsText(h) = [i \in 1 .. n |-> IF x.t = "dbl" /\ AsText(x)[i] = "NaN" THEN NA ELSE AsText(x)[i]]
        /\ AsText(drop_unused_levels(h)) = AsText(h)
        /\ IsFactor(x) => AsText(drop_unused_levels(x)) = AsText(x)
        /\ IsFactor(as_ordered(x)) /\ AsText(as_ordered(x)) = AsText(h)
        /\ coded(classify_factor(x))
        /\ crossed(table(<<x, f>>, <<"", "">>, "no", <<>>), interaction(<<x, f>>, FALSE))
        /\ numeric(x) => binned(cut_codes(x, breaks, FALSE, FALSE), findInterval(x, breaks, FALSE).v)
        /\ Named(sapply(x, <<"identity">>), <<>>).v = x.v
        /\ Mapped(x)

Labelled(x) == /\ \E k \in DOMAIN x.dn : x.dn[k] # <<>>
               /\ \A k \in DOMAIN x.dn : ~Contains(x.dn[k], NA)
Cellular(x) == numeric(x) /\ x.v # <<>> /\ Len(x.dim) # 1 /\ x.class = <<>> /\ (x.dn = <<>> \/ Labelled(x))
\* t, aperm, cbind and rbind, apply over every margin, the triangles, the
\* diagonal and filling by row move the same cells and the same labels.
TurnsAlike == Cellular(value) => RearrangesAlike(value, Ints(<<1, 2>>))
\* Whole cells small enough that the factors stay within TLC's integers.
Solvable(x) == x.t = "int" /\ All(x.v, LAMBDA e : e \in -5 .. 5)
Squares(x) == {y \in {x, matrix(Unlabelled(x), 3, 3, FALSE, <<>>, <<>>)} : IsMatrix(y) /\ nrow(y) = ncol(y)}
\* Sums over a margin agree whether rowSums, apply, rowsum or margin.table
\* makes them, what sweep and scale lay along a margin undoes itself, and the
\* products agree with each other through the transpose; a square system is
\* solved, refused and measured by factors that multiply to its matrix.
MarginsAgree ==
    Cellular(value) =>
        /\ SumsAlike(value, <<"b", "a">>, <<"a", "b">>)
        /\ LaidAlike(value, Ints(<<1, 2>>))
        /\ \A j \in DOMAIN Partners : Cellular(Partners[j]) => MultiplyAlike(value, Partners[j])
        /\ Solvable(value) => \A square \in Squares(value) : FactorsMultiply(square)
=============================================================================
