------------------------------- MODULE Mapping -------------------------------
(***************************************************************************)
(* Builtins that call a function for each element or group, coercions, the *)
(* replacement functions of attributes, and all.equal.  When a call of *)
(* the function that is mapped gives Failed, so does the whole.            *)
(***************************************************************************)
EXTENDS Vectors

Every(out) == IF Some(out.v, failed) THEN Failed ELSE out
simplified(out) == IF failed(out) THEN Failed ELSE simplify(out)
WithNames(out, names) == IF \A k \in DOMAIN names : names[k] = NA THEN Named(out, <<>>) ELSE Named(out, names)

(***************************************************************************)
(* One call for each element.                                              *)
(***************************************************************************)
lapply(x, f) == Every(Named(Lists([i \in DOMAIN x.v |-> call_fun(f, <<elements(x)[i]>>)]), x.names))
\* A character vector names its own results.
label_from_first(out, first) ==
    IF first.names # <<>> THEN WithNames(out, first.names)
    ELSE IF first.t = "str" THEN WithNames(out, as_str(first)) ELSE out
sapply(x, f) ==
    LET labelled(out) == IF x.t = "str" /\ x.names = <<>> /\ ~failed(out) THEN Named(out, x.v) ELSE out
    IN  simplified(labelled(lapply(x, f)))
\* A result has the prototype's length, and its type or a lesser one.
vapply_coerce(val, proto) ==
    CASE val.t = proto.t -> val
      [] <<proto.t, val.t>> \in {<<"dbl", "int">>, <<"dbl", "lgl">>, <<"int", "lgl">>} ->
           Named(Vec(proto.t, To(proto.t, val)), val.names)
      [] OTHER -> Failed
vapply(x, f, proto) ==
    LET checked(val) == IF failed(val) \/ size(val) # size(proto) THEN Failed ELSE vapply_coerce(val, proto)
        results(items) == Lists([i \in DOMAIN items |-> checked(call_fun(f, <<items[i]>>))])
    IN  IF size(x) = 0 THEN take_positions(proto, <<>>)
        ELSE simplified(Every(label_from_first(results(elements(x)), x)))
\* f over x and y together, the shorter recycled; empty when either is.
mapply(x, y, f, simplify_it) ==
    LET results == Lists([i \in 1 .. recycle_len(x, y) |->
                            call_fun(f, <<At(elements(x), i), At(elements(y), i)>>)])
        labelled(out) == IF size(x) = 0 THEN out ELSE label_from_first(out, x)
        simple(out) == IF simplify_it THEN simplified(out) ELSE out
    IN  simple(Every(labelled(results)))

Holds(v) == size(v) > 0 /\ as_lgl(v)[1] = 1
Answering(x, f) == Ind(size(x), LAMBDA i : Holds(call_fun(f, <<elements(x)[i]>>)))
Filter(x, f) ==
    LET kept(keep) == IF x.names = <<>> THEN take_positions(x, keep)
                      ELSE WithNames(take_positions(x, keep), Pick(x.names, keep))
    IN  kept(Answering(x, f))
Position(x, f) ==
    LET first(found) == IF found = <<>> THEN NA ELSE found[1] IN first(Answering(x, f))
Find(x, f) ==
    LET at(i) == IF i = NA THEN Null ELSE elements(x)[i] IN at(Position(x, f))

\* The steps of a fold, from the end of x when right; init is Null without one.
folded(x, f, init, right) ==
    LET items == IF right THEN Reverse(elements(x)) ELSE elements(x)
        start == IF init.t = "NULL" THEN SubSeq(items, 1, 1) ELSE <<init>>
        rest == IF init.t = "NULL" THEN Tail(items) ELSE items
    IN  FoldLeft(LAMBDA steps, e : Append(steps, call_fun(f, IF right THEN <<e, Last(steps)>> ELSE <<Last(steps), e>>)),
                 start, rest)
Reduce(x, f, init, right, accumulate) ==
    LET answer(steps) == IF accumulate THEN simplify(Lists(IF right THEN Reverse(steps) ELSE steps))
                         ELSE Last(steps)
    IN  IF size(x) = 0 /\ init.t = "NULL" THEN Null ELSE answer(folded(x, f, init, right))

RECURSIVE leaves(_, _, _)
leaves(x, classes, replaced) ==     \* rapply: the leaves of the classes marked by their length
    IF x.t = "list"
    THEN [Lists([i \in DOMAIN x.v |-> leaves(x.v[i], classes, replaced)])
          EXCEPT !.names = x.names, !.class = IF replaced THEN x.class ELSE <<>>]
    ELSE IF classes = {} \/ x.t \in classes THEN Ints(<<size(x)>>)
    ELSE IF replaced THEN x ELSE Null
rapply(x, classes, how) == LET out == leaves(x, classes, how = "replace")
                           IN  IF how = "unlist" THEN unlist(out) ELSE out

(***************************************************************************)
(* One call for each group.                                                *)
(***************************************************************************)
\* A mutant of split: the groups come in the order of the values.
UnsortedSplit(x, f) ==
    LET of == as_str_labels(f)
        levels == distinct(SelectSeq(of, LAMBDA s : s # NA))
        group(lev) == carry_factor(take_positions(x, Ind(size(x), LAMBDA i : At(of, i) = lev)), x)
    IN  IF of = <<>> /\ size(x) > 0 THEN Failed
        ELSE Named(Lists([k \in DOMAIN levels |-> group(levels[k])]), levels)
take_named(x, ps, out) == IF x.names = <<>> THEN out ELSE WithNames(out, Pick(x.names, ps))
take_group(x, ps) == take_named(x, ps, carry_factor(take_positions(x, ps), x))
split_by(x, of, levels) ==
    Named(Lists([k \in DOMAIN levels |-> take_group(x, Ind(size(x), LAMBDA i : At(of, i) = levels[k]))]), levels)
split(x, f) == IF size(f) = 0 /\ size(x) > 0 THEN Failed ELSE split_by(x, as_str_labels(f), factor_levels(f))
\* Each group goes back, recycled, to the positions it came from in an all-NA
\* copy of the first; a factor takes its levels only.
unsplit(value, f) ==
    LET first == value.v[1]
        type == IF IsFactor(first) THEN "int" ELSE TypeOfRank[Max({1} \cup {Rank(value.v[j].t) : j \in DOMAIN value.v})]
        stored(part) == IF IsFactor(first) THEN place_of_level(Strs(as_str_labels(part)), first.levels).v ELSE To(type, part)
        held(groups, i, from) == IF from = {} THEN NA
                                 ELSE At(stored(At(value.v, Min(from))), position(groups[Min(from)].v, i))
        cells(groups) == [i \in 1 .. size(f) |-> held(groups, i, {g \in DOMAIN groups : Contains(groups[g].v, i)})]
        named(out) == IF first.names = <<>> THEN out ELSE Named(out, [i \in DOMAIN out.v |-> NA])
        whole(groups) == IF \E g \in DOMAIN groups : groups[g].v # <<>> /\ size(At(value.v, g)) = 0 THEN Failed
                         ELSE named(carry_factor(Vec(type, cells(groups)), first))
    IN  IF value.v = <<>> THEN Failed ELSE whole(split(Ints(Upto(size(f))), f).v)
\* Cells of the cross-classification nothing falls in are NA.
tapply_results(x, cells, f) ==
    [at \in DOMAIN cells |-> IF cells[at] = <<>> THEN Null ELSE call_fun(f, <<take_positions(x, cells[at])>>)]
tapply_laid(cells, results) ==
    LET single(v) == size(v) = 1 /\ v.t \in {"lgl", "int", "dbl", "str"}
    IN  IF Some(results, failed) THEN Failed
        ELSE IF \A at \in DOMAIN cells : cells[at] = <<>> \/ single(results[at])
        THEN c([at \in DOMAIN cells |-> IF cells[at] = <<>> THEN Lgls(<<NA>>) ELSE results[at]])
        ELSE Lists(results)
tapply(x, index, f) ==
    LET laid(cells) == tapply_laid(cells, tapply_results(x, cells, f))
        shaped(out, cs) == IF failed(out) THEN Failed
                           ELSE [out EXCEPT !.dim = [k \in DOMAIN cs |-> Len(cs[k].levels)],
                                            !.dn = [k \in DOMAIN cs |-> cs[k].levels]]
        over(cs) == shaped(laid([at \in 1 .. Grid(cs) |-> Ind(size(x), LAMBDA i : place(cs, i) = at)]), cs)
    IN  IF \E k \in DOMAIN index : size(index[k]) # size(x) THEN Failed
        ELSE over([k \in DOMAIN index |-> classify_factor(index[k])])

(***************************************************************************)
(* Lists.                                                                  *)
(***************************************************************************)
modifyList(x, val) ==
    FoldLeft(LAMBDA out, i :
        LET key == IF val.names = <<>> THEN NA ELSE val.names[i]
            e == elements(val)[i]
        IN  IF key # NA /\ Contains(out.names, key) THEN [out EXCEPT !.v[position(out.names, key)] = e]
            ELSE [out EXCEPT !.v = Append(@, e), !.names = Append(@, key)],
        Named(Lists(elements(x)), x.names), Upto(size(val)))
lengths(x) == Named(Ints([i \in DOMAIN x.v |-> size(elements(x)[i])]), x.names)

(***************************************************************************)
(* Coercions.  An atomic result keeps no attribute, a list its names.      *)
(***************************************************************************)
empty_vector(mode, n) ==
    CASE mode = "dbl" -> Dbls([i \in 1 .. n |-> Whole(0)]) [] mode = "int" -> Ints([i \in 1 .. n |-> 0])
      [] mode = "str" -> Strs([i \in 1 .. n |-> ""]) [] mode = "list" -> Lists([i \in 1 .. n |-> Null])
      [] OTHER -> Lgls([i \in 1 .. n |-> 0])
check_list_coercion(x) == x.t = "list" => All(x.v, LAMBDA e : size(e) = 1 /\ e.t # "list")
as_numeric(x) == IF check_list_coercion(x) THEN Dbls(as_dbl(x)) ELSE Failed
as_whole(x) == IF check_list_coercion(x) THEN Ints(as_integer(x)) ELSE Failed
as_character(x) == Strs(as_str_labels(x))
as_logical(x) == Lgls(as_lgl(x))
\* A text that is no number becomes NA, and a warning says so.
warn_coerced_na(x, out) == x.t = "str" /\ \E i \in DOMAIN x.v : x.v[i] # NA /\ out[i] = NA
as_list(x) == Named(Lists(elements(x)), x.names)
as_vector(x, mode) ==
    CASE IsFactor(x) -> Strs(factor_labels(x))
      [] mode = "int" /\ ~IsFactor(x) -> Ints(as_integer(x))
      [] mode \in {"dbl", "str", "lgl"} /\ ~IsFactor(x) -> Vec(mode, To(mode, x))
      [] mode = "list" /\ ~IsFactor(x) -> IF x.t = "list" THEN x ELSE as_list(x)
      [] OTHER -> IF x.t \in {"lgl", "int", "dbl", "str"} THEN Vec(x.t, x.v) ELSE x

drop_unused_levels(x) ==
    LET labels == factor_labels(x)
        kept == SelectSeq(x.levels, LAMBDA l : Contains(labels, l))
    IN  mk_factor([i \in DOMAIN labels |-> IF labels[i] = NA THEN NA ELSE position(kept, labels[i])],
                  kept, is_ordered(x))
as_ordered(x) ==
    LET out == r_factor(IF IsFactor(x) THEN Strs(factor_labels(x)) ELSE x,
                        IF IsFactor(x) THEN x.levels ELSE NA, NA, NA)
    IN  IF is_ordered(x) THEN x ELSE [out EXCEPT !.class = <<"ordered", "factor">>]

(***************************************************************************)
(* The replacement functions of attributes: f(x) <- value.                 *)
(***************************************************************************)
set_names(x, value) ==
    IF value.t = "NULL" THEN Named(x, <<>>)
    ELSE IF size(value) > size(x) THEN Failed
    ELSE Named(x, [i \in DOMAIN x.v |-> IF i \in DOMAIN value.v THEN as_str(value)[i] ELSE NA])
set_class(x, value) ==
    IF size(value) = 0 THEN [x EXCEPT !.class = <<>>]
    ELSE IF value.t # "str" \/ x.t = "NULL" \/ (Contains(value.v, "factor") /\ x.t # "int") THEN Failed
    ELSE [x EXCEPT !.class = value.v]
Product2(s) == FoldLeft(LAMBDA n, d : n * d, 1, s)
set_dim(x, value) ==
    LET dims == as_int(value)
    IN  IF value.t = "NULL" THEN [x EXCEPT !.dim = <<>>, !.dn = <<>>, !.dnn = <<>>]
        ELSE IF dims = <<>> \/ Contains(dims, NA) THEN Failed
        ELSE IF Some(dims, LAMBDA d : d < 0) \/ Product2(dims) # size(x) THEN Failed
        ELSE [x EXCEPT !.names = <<>>, !.dn = <<>>, !.dnn = <<>>, !.dim = dims]
set_length(x, n) ==
    LET out == take_positions(x, Upto(n))
    IN  IF n = size(x) THEN x
        ELSE IF x.names = <<>> THEN out
        ELSE Named(out, [i \in 1 .. n |-> IF i \in DOMAIN x.names THEN x.names[i] ELSE ""])
set_levels(x, value) == [x EXCEPT !.levels = as_str(value)]
Labels(e) == IF e.t = "NULL" THEN <<>> ELSE as_str(e)
set_dimnames_to(x, value) ==
    LET items == elements(value)
    IN  IF value.t = "NULL" THEN [x EXCEPT !.dn = <<>>, !.dnn = <<>>]
        ELSE IF x.dim = <<>> \/ Len(items) > Len(x.dim) THEN Failed
        ELSE IF \E k \in DOMAIN items : items[k].t # "NULL" /\ size(items[k]) # x.dim[k] THEN Failed
        ELSE [x EXCEPT !.dn = [k \in DOMAIN items |-> Labels(items[k])], !.dnn = value.names]
\* rownames(x) <- value (k = 1) and colnames(x) <- value (k = 2).
set_margin(x, k, value) ==
    LET margins == [j \in DOMAIN x.dim |-> IF j = k THEN Labels(value)
                                           ELSE IF j \in DOMAIN x.dn THEN x.dn[j] ELSE <<>>]
    IN  IF k > Len(x.dim) THEN Failed
        ELSE IF value.t # "NULL" /\ size(value) # x.dim[k] THEN Failed
        ELSE [x EXCEPT !.dn = IF \A j \in DOMAIN margins : margins[j] = <<>> THEN <<>> ELSE margins,
                       !.dnn = <<>>]

(***************************************************************************)
(* all.equal(): the kinds of what it reports, nothing for TRUE.  Numbers   *)
(* are exact here, so any difference is above the tolerance.               *)
(***************************************************************************)
mode_name(x) == IF x.t \in {"int", "dbl"} THEN "numeric" ELSE x.t
data_class(x) == IF x.class # <<>> THEN x.class[1]
                 ELSE CASE Len(x.dim) = 0 -> mode_name(x) [] Len(x.dim) = 2 -> "matrix" [] OTHER -> "array"
\* All of them go when none is about lengths.
drop_lengths_messages(msg) ==
    IF Contains(msg, "Lengths") THEN SelectSeq(msg, LAMBDA m : m # "Lengths") ELSE <<>>
\* The attributes but the names, sorted, as a list; NULL when there are none.
dimnames_list(x) == Named(Lists([k \in DOMAIN x.dn |-> IF x.dn[k] = <<>> THEN Null ELSE Strs(x.dn[k])]), x.dnn)
attributes(x) ==
    LET listed(there) == IF there = <<>> THEN Null
                         ELSE Named(Lists([i \in DOMAIN there |-> there[i][2]]), [i \in DOMAIN there |-> there[i][1]])
    IN  listed(SelectSeq(<<<<"class", Strs(x.class)>>, <<"dim", Ints(x.dim)>>,
                           <<"dimnames", dimnames_list(x)>>, <<"levels", Strs(x.levels)>>>>,
                         LAMBDA a : size(a[2]) > 0))
shorter(s, u) == Min({Len(s), Len(u)})
\* The comparison of characters and of logicals.
elementwise(msg, s, u) ==
    LET common == 1 .. shorter(s, u)
        m == IF Len(s) = Len(u) THEN msg ELSE Append(drop_lengths_messages(msg), "Lengths")
    IN  IF \E i \in common : (s[i] = NA) # (u[i] = NA) THEN Append(m, "is.NA")
        ELSE IF \E i \in common : s[i] # u[i] THEN Append(m, "mismatch") ELSE m
\* A mutant of numbers: only what is missing from the first counts.
OneSided(msg, s, u) ==
    IF Len(s) # Len(u) THEN Append(drop_lengths_messages(msg), "Numeric: lengths")
    ELSE IF \E i \in DOMAIN s : Missing(s[i]) /\ ~Missing(u[i]) THEN Append(msg, "is.NA")
    ELSE IF \E i \in DOMAIN s : ~Missing(s[i]) /\ ~Missing(u[i]) /\ s[i] # u[i] THEN Append(msg, "difference") ELSE msg
numbers(msg, s, u) ==
    IF Len(s) # Len(u) THEN Append(drop_lengths_messages(msg), "Numeric: lengths")
    ELSE IF \E i \in DOMAIN s : Missing(s[i]) # Missing(u[i]) THEN Append(msg, "is.NA")
    ELSE IF \E i \in DOMAIN s : ~Missing(s[i]) /\ s[i] # u[i] THEN Append(msg, "difference") ELSE msg
RECURSIVE all_equal(_, _)
attr_all_equal(x, y) ==
    LET names == CASE x.names # <<>> /\ y.names # <<>> -> elementwise(
                        IF Len(x.names) = Len(y.names) THEN <<>> ELSE <<"Lengths">>, x.names, y.names)
                   [] x.names # <<>> /\ y.names = <<>> -> <<"names for target">>
                   [] x.names = <<>> /\ y.names # <<>> -> <<"names for current">>
                   [] OTHER -> <<>>
        within(ax, ay) == IF ax.t = "NULL" /\ ay.t = "NULL" THEN <<>> ELSE all_equal(ax, ay)
    IN  (IF mode_name(x) # mode_name(y) THEN <<"Modes">> ELSE <<>>)
        \o (IF size(x) # size(y) THEN <<"Lengths">> ELSE <<>>) \o names
        \o within(attributes(x), attributes(y))
class_mismatch(x, y, then) ==
    IF data_class(x) # data_class(y) THEN Append(attr_all_equal(x, y), "target is") ELSE then
all_equal_list(x, y) ==
    LET ex == elements(x)
        ey == elements(y)
        msg == attr_all_equal(x, y)
        m == IF Len(ex) = Len(ey) THEN msg ELSE Append(drop_lengths_messages(msg), "Length mismatch")
    IN  IF y.t = "NULL" THEN Append(msg, "not list-like")
        ELSE m \o FlattenSeq([i \in 1 .. shorter(ex, ey) |-> all_equal(ex[i], ey[i])])
all_equal_factor(x, y) ==
    LET n == shorter(x.v, y.v)
        msg == attr_all_equal(x, y)
        present(v) == SelectSeq(factor_labels(v), LAMBDA l : l # NA)
    IN  IF ~IsFactor(y) THEN <<"not a factor">>
        ELSE IF \E i \in 1 .. n : (x.v[i] = NA) # (y.v[i] = NA) THEN Append(msg, "NA mismatch")
        ELSE msg \o elementwise(IF Len(present(x)) = Len(present(y)) THEN <<>> ELSE <<"Lengths">>,
                                present(x), present(y))
all_equal(x, y) ==
    CASE IsFactor(x) -> all_equal_factor(x, y)
      [] x.t = "list" -> all_equal_list(x, y)
      [] x.t \in {"int", "dbl"} /\ ~IsFactor(x) ->
           class_mismatch(x, y, numbers(attr_all_equal(x, y), as_dbl(x), as_dbl(y)))
      [] x.t = "str" -> class_mismatch(x, y, elementwise(attr_all_equal(x, y), as_str(x), as_str(y)))
      [] x.t = "lgl" -> class_mismatch(x, y, elementwise(attr_all_equal(x, y), as_lgl(x), as_lgl(y)))
      [] x.t = "NULL" -> IF data_class(x) # data_class(y) THEN <<"target is">> ELSE <<>>
=============================================================================
