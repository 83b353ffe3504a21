------------------------------- MODULE Vectors -------------------------------
(***************************************************************************)
(* Builtins that order, match, group and rearrange vectors, and the        *)
(* functions that map over them.  An argument that was not given is NA.    *)
(***************************************************************************)
EXTENDS Arith

Matrix(x) == Len(x.dim) = 2
Ind(n, P(_)) == SelectSeq(Upto(n), P)
Pick(s, pos) == [i \in DOMAIN pos |-> s[pos[i]]]
Given(e, default) == IF e = NA THEN default ELSE e

(***************************************************************************)
(* Order.  A key compares as text or as numbers; a missing element takes   *)
(* no part in it.                                                          *)
(***************************************************************************)
key_of(x) == IF x.t = "str" THEN x.v ELSE as_dbl(x)
missing(x, i) == IF x.t = "str" THEN x.v[i] = NA ELSE Missing(key_of(x)[i])
before(x, i, j) == IF x.t = "str" THEN str_less(x.v[i], x.v[j]) ELSE Less(key_of(x)[i], key_of(x)[j])
ties(x, i, j) == ~before(x, i, j) /\ ~before(x, j, i)
\* Positions in order; later keys break ties, and position the last of them.
order_by_keys(keys, decreasing, na_last) ==
    LET gone(i) == \E k \in DOMAIN keys : missing(keys[k], i)
        n == size(keys[1])
        decides(i, j) == {k \in DOMAIN keys : ~ties(keys[k], i, j)}
        ahead(i, j) == IF decides(i, j) = {} THEN i < j
                       ELSE before(keys[Min(decides(i, j))],
                                   IF decreasing THEN j ELSE i, IF decreasing THEN i ELSE j)
        good == SortSeq(Ind(n, LAMBDA i : ~gone(i)), ahead)
        bad == Ind(n, gone)
    IN  CASE na_last = NA -> good [] na_last = 1 -> good \o bad [] na_last = 0 -> bad \o good
sort_value(x, decreasing, na_last) == take(x, order_by_keys(<<x>>, decreasing, na_last))
order_value(x, decreasing, na_last) == Ints(order_by_keys(<<x>>, decreasing, na_last))
\* order() of one key; dropped elements are dropped before positions count.
sort_list(x, decreasing, na_last) ==
    LET ord == order_by_keys(<<x>>, decreasing, na_last)
        compacted(i) == Len(Ind(i, LAMBDA j : ~missing(x, j)))
    IN  Ints(IF na_last = NA THEN [k \in DOMAIN ord |-> compacted(ord[k])] ELSE ord)
is_unsorted(x, na_rm, strictly) ==
    LET idx == Ind(size(x), LAMBDA i : ~missing(x, i))
    IN  IF size(x) <= 1 THEN Lgls(<<0>>)
        ELSE IF Len(idx) < size(x) /\ ~na_rm THEN Lgls(<<NA>>)
        ELSE Lgls(<<Flag(\E k \in 2 .. Len(idx) : before(x, idx[k], idx[k - 1])
                            \/ (strictly /\ ties(x, idx[k], idx[k - 1])))>>)
\* A mutant of slots: the missing are taken for equals of the last value.
CrowdedSlots(x, i) ==
    LET less == Cardinality({j \in DOMAIN x.v : ~missing(x, j) /\ before(x, j, i)})
    IN  [first |-> less + 1, last |-> less + Cardinality({j \in DOMAIN x.v : missing(x, j) \/ ties(x, i, j)}),
         turn |-> Cardinality({j \in 1 .. i - 1 : missing(x, j) \/ ties(x, i, j)})]
\* The slots an element's equals share: after the lesser, before the greater.
slots(x, i) ==
    LET good == {j \in DOMAIN x.v : ~missing(x, j)}
        between(less, equal) == [first |-> less + 1, last |-> less + Cardinality(equal),
                                 turn |-> Cardinality({j \in equal : j < i})]
    IN  between(Cardinality({j \in good : before(x, j, i)}), {j \in good : ties(x, i, j)})
xtfrm(x) == IF ~IsFactor(x) /\ x.t \in {"int", "dbl"} THEN x
            ELSE Ints([i \in DOMAIN x.v |-> IF missing(x, i) THEN NA ELSE slots(x, i).first])
slot(method, s) ==
    CASE method = "min" -> Whole(s.first)
      [] method = "max" -> Whole(s.last)
      [] method = "first" -> Whole(s.first + s.turn)
      [] method = "last" -> Whole(s.last - s.turn)
      [] method = "average" -> Over(Whole(s.first + s.last), Whole(2))
\* The missing are ranked "last" or "first", stay NA ("keep") or go ("drop").
rank(x, method, na_last) ==
    LET bad == Ind(size(x), LAMBDA i : missing(x, i))
        good == size(x) - Len(bad)
        one(i) == IF missing(x, i)
                  THEN IF na_last = "keep" THEN NA
                       ELSE Whole(position(bad, i) + (IF na_last = "last" THEN good ELSE 0))
                  ELSE Plus(slot(method, slots(x, i)), Whole(IF na_last = "first" THEN Len(bad) ELSE 0))
        kept == IF na_last = "drop" THEN Ind(size(x), LAMBDA i : ~missing(x, i)) ELSE Upto(size(x))
        typed(ranks) == IF method = "average" THEN ranks ELSE Ints(as_int(ranks))
        labelled(out) == IF Len(kept) = size(x) THEN shaped_like(out, x)
                         ELSE IF x.names = <<>> THEN out ELSE Named(out, Pick(x.names, kept))
    IN  labelled(typed(Dbls([k \in DOMAIN kept |-> one(kept[k])])))

(***************************************************************************)
(* The equality of match, unique and the set operations.                   *)
(***************************************************************************)
matches_as_text(x) == IsFactor(x) \/ x.t \notin {"NULL", "lgl", "int", "dbl"}
match_keys(x, as_text) == IF as_text THEN as_str_labels(x) ELSE as_dbl(x)
match_positions(x, table, nomatch) ==
    LET text == matches_as_text(x) \/ matches_as_text(table)
        keys == match_keys(x, text)
        there == match_keys(table, text)
    IN  [i \in DOMAIN keys |-> IF Contains(there, keys[i]) THEN position(there, keys[i]) ELSE nomatch]
is_element(x, table) == Lgls([i \in DOMAIN x.v |-> Flag(match_positions(x, table, NA)[i] # NA)])

\* Two values have one type and one content; their attributes but for the
\* names are not looked at, and a NaN is not itself.
RECURSIVE identical(_, _)
identical(x, y) ==
    /\ x.t = y.t /\ x.names = y.names /\ size(x) = size(y)
    /\ \A i \in DOMAIN x.v : IF x.t = "list" THEN identical(x.v[i], y.v[i])
                             ELSE x.v[i] = y.v[i] /\ ~(x.t = "dbl" /\ x.v[i] = NaN)

\* A matrix has a flag for each row.
text_or_na(s) == IF s = NA THEN "NA" ELSE s
matrix_row(x, r) == [k \in 1 .. x.dim[2] |-> text_or_na(as_str_labels(x)[(k - 1) * x.dim[1] + r])]
same_element(x, keys, i, j) == IF x.t = "list" THEN identical(x.v[i], x.v[j]) ELSE keys[i] = keys[j]
repeats(n, from_last, keys, Same(_, _, _)) ==
    [i \in 1 .. n |-> Flag(\E j \in 1 .. n : (IF from_last THEN j > i ELSE j < i) /\ Same(keys, i, j))]
duplicated_flags(x, from_last) ==
    IF Matrix(x)
    THEN repeats(x.dim[1], from_last, [r \in 1 .. x.dim[1] |-> matrix_row(x, r)], LAMBDA rows, i, j : rows[i] = rows[j])
    ELSE repeats(size(x), from_last, IF x.t = "list" THEN <<>> ELSE match_keys(x, matches_as_text(x)),
                 LAMBDA keys, i, j : same_element(x, keys, i, j))
any_duplicated(x, from_last) ==
    LET first(hits) == IF hits = {} THEN 0 ELSE IF from_last THEN Max(hits) ELSE Min(hits)
        flagged(flags) == {i \in DOMAIN flags : flags[i] = 1}
    IN  first(flagged(duplicated_flags(x, from_last)))
take_rows(x, rows) ==
    LET n == Len(rows)
        out == take_positions(x, [p \in 1 .. n * x.dim[2] |->
                                    ((p - 1) \div n) * x.dim[1] + rows[((p - 1) % n) + 1]])
        shaped == [out EXCEPT !.dim = <<n, x.dim[2]>>]
    IN  IF x.dn = <<>> THEN shaped
        ELSE set_dimnames(shaped, IF x.dn[1] = <<>> THEN <<>> ELSE Pick(x.dn[1], rows), x.dn[2])
unique(x, from_last) ==
    LET new(dup) == Ind(Len(dup), LAMBDA i : dup[i] = 0)
        taken(pos) == IF Matrix(x) THEN take_rows(x, pos) ELSE carry_factor(take_positions(x, pos), x)
    IN  taken(new(duplicated_flags(x, from_last)))

\* setdiff, intersect and union.
set_op(which, x, y) ==
    LET text == matches_as_text(x) \/ matches_as_text(y)
        xs == match_keys(x, text)
        ys == match_keys(y, text)
        keep(k) == CASE which = "setdiff" -> ~Contains(ys, k) [] which = "intersect" -> Contains(ys, k)
                     [] which = "union" -> TRUE
        first(s, i) == \A j \in 1 .. i - 1 : s[j] # s[i]
        pos == Ind(Len(xs), LAMBDA i : keep(xs[i]) /\ first(xs, i))
        ypos == IF which = "intersect" THEN <<>>
                ELSE Ind(Len(ys), LAMBDA i : first(ys, i) /\ ~Contains(xs, ys[i]))
        head == carry_factor(take_positions(x, pos), x)
        tail == carry_factor(take_positions(y, ypos), y)
    IN  IF which = "setdiff" THEN head ELSE c(<<head, tail>>)

which(x) ==
    LET hits == Ind(size(x), LAMBDA i : as_lgl(x)[i] = 1)
    IN  IF x.names = <<>> THEN Ints(hits) ELSE Named(Ints(hits), Pick(x.names, hits))
which_extreme(x, is_max) ==
    LET there == {i \in DOMAIN x.v : ~Missing(as_dbl(x)[i])}
        best == {i \in there : \A j \in there : IF is_max THEN ~Less(as_dbl(x)[i], as_dbl(x)[j])
                                                ELSE ~Less(as_dbl(x)[j], as_dbl(x)[i])}
    IN  IF best = {} THEN Ints(<<>>)
        ELSE IF x.names = <<>> THEN Ints(<<Min(best)>>) ELSE Named(Ints(<<Min(best)>>), <<x.names[Min(best)]>>)
make_unique(names) ==
    LET seen == FoldLeft(LAMBDA d, i :
                  LET s == names[i]
                      base == IF s = NA THEN "NA" ELSE s
                      dp == position(names, s)
                      free == {k \in d.next[dp] .. Len(names) :
                                 base \o "." \o ToString(k) \notin d.taken \/ k = Len(names)}
                  IN  IF dp = i THEN d
                      ELSE [out |-> [d.out EXCEPT ![i] = base \o "." \o ToString(Min(free))],
                            taken |-> d.taken \cup {base \o "." \o ToString(Min(free))},
                            next |-> [d.next EXCEPT ![dp] = Min(free) + 1]],
                  [out |-> names, taken |-> {IF names[i] = NA THEN "NA" ELSE names[i] : i \in DOMAIN names},
                   next |-> [i \in DOMAIN names |-> 1]], Upto(Len(names)))
    IN  seen.out

(***************************************************************************)
(* Rearranging.                                                            *)
(***************************************************************************)
rev(x) == take(x, Reverse(Upto(size(x))))
kept_count(n, have) == IF n < 0 THEN Max({have + n, 0}) ELSE Min({n, have})
head(x, n) == IF Matrix(x) THEN take_rows(x, Upto(kept_count(n, x.dim[1])))
              ELSE take(x, Upto(kept_count(n, size(x))))
LastOf(n, k) == [i \in 1 .. k |-> n - k + i]
tail(x, n) ==
    LET taken == LastOf(x.dim[1], kept_count(n, x.dim[1]))
        out == take_rows(x, taken)
    IN  IF ~Matrix(x) THEN take(x, LastOf(size(x), kept_count(n, size(x))))
        ELSE IF x.dn # <<>> /\ x.dn[1] # <<>> THEN out
        ELSE set_dimnames(out, [i \in DOMAIN taken |-> "[" \o ToString(taken[i]) \o ",]"],
                          IF x.dn = <<>> THEN <<>> ELSE x.dn[2])
append(x, y, after) ==
    LET at == Min({Max({after, 0}), size(x)})
        slice(from, to) == LET out == take_positions(x, [i \in 1 .. to - from + 1 |-> from + i - 1])
                           IN  IF x.names = <<>> THEN out ELSE Named(out, SubSeq(x.names, from, to))
    IN  IF at = 0 THEN c(<<y, x>>) ELSE IF at = size(x) THEN c(<<x, y>>)
        ELSE c(<<slice(1, at), y, slice(at + 1, size(x))>>)
\* times is one count or a count for each element after each; want a length.
rep(x, times, each, want) ==
    LET base == [k \in 1 .. size(x) * each |-> ((k - 1) \div each) + 1]
        pos == IF Len(times) > 1 THEN FlattenSeq([k \in DOMAIN base |-> [i \in 1 .. times[k] |-> base[k]]])
               ELSE FlattenSeq([i \in 1 .. times[1] |-> base])
        cycled == IF want = NA THEN pos
                  ELSE [i \in 1 .. want |-> IF pos = <<>> THEN 0 ELSE At(pos, i)]
    IN  IF (\E i \in DOMAIN times : times[i] < 0) \/ Len(times) \notin {1, Len(base)} THEN Failed
        ELSE take(x, cycled)
rep_len(x, n) == carry_factor(take_positions(x, [i \in 1 .. n |-> ((i - 1) % Max({size(x), 1})) + 1]), x)
\* The arguments are vectors of one number, Null when they are not given.
seq(from, to, by, length_out) ==
    LET has(v) == v.t # "NULL"
        num(v, default) == IF has(v) THEN as_dbl(v)[1] ELSE default
        n == IF has(length_out) THEN as_dbl(length_out)[1][1] ELSE 0
        n1 == Whole(Max({n - 1, 0}))
        b == num(by, Whole(1))
        ends == CASE has(to) /\ ~has(from) /\ has(length_out) -> <<Sub(num(to, NA), Times(b, n1)), num(to, NA)>>
                  [] has(to) /\ (has(from) \/ ~has(length_out)) -> <<num(from, Whole(1)), num(to, NA)>>
                  [] ~has(to) /\ has(length_out) -> <<num(from, Whole(1)), Plus(num(from, Whole(1)), Times(b, n1))>>
                  [] ~has(to) /\ ~has(length_out) /\ has(by) -> <<num(from, Whole(1)), Whole(1)>>
                  [] OTHER -> <<Whole(1), num(from, Whole(1))>>
        span == Sub(ends[2], ends[1])
        step == CASE has(by) -> b
                  [] ~has(by) /\ has(length_out) -> IF n > 1 THEN Over(span, Whole(n - 1)) ELSE Whole(0)
                  [] OTHER -> Whole(IF span[1] >= 0 THEN 1 ELSE -1)
        count == IF has(length_out) THEN n ELSE IF step[1] = 0 THEN 1 ELSE 1 + Toward0(Over(span, step))
        out == [k \in 1 .. count |-> Plus(ends[1], Times(step, Whole(k - 1)))]
        whole(v) == WholeType(v) /\ ~IsFactor(v)
        integer == CASE has(by) -> whole(from) /\ whole(to) /\ whole(by)
                     [] ~has(by) /\ has(length_out) ->
                          \/ n = 0 \/ (~has(from) /\ ~has(to))
                          \/ (has(from) /\ ~has(to) /\ whole(from) /\ whole(length_out))
                          \/ (~has(from) /\ has(to) /\ whole(to) /\ whole(length_out))
                          \/ (/\ has(from) /\ has(to) /\ whole(from) /\ whole(to)
                              /\ n <= 2 \/ span[1] = 0 \/ (whole(length_out) /\ span[1] % (n - 1) = 0))
                     [] OTHER -> \A k \in DOMAIN out : IsWhole(out[k])
    IN  IF Some(<<from, to, by, length_out>>, LAMBDA v : has(v) /\ (as_dbl(v)[1] = NA \/ ~IsFinite(as_dbl(v)[1]))) THEN Failed
        ELSE IF n < 0 THEN Failed
        ELSE IF has(by) /\ (IF b[1] = 0 THEN span[1] # 0 ELSE Times(span, b)[1] < 0) THEN Failed
        ELSE IF integer THEN Ints([k \in DOMAIN out |-> Toward0(out[k])]) ELSE Dbls(out)
rle(x) ==
    LET keys == as_str(x)
        starts == Ind(size(x), LAMBDA i : i = 1 \/ keys[i] # keys[i - 1])
        ends == Ind(size(x), LAMBDA i : i = size(x) \/ keys[i] # keys[i + 1])
    IN  [Named(Lists(<<Ints([k \in DOMAIN starts |-> ends[k] - starts[k] + 1]), take_positions(x, starts)>>),
               <<"lengths", "values">>) EXCEPT !.class = <<"rle">>]
inverse_rle(r) ==
    take_positions(r.v[2], FlattenSeq([k \in DOMAIN r.v[1].v |-> [i \in 1 .. r.v[1].v[k] |-> k]]))
Joined(s, sep) == FoldLeft(LAMBDA a, i : IF i = 1 THEN s[1] ELSE a \o sep \o s[i], "", Upto(Len(s)))
paste(args, sep, collapse) ==
    LET parts == [k \in DOMAIN args |-> as_str_labels(args[k])]
        n == Max({0} \cup {Len(parts[k]) : k \in DOMAIN parts})
        field(p, i) == IF p = <<>> THEN "" ELSE IF At(p, i) = NA THEN "NA" ELSE At(p, i)
        joined == [i \in 1 .. n |-> Joined([k \in DOMAIN parts |-> field(parts[k], i)], sep)]
    IN  IF collapse = NA THEN Strs(joined) ELSE Strs(<<Joined(joined, collapse)>>)
na_omit(x) ==                       \* without the record of what was left out
    LET bad == {i \in DOMAIN x.v : Absent(x.t, x.v[i])}
        rows == {((i - 1) % x.dim[1]) + 1 : i \in bad}
    IN  IF x.t = "list" \/ Len(x.dim) > 2 \/ bad = {} THEN x
        ELSE IF Matrix(x) THEN take_rows(x, Ind(x.dim[1], LAMBDA r : r \notin rows))
        ELSE take(x, Ind(size(x), LAMBDA i : i \notin bad))

(***************************************************************************)
(* Factors, bins and tables.                                               *)
(***************************************************************************)
factor_levels(x) ==
    IF IsFactor(x) THEN x.levels
    ELSE IF x.t \in {"int", "dbl"}
    THEN as_str(Dbls(SortSeq(distinct(SelectSeq(as_dbl(x), LAMBDA e : ~Missing(e))), Less)))
    ELSE SortSeq(distinct(SelectSeq(as_str(x), LAMBDA e : e # NA)), str_less)
codes_of(labels, levels) ==
    [i \in DOMAIN labels |-> IF Contains(levels, labels[i]) THEN position(levels, labels[i]) ELSE NA]
classified(labels, levels) == [levels |-> levels, codes |-> codes_of(labels, levels)]
classify_factor(x) == classified(as_str_labels(x), factor_levels(x))
labelled_factor(x, codes, lv, labels) ==
    LET merged == distinct(labels)
        relabelled == [i \in DOMAIN codes |-> IF codes[i] = NA THEN NA ELSE position(merged, labels[codes[i]])]
        numbered == [k \in DOMAIN lv |-> labels[1] \o ToString(k)]
    IN  IF labels = NA THEN Named(mk_factor(codes, lv, is_ordered(x)), x.names)
        ELSE IF Len(labels) = Len(lv) THEN Named(mk_factor(relabelled, merged, is_ordered(x)), x.names)
        ELSE IF Len(labels) = 1 THEN Named(mk_factor(codes, numbered, is_ordered(x)), x.names)
        ELSE Failed
\* factor(): levels, labels and what to exclude, NA when they are not given.
r_factor(x, levels, labels, exclude) ==
    LET of == as_str_labels(x)
        own == (IF IsFactor(x) THEN SelectSeq(x.levels, LAMBDA l : Contains(of, l)) ELSE factor_levels(x))
               \o (IF Contains(of, NA) THEN <<NA>> ELSE <<>>)
        lv == SelectSeq(Given(levels, own), LAMBDA l : ~Contains(Given(exclude, <<NA>>), l))
    IN  labelled_factor(x, codes_of(of, lv), lv, labels)
relevel(x, ref) ==
    LET levels == <<ref>> \o SelectSeq(x.levels, LAMBDA l : l # ref)
        codes == [i \in DOMAIN x.v |-> IF x.v[i] = NA THEN NA ELSE position(levels, x.levels[x.v[i]])]
    IN  IF ~IsFactor(x) \/ is_ordered(x) \/ ~Contains(x.levels, ref) THEN Failed
        ELSE Named(mk_factor(codes, levels, FALSE), x.names)
\* The level grid of several groupings, the first varying fastest, and the
\* place of each element in it; NA when any of its groups is missing.
Grid(cs) == FoldLeft(LAMBDA n, k : n * Len(k.levels), 1, cs)
place(cs, i) ==
    IF \E k \in DOMAIN cs : cs[k].codes[i] = NA THEN NA
    ELSE 1 + FoldLeft(+, 0, [k \in DOMAIN cs |-> (cs[k].codes[i] - 1) * Grid(SubSeq(cs, 1, k - 1))])
GridLabel(cs, at) == Joined([k \in DOMAIN cs |->
                        cs[k].levels[(((at - 1) \div Grid(SubSeq(cs, 1, k - 1))) % Len(cs[k].levels)) + 1]], ".")
interaction(fs, drop) ==
    LET cs == [k \in DOMAIN fs |-> classify_factor(fs[k])]
        codes == [i \in DOMAIN fs[1].v |-> place(cs, i)]
        used == Ind(Grid(cs), LAMBDA at : ~drop \/ Contains(codes, at))
    IN  mk_factor([i \in DOMAIN codes |-> IF codes[i] = NA THEN NA ELSE position(used, codes[i])],
                  [k \in DOMAIN used |-> GridLabel(cs, used[k])], FALSE)
\* table(): use_na is "no", "ifany" or "always"; names head the margins.
table(fs, names, use_na, exclude) ==
    LET kept(k) == SelectSeq(k.levels, LAMBDA l : ~Contains(exclude, l))
        recoded(k) == [i \in DOMAIN k.codes |-> IF k.codes[i] # NA /\ Contains(kept(k), k.levels[k.codes[i]])
                                                THEN position(kept(k), k.levels[k.codes[i]]) ELSE NA]
        counts_na(k) == use_na = "always" \/ (use_na = "ifany" /\ Contains(k.codes, NA))
        one(k) == IF ~counts_na(k) THEN [levels |-> kept(k), codes |-> recoded(k)]
                  ELSE [levels |-> Append(kept(k), NA),
                        codes |-> [i \in DOMAIN k.codes |-> IF k.codes[i] = NA THEN Len(kept(k)) + 1 ELSE recoded(k)[i]]]
        cs == [k \in DOMAIN fs |-> one(classify_factor(fs[k]))]
        count(at) == Len(Ind(size(fs[1]), LAMBDA i : place(cs, i) = at))
    IN  IF Some(fs, LAMBDA f : size(f) # size(fs[1])) THEN Failed
        ELSE [Ints([at \in 1 .. Grid(cs) |-> count(at)])
              EXCEPT !.dim = [k \in DOMAIN cs |-> Len(cs[k].levels)], !.dn = [k \in DOMAIN cs |-> cs[k].levels],
                     !.dnn = names, !.class = <<"table">>]
as_table(x) ==
    LET letters == <<"A", "B", "C", "D", "E", "F", "G", "H", "I", "J">>
        flat == [x EXCEPT !.names = <<>>, !.dim = <<size(x)>>, !.dn = IF x.names = <<>> THEN <<>> ELSE <<x.names>>]
        out == IF x.dim = <<>> THEN flat ELSE x
        bare == \A k \in DOMAIN out.dn : out.dn[k] = <<>>
    IN  IF Contains(x.class, "table") THEN x
        ELSE [out EXCEPT !.class = <<"table">>,
                         !.dn = IF bare THEN [k \in DOMAIN out.dim |-> SubSeq(letters, 1, out.dim[k])] ELSE @]
tabulate(x, nbins) ==
    LET bins == as_int(x)
        n == IF nbins = NA THEN Max({1} \cup {e \in ToSet(bins) : e # NA}) ELSE nbins
    IN  IF x.t = "str" \/ n < 0 THEN Failed
        ELSE Ints([b \in 1 .. n |-> Len(Ind(size(x), LAMBDA i : bins[i] = b))])
findInterval(x, breaks, left_open) ==
    LET v == as_dbl(breaks)
        in(e) == Len(SelectSeq(v, LAMBDA b : IF left_open THEN Less(b, e) ELSE ~Less(e, b)))
    IN  IF is_unsorted(breaks, FALSE, FALSE).v # <<0>> THEN Failed
        ELSE Ints([i \in DOMAIN x.v |-> IF Missing(as_dbl(x)[i]) THEN NA ELSE in(as_dbl(x)[i])])
\* cut(x, breaks): the bins as codes, then as a factor of labels.
cut_codes(x, breaks, right, lowest) ==
    LET b == SortSeq(as_dbl(breaks), Less)
        n == Len(b) - 1
        inside(e, i) == IF right THEN (Less(b[i], e) /\ ~Less(b[i + 1], e)) \/ (lowest /\ i = 1 /\ e = b[1])
                        ELSE (~Less(e, b[i]) /\ Less(e, b[i + 1])) \/ (lowest /\ i = n /\ e = b[n + 1])
        hits(e) == {i \in 1 .. n : inside(e, i)}
    IN  [i \in DOMAIN x.v |-> LET e == as_dbl(x)[i] IN IF Missing(e) \/ hits(e) = {} THEN NA ELSE Min(hits(e))]
cut(x, breaks, labels, right, lowest) ==
    LET b == as_str(Dbls(SortSeq(as_dbl(breaks), Less)))
        n == Len(b) - 1
        left(i) == IF ~right \/ (lowest /\ i = 1) THEN "[" ELSE "("
        close(i) == IF right \/ (lowest /\ i = n) THEN "]" ELSE ")"
        own == [i \in 1 .. n |-> left(i) \o b[i] \o "," \o b[i + 1] \o close(i)]
    IN  IF x.t = "str" \/ Cardinality(ToSet(b)) < Len(b) \/ (labels # NA /\ Len(labels) # n) THEN Failed
        ELSE mk_factor(cut_codes(x, breaks, right, lowest), Given(labels, own), FALSE)
\* Type 7: between the two order statistics around 1 + (n - 1) p.
quantile(x, p) ==
    LET xs == SortSeq(as_dbl(x), Less)
        index == Plus(Whole(1), Times(p, Whole(size(x) - 1)))
        lo == FloorOf(index)
        h == Sub(index, Whole(lo))
    IN  IF h = Whole(0) THEN xs[lo] ELSE Plus(Times(Sub(Whole(1), h), xs[lo]), Times(h, xs[lo + 1]))

(***************************************************************************)
(* The functions that builtins call in turn.  A closure of the program is  *)
(* its name, before the values it has captured.                            *)
(***************************************************************************)
call_fun(f, args) ==
    LET x == args[1]
    IN  CASE f[1] = "identity" -> x
          [] f[1] \in {"c", "c reversed", "pair"} ->
               c(CASE f[1] = "c" -> args [] f[1] = "c reversed" -> Reverse(args) [] OTHER -> <<x, x>>)
          [] f[1] = "double" /\ ~numeric(x) -> Failed
          [] f[1] = "sum" -> sum(<<x>>, TRUE)
          [] f[1] = "total" -> Dbls(<<Sum(as_dbl(x))>>)
          [] f[1] = "length" -> Ints(<<size(x)>>)
          [] f[1] = "is.na" -> is_na(x)
          [] f[1] = "is.element" -> is_element(x, f[2])
          [] OTHER -> binop_internal(IF f[1] = "double" THEN "+" ELSE f[1], x,
                                     IF f[1] = "double" THEN x ELSE args[2])
=============================================================================
