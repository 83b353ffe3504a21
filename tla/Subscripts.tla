------------------------------ MODULE Subscripts ------------------------------
(***************************************************************************)
(* Reading and writing through subscripts: x[i], x[i, j], x[[i]], x$name   *)
(* and the assignments to them.  A subscript is itself a value: positions, *)
(* a mask, names, or a matrix with a row of coordinates per element.       *)
(*                                                                         *)
(* A write decides first, from the reference count, whether it may go into *)
(* the vector where it is; it may then signal a warning, whose handlers    *)
(* run before the write is done.                                           *)
(***************************************************************************)
EXTENDS Integers, Sequences, FiniteSets, SequencesExt

CONSTANTS
    Values,     \* the values a program is given, and the elements of its lists
    Starts,     \* those x may start with
    Reads,      \* argument lists x is read with
    Writes,     \* the <<arguments, value, single>> it is assigned with
    MaxSteps    \* bound: statements

ASSUME SubscriptsAssumption == MaxSteps \in Nat

(***************************************************************************)
(* Values.  An element of a vector is NA or a tuple that carries its type; *)
(* an element of a list is a boxed value.                                  *)
(***************************************************************************)
NA == <<"NA">>
NoName == "<NA>"          \* a name that is NA
Blank == ""               \* R_BlankString
ASSUME NamesAssumption == {Blank, NoName} \subseteq STRING
V(k, d) == [kind |-> k, data |-> d, names |-> <<>>, dim |-> <<>>, dimnames |-> <<>>,
            levels |-> <<>>]
Named(x, names) == [x EXCEPT !.names = names]
NULL == V("Null", <<>>)
Missing == V("Missing", <<>>)
Ints(s) == V("Int", [i \in DOMAIN s |-> <<"int", s[i]>>])
Lgls(s) == V("Lgl", [i \in DOMAIN s |-> <<"lgl", s[i]>>])
Strs(s) == V("Str", [i \in DOMAIN s |-> <<"str", s[i]>>])
Box(x) == <<"vec", x.kind, x.data, x.names>>
Unbox(e) == Named(V(e[2], e[3]), e[4])
List(s) == V("List", [i \in DOMAIN s |-> Box(s[i])])

IsFactor(x) == x.levels # <<>>
Atomic(x) == x.kind \in {"Lgl", "Int", "Dbl", "Str"}
Rank(x) == CASE x.kind = "Null" -> 0 [] x.kind = "Lgl" -> 1 [] x.kind = "Int" -> 2
             [] x.kind = "Dbl" -> 3 [] x.kind = "Str" -> 4 [] OTHER -> 5

\* as_lgl, as_int, as_dbl, as_str of one element, to a type no narrower.
Digit == [n \in -9 .. 9 |-> IF n < 0 THEN <<"-1", "-2", "-3">>[-n]
                            ELSE <<"0", "1", "2", "3", "4", "5", "6", "7", "8", "9">>[n + 1]]
Coerce(e, rank) ==
    IF e = NA \/ rank = 5 THEN e
    ELSE CASE rank = 4 /\ e[1] = "lgl" -> <<"str", IF e[2] = 1 THEN "TRUE" ELSE "FALSE">>
           [] rank = 4 /\ e[1] \in {"int", "dbl"} -> <<"str", Digit[e[2]]>>
           [] rank < 4 /\ e[1] # "str" -> <<<<"lgl", "int", "dbl">>[rank], e[2]>>
           [] OTHER -> e
KindOfRank(rank) == <<"Lgl", "Int", "Dbl", "Str", "List">>[rank]
Elements(x) == IF x.kind = "List" THEN x.data
               ELSE [i \in DOMAIN x.data |-> Box(V(x.kind, <<x.data[i]>>))]

\* A one-dimensional array has its labels in dimnames.
NamesOf(x) == IF x.names = <<>> /\ Len(x.dim) = 1 /\ x.dimnames # <<>>
              THEN x.dimnames[1] ELSE x.names
FirstOf(S) == IF S = {} THEN 0 ELSE Min(S)
\* The numbers of a set, from the least on; the elements of a sequence at a set of
\* places; the numbers of a sequence, from the greatest on.
Ascending(S) ==
    [k \in 1 .. Cardinality(S) |-> Min({n \in S : Cardinality({m \in S : m <= n}) >= k})]
Those(s, places) ==
    LET at == Ascending(places) IN [k \in DOMAIN at |-> s[at[k]]]
Descending(s) ==
    [k \in DOMAIN s |-> Max({n \in ToSet(s) : Cardinality({i \in DOMAIN s : s[i] >= n}) >= k})]
NameAt(names, e) == IF e = NA THEN 0 ELSE FirstOf({i \in DOMAIN names : names[i] = e[2]})

Ok(v) == [err |-> "", val |-> v]
Err(m) == [err |-> m, val |-> <<>>]

(***************************************************************************)
(* Positions.  A position is counted from 1; 0 is the code's None, which   *)
(* reads as NA.                                                            *)
(***************************************************************************)
Numbers(idx) == {e[2] : e \in ToSet(idx.data) \ {NA}}

MaskedPositions(d, n) ==
    LET At(i) == d[((i - 1) % Len(d)) + 1]
        picked == Ascending({i \in 1 .. Max({n, Len(d)}) : At(i) = NA \/ At(i)[2] = 1})
    IN  [k \in DOMAIN picked |-> IF At(picked[k]) = NA \/ picked[k] > n THEN 0 ELSE picked[k]]
NumberedPositions(d, n) ==
    LET within(nonzero) == [i \in DOMAIN nonzero |->
            IF nonzero[i] # NA /\ nonzero[i][2] <= n THEN nonzero[i][2] ELSE 0]
    IN  within(Those(d, {i \in DOMAIN d : d[i] = NA \/ d[i][2] # 0}))
ResolveIndex(idx, n, names) ==
    LET d == idx.data
    IN  CASE idx.kind = "Str" -> Ok([i \in DOMAIN d |-> NameAt(names, d[i])])
          [] idx.kind = "Lgl" /\ d # <<>> -> Ok(MaskedPositions(d, n))
          [] idx.kind # "Str" /\ (idx.kind # "Lgl" \/ d = <<>>) ->
               IF \A k \in Numbers(idx) : k >= 0 THEN Ok(NumberedPositions(d, n))
               ELSE IF \E k \in Numbers(idx) : k > 0 THEN Err("mixed")
               ELSE Ok(Ascending({i \in 1 .. n : -i \notin Numbers(idx)}))

TakePositions(x, pos) ==
    LET none == IF x.kind = "List" THEN Box(NULL) ELSE NA
    IN  IF x.kind = "Null" THEN NULL
        ELSE V(x.kind, [i \in DOMAIN pos |-> IF pos[i] = 0 THEN none ELSE x.data[pos[i]]])
Labels(names, pos) ==
    [i \in DOMAIN pos |-> IF pos[i] \in DOMAIN names THEN names[pos[i]] ELSE NoName]

Product(s) == FoldLeft(LAMBDA a, b : a * b, 1, s)
Stride(dims, k) == Product(SubSeq(dims, 1, k - 1))
\* Row by row.
LinearByRow(dims, at) ==
    IF \E k \in DOMAIN at : at[k] = 0 THEN 0
    ELSE 1 + FoldLeft(+, 0, [k \in DOMAIN at |-> (at[k] - 1) * Product(SubSeq(dims, k + 1, Len(dims)))])
\* The linear position, column by column, of one coordinate per dimension.
Linear(dims, at) ==
    IF \E k \in DOMAIN at : at[k] = 0 THEN 0
    ELSE 1 + FoldLeft(+, 0, [k \in DOMAIN at |-> (at[k] - 1) * Stride(dims, k)])
MarginLabels(x, k) == IF k \in DOMAIN x.dimnames THEN x.dimnames[k] ELSE <<>>

\* x[m] where m has a row of coordinates for each element it selects.
IsMatrixSubscript(x, idx) ==
    Len(x.dim) >= 2 /\ Len(idx.dim) = 2 /\ idx.dim[2] = Len(x.dim)
    /\ idx.kind \in {"Str", "Int", "Dbl"}
Coordinate(x, idx, e, k) ==
    IF e = NA THEN 0 ELSE IF idx.kind = "Str" THEN NameAt(MarginLabels(x, k), e) ELSE e[2]
MatrixSubscript(x, idx) ==
    LET rows == idx.dim[1]
        cell(r, k) == idx.data[(k - 1) * rows + r]
        given == {c \in (1 .. rows) \X DOMAIN x.dim : cell(c[1], c[2]) # NA}
        linear(at, kept) == [i \in DOMAIN kept |-> Linear(x.dim, at[kept[i]])]
        of(at) ==
            IF \E c \in given : at[c[1]][c[2]] < 0 THEN Err("negative")
            ELSE IF \E c \in given : at[c[1]][c[2]] > x.dim[c[2]] \/ (idx.kind = "Str" /\ at[c[1]][c[2]] = 0)
            THEN Err("bounds")
            ELSE Ok(linear(at, Ascending({r \in 1 .. rows :
                        \A k \in DOMAIN x.dim : cell(r, k) = NA \/ at[r][k] # 0})))
    IN  of([r \in 1 .. rows |-> [k \in DOMAIN x.dim |-> Coordinate(x, idx, cell(r, k), k)]])

\* x[i, j, ...]: what each margin selects, and the cells that selects.
MarginFails(x, sub, k) ==
    CASE sub.kind = "Missing" -> FALSE
      [] sub.kind = "Str" ->
           x.dimnames = <<>> \/ \E e \in ToSet(sub.data) : NameAt(MarginLabels(x, k), e) = 0
      [] sub.kind = "Lgl" -> Len(sub.data) > x.dim[k]
      [] sub.kind \in {"Int", "Dbl"} -> \E n \in Numbers(sub) : n > x.dim[k]
      [] OTHER -> FALSE
Crossed(dims, margins, shape) ==
    [c \in 1 .. Product(shape) |->
        Linear(dims, [k \in DOMAIN dims |-> margins[k][(((c - 1) \div Stride(shape, k)) % shape[k]) + 1]])]
ArrayPositions(x, args) ==
    LET cells(margins) == [margins |-> margins, cells |-> Crossed(x.dim, margins, [k \in DOMAIN x.dim |-> Len(margins[k])])]
        of(sel) == IF \E k \in DOMAIN x.dim : sel[k].err # "" THEN Err("mixed")
                   ELSE Ok(cells([k \in DOMAIN x.dim |-> sel[k].val]))
    IN  IF \E k \in DOMAIN x.dim : MarginFails(x, args[k], k) THEN Err("bounds")
        ELSE of([k \in DOMAIN x.dim |->
                   IF args[k].kind = "Missing" THEN Ok([i \in 1 .. x.dim[k] |-> i])
                   ELSE ResolveIndex(args[k], x.dim[k], MarginLabels(x, k))])

(***************************************************************************)
(* Reading.                                                                *)
(***************************************************************************)
ArrayShaped(out, sel, labels, kept) ==
    IF Len(kept) >= 2
    THEN [out EXCEPT !.dim = [i \in DOMAIN kept |-> Len(sel[kept[i]])],
                     !.dimnames = IF \A k \in ToSet(kept) : labels[k] = <<>> THEN <<>>
                                  ELSE [i \in DOMAIN kept |-> labels[kept[i]]]]
    ELSE IF kept # <<>> /\ \E nm \in ToSet(labels[kept[1]]) : nm # NoName
    THEN Named(out, labels[kept[1]]) ELSE out
ArrayIndex(x, args, drop) ==
    LET shaped(sel, cells) == ArrayShaped(TakePositions(x, cells), sel,
            [k \in DOMAIN x.dim |-> IF MarginLabels(x, k) = <<>> THEN <<>> ELSE Labels(MarginLabels(x, k), sel[k])],
            Ascending({k \in DOMAIN x.dim : ~drop \/ Len(sel[k]) # 1}))
        of(p) == IF p.err # "" THEN p ELSE Ok(shaped(p.val.margins, p.val.cells))
    IN  of(ArrayPositions(x, args))

DropUnusedLevels(x) ==
    LET kept(used) == [x EXCEPT
            !.levels = [i \in DOMAIN used |-> x.levels[used[i]]],
            !.data = [j \in DOMAIN x.data |->
                        IF x.data[j] = NA THEN NA ELSE <<"int", FirstOf({i \in DOMAIN used : used[i] = x.data[j][2]})>>],
            !.names = <<>>]
    IN  kept(Ascending({i \in DOMAIN x.levels : <<"int", i>> \in ToSet(x.data)}))

\* A one-dimensional array stays one while more than one element is left.
KeepOneDArray(out, x, drop) ==
    IF Len(x.dim) # 1 \/ IsFactor(x) \/ (drop /\ Len(out.data) <= 1) THEN out
    ELSE IF x.dimnames = <<>> THEN [out EXCEPT !.dim = <<Len(out.data)>>]
    ELSE [out EXCEPT !.dim = <<Len(out.data)>>, !.dimnames = <<out.names>>, !.names = <<>>]

SelectNamed(x, pos, drop) ==
    LET named(bare) == IF NamesOf(x) = <<>> THEN bare ELSE Named(bare, Labels(NamesOf(x), pos))
        dressed(out) == KeepOneDArray([out EXCEPT !.levels = x.levels], x, drop # "FALSE")
        dropped(out) == IF IsFactor(x) /\ drop = "TRUE" THEN DropUnusedLevels(out) ELSE out
    IN  dropped(dressed(named(TakePositions(x, pos))))

\* drop is "" when it is not given: an array then drops, a factor does not.
PositionsRead(x, idx) ==
    IF idx.kind = "Missing" THEN Ok([i \in DOMAIN x.data |-> i])
    ELSE IF IsMatrixSubscript(x, idx) THEN MatrixSubscript(x, idx)
    ELSE ResolveIndex(idx, Len(x.data), NamesOf(x))
IndexSingle(x, args, drop) ==
    LET of(pos) == IF pos.err # "" THEN pos ELSE Ok(SelectNamed(x, pos.val, drop))
    IN  IF Len(args) >= 2 \/ (drop # "" /\ Len(x.dim) = 1)
        THEN IF Len(x.dim) = Len(args) THEN ArrayIndex(x, args, drop # "FALSE")
             ELSE Err("dimensions")
        ELSE IF args[1].kind = "Missing" THEN Ok(x) ELSE of(PositionsRead(x, args[1]))

\* A signed number as the position of one element, of a vector of length n.
OneIndex(k, n) ==
    IF k > 0 THEN Ok(k)
    ELSE IF k = 0 \/ n < 2 THEN Err("less than one")
    ELSE IF n = 2 /\ k > -3 THEN Ok(3 + k)
    ELSE Err("more than one")

\* The position the p-th element of a subscript names; 0 when it names none.
Get1Index(sub, names, n, p) ==
    IF sub.data[p] = NA THEN Ok(0)
    ELSE IF sub.kind = "Str" THEN Ok(IF sub.data[p][2] = "" THEN 0 ELSE NameAt(names, sub.data[p]))
    ELSE OneIndex(sub.data[p][2], n)
OnlyIndex(sub, names, n) ==
    IF Len(sub.data) # 1 THEN Err("not one") ELSE Get1Index(sub, names, n, 1)

Fetch(x, i) == IF x.kind = "List" THEN Unbox(x.data[i])
               ELSE [V(x.kind, <<x.data[i]>>) EXCEPT !.levels = x.levels]

\* x[[i, j]]: one position in every dimension.  Reading, a negative number is
\* never the other of two.
CellOf(x, args, reading) ==
    LET cell(at) == IF \E k \in DOMAIN args : at[k].err # "" \/ at[k].val \notin 1 .. x.dim[k]
                    THEN Err("bounds")
                    ELSE Ok(Linear(x.dim, [k \in DOMAIN args |-> at[k].val]))
    IN  IF x.dim = <<>> \/ Len(x.dim) # Len(args) THEN Err("dimensions")
        ELSE IF \E k \in DOMAIN args : args[k].kind = "Missing" THEN Err("missing")
        ELSE cell([k \in DOMAIN args |-> OnlyIndex(args[k], MarginLabels(x, k), IF reading THEN 1 ELSE x.dim[k])])

ElementAt(x, at) ==
    IF at.err # "" THEN at
    ELSE IF at.val \in DOMAIN x.data THEN Ok(Fetch(x, at.val))
    ELSE IF at.val = 0 /\ x.kind = "List" THEN Ok(NULL)
    ELSE Err("bounds")

\* One level of a recursive subscript: the list the next level is looked up in.
Descend(x, sub, level) ==
    LET found(at) == IF at.err # "" THEN at
                     ELSE IF at.val \in DOMAIN x.data THEN Ok(Fetch(x, at.val)) ELSE Err("no such index")
    IN  IF x.kind # "List" THEN Err("recursive") ELSE found(Get1Index(sub, NamesOf(x), Len(x.data), level))

IndexDouble(x, args) ==
    LET first == args[1]
        n == Len(first.data)
        fetched(cell) == IF cell.err # "" THEN cell ELSE Ok(Fetch(x, cell.val))
        last_level(cur) ==
            IF cur.err # "" THEN cur
            ELSE ElementAt(cur.val, Get1Index(first, NamesOf(cur.val), Len(cur.val.data), n))
    IN  IF first.kind = "Missing" THEN Err("missing")
        ELSE IF x.kind = "Null" THEN Ok(NULL)
        ELSE IF Len(args) >= 2 THEN fetched(CellOf(x, args, TRUE))
        ELSE IF n = 0 THEN Err("less than one")
        ELSE last_level(FoldLeft(LAMBDA acc, level : IF acc.err # "" THEN acc ELSE Descend(acc.val, first, level),
                                 Ok(x), [i \in 1 .. n - 1 |-> i]))

DollarGet(x, name) ==
    LET at(i) == IF i \in DOMAIN x.data THEN Fetch(x, i) ELSE NULL
    IN  IF Atomic(x) THEN Err("atomic") ELSE Ok(at(NameAt(NamesOf(x), <<"str", name>>)))

(***************************************************************************)
(* Writing.  The subscript is brought to one vector of positions first;    *)
(* the checks on the value come between, in the order the code has them.   *)
(***************************************************************************)
ArrayAssignChecks(cells, value, matrix) ==
    LET null == value.kind = "Null"
        ny == Len(value.data)
        missing == (null \/ ny > 1) /\ 0 \in ToSet(cells)
    IN  IF matrix /\ missing THEN "NA"
        ELSE IF cells # <<>> /\ ny = 0 /\ ~null THEN "empty"
        ELSE IF cells # <<>> /\ (null \/ Len(cells) % ny # 0) THEN "multiple"
        ELSE IF missing THEN "NA" ELSE ""

PositionVector(pos) == V("Int", [i \in DOMAIN pos |-> IF pos[i] = 0 THEN NA ELSE <<"int", pos[i]>>])

\* x[i, j, ...] <- value and x[[i, j]] <- value.
CellSubscript(x, args, value, single) ==
    LET one(cell) == IF cell.err # "" THEN cell ELSE Ok(Ints(<<cell.val>>))
        checked(cells, check) == IF check # "" THEN Err(check) ELSE Ok(PositionVector(cells))
        all(p) == IF p.err # "" THEN p
                  ELSE checked(p.val.cells, ArrayAssignChecks(p.val.cells, value, Len(x.dim) = 2))
    IN  IF single
        THEN IF x.kind # "List" /\ Len(value.data) # 1 THEN Err("length") ELSE one(CellOf(x, args, FALSE))
        ELSE IF Len(x.dim) # Len(args) THEN Err("dimensions") ELSE all(ArrayPositions(x, args))

\* The one subscript of x[[i]] <- value.
SingleSubscript(x, idx, value) ==
    LET one(at) == IF at.err # "" THEN at ELSE Ok(Ints(<<at.val>>))
    IN  IF idx.kind = "Missing" THEN Err("missing")
        ELSE IF Len(idx.data) <= 1 /\ x.kind \notin {"List", "Null"} /\ Len(value.data) # 1
        THEN Err("length")
        ELSE IF Len(idx.data) > 1 THEN IF x.kind = "List" THEN Ok(idx) ELSE Err("recursive")
        ELSE IF idx.data = <<>> THEN Err("less than one")
        ELSE IF idx.kind = "Str" THEN Ok(idx)
        ELSE IF idx.data[1] = NA THEN Err("NA")
        ELSE one(OneIndex(idx.data[1][2], Len(x.data)))

WriteSubscript(x, args, value, single) ==
    LET to_one(sub) == IF single /\ sub.err = "" THEN SingleSubscript(x, sub.val, value) ELSE sub
        vector(p) == IF p.err # "" THEN p ELSE Ok(PositionVector(p.val))
    IN  IF Len(args) >= 2 \/ single
        THEN to_one(IF Len(args) = 1 THEN Ok(args[1]) ELSE CellSubscript(x, args, value, single))
        ELSE IF args[1].kind # "Missing" /\ ~IsMatrixSubscript(x, args[1]) THEN Ok(args[1])
        ELSE vector(PositionsRead(x, args[1]))

\* The positions written: a name the vector lacks is a new element at its end,
\* a position past the end stretches it, an NA is no position at all.
NamePositions(x, idx) ==
    LET names == NamesOf(x)
        Add(acc, e) ==
            IF e = NA THEN acc
            ELSE IF NameAt(names, e) # 0 THEN [acc EXCEPT !.pos = Append(@, NameAt(names, e))]
            ELSE LET next == Len(x.data) + Len(acc.fresh) + 1
                 IN  [acc EXCEPT !.pos = Append(@, next), !.fresh = Append(@, <<next, e[2]>>)]
    IN  FoldLeft(Add, [err |-> "", pos |-> <<>>, na |-> 0, fresh |-> <<>>], idx.data)
NumberPositions(x, idx, value) ==
    LET of(p, pos, na) ==
            [err |-> IF p.err # "" THEN p.err ELSE IF na > 0 /\ Len(value.data) > 1 THEN "NA" ELSE "",
             pos |-> pos, na |-> na, fresh |-> <<>>]
        parted(p) == of(p, Those(p.val, {i \in DOMAIN p.val : p.val[i] # 0}),
                        Cardinality({i \in DOMAIN p.val : p.val[i] = 0}))
    IN  parted(ResolveIndex(idx, Max(Numbers(idx) \cup {Len(x.data)}), <<>>))
WritePositions(x, idx, value) ==
    IF idx.kind = "Str" THEN NamePositions(x, idx) ELSE NumberPositions(x, idx, value)

Selected(plan) == Len(plan.pos) + plan.na
\* An empty value: x stays NULL, elements of a list go, or it is an error.
EmptyValue(x, plan, value, single) ==
    IF Selected(plan) = 0 \/ value.data # <<>> THEN "write"
    ELSE IF ~single /\ x.kind = "Null" THEN "keep"
    ELSE IF (~single /\ x.kind = "List" /\ value.kind = "Null")
            \/ (single /\ x.kind \in {"List", "Null"}) THEN "write"
    ELSE "empty"
Tiles(plan, value, single) ==
    single \/ Selected(plan) = 0 \/ value.data = <<>> \/ Selected(plan) % Len(value.data) = 0

WritesList(x, value, single) ==
    x.kind = "List" \/ value.kind = "List"
    \/ (single /\ value.kind # "Null" /\ Len(value.data) > 1)

Pad(s, n, e) == s \o [i \in 1 .. n - Len(s) |-> e]
Reach(plan, n) == Max(ToSet(plan.pos) \cup {n})
\* The first of the elements written to one place wins.
SpliceFirst(dst, pos, src) ==
    [i \in DOMAIN dst |->
       LET k == SelectInSeq(pos, LAMBDA p : p = i)
       IN  IF k = 0 THEN dst[i] ELSE src[((k - 1) % Len(src)) + 1]]
\* src, over and over, into dst at the positions, the last one to a place wins.
Splice(dst, pos, src) ==
    [i \in DOMAIN dst |->
       LET k == SelectLastInSeq(pos, LAMBDA p : p = i)
       IN  IF k = 0 THEN dst[i] ELSE src[((k - 1) % Len(src)) + 1]]
\* A new name goes to its element; elements between it and the others are nameless.
Renamed(names, fresh) ==
    LET long == Pad(names, Reach([pos |-> [k \in DOMAIN fresh |-> fresh[k][1]]], Len(names)), Blank)
    IN  [i \in DOMAIN long |->
           LET k == SelectLastInSeq(fresh, LAMBDA f : f[1] = i)
           IN  IF k = 0 THEN long[i] ELSE fresh[k][2]]

\* dim and dimnames do not outlive a change of length.
CopyAttrs(x, out, grew) ==
    [out EXCEPT !.dim = IF grew THEN <<>> ELSE x.dim,
                !.dimnames = IF grew THEN <<>> ELSE x.dimnames]

\* The elements at the places, and their names, are removed one after the other.
Without(s, p) == IF p <= Len(s) THEN RemoveAt(s, p) ELSE s
Stripped(s, places) == FoldLeft(Without, s, places)
Deleted(x, plan, single, places) ==
    LET n == Len(x.data)
        reach == IF single THEN n ELSE Reach(plan, n)
        names == NamesOf(x)
    IN  Named(V("List", Stripped(Pad(x.data, reach, Box(NULL)), places)),
              IF names = <<>> THEN <<>>
              ELSE Stripped(Pad(names, Len(names) + reach - n, Blank), places))
\* From the first on.
DeleteUpwards(v, plan, single) == Deleted(v, plan, single, Reverse(Descending(plan.pos)))
DeleteElements(x, plan, single) == Deleted(x, plan, single, Descending(plan.pos))

WriteList(x, plan, value, single) ==
    LET n == Len(x.data)
        src == IF single THEN <<Box(value)>> ELSE Elements(value)
        items == Splice(Pad(Elements(x), Reach(plan, n), Box(NULL)), plan.pos, src)
        names == NamesOf(x)
        \* One blank name for each element added, whether or not the list is named.
        padded == Pad(names, Len(names) + Len(items) - n, Blank)
    IN  CopyAttrs(x, Named(V("List", items), Renamed(padded, plan.fresh)), Len(items) > n)

\* The stretched vector keeps only the names it had.
UnpaddedAtomic(v, plan, value) ==
    LET rank == Max({Rank(v), Rank(value)})
        As(s) == [i \in DOMAIN s |-> Coerce(s[i], rank)]
        grow == Reach(plan, Len(v.data))
    IN  CopyAttrs(v, Named(V(IF rank = 0 THEN "Dbl" ELSE KindOfRank(rank),
                             IF value.data = <<>> THEN Pad(As(v.data), grow, NA)
                             ELSE Splice(Pad(As(v.data), grow, NA), plan.pos, As(value.data))),
                           Renamed(NamesOf(v), plan.fresh)), grow > Len(v.data))
WriteAtomic(x, plan, value) ==
    LET n == Len(x.data)
        rank == Max({Rank(x), Rank(value)})
        As(s) == [i \in DOMAIN s |-> Coerce(s[i], rank)]
        grow == Reach(plan, n)
        room == Pad(As(x.data), grow, NA)
        names == Renamed(NamesOf(x), plan.fresh)
    IN  CopyAttrs(x, Named(V(IF rank = 0 THEN "Dbl" ELSE KindOfRank(rank),
                             IF value.data = <<>> THEN room ELSE Splice(room, plan.pos, As(value.data))),
                           IF names = <<>> THEN <<>> ELSE Pad(names, grow, Blank)),
                  grow > n)

Rebuild(x, plan, value, single) ==
    IF ~WritesList(x, value, single) THEN WriteAtomic(x, plan, value)
    ELSE IF value.kind = "Null" THEN DeleteElements(x, plan, single)
    ELSE WriteList(x, plan, value, single)

\* The type of the value is not looked at.
FitsAnyType(v, plan, value, single) ==
    /\ plan.fresh = <<>> /\ plan.pos # <<>>
    /\ Reach(plan, Len(v.data)) = Len(v.data) \/ (v.names = <<>> /\ v.dim = <<>>)
    /\ \/ WritesList(v, value, single) /\ v.kind = "List" /\ single /\ value.kind # "Null"
       \/ ~WritesList(v, value, single) /\ Atomic(v)
\* The write may go into the vector itself: nothing about its shape changes,
\* or it has no attribute and just grows.
FitsInPlace(x, plan, value, single) ==
    /\ plan.fresh = <<>> /\ plan.pos # <<>>
    /\ Reach(plan, Len(x.data)) = Len(x.data) \/ (x.names = <<>> /\ x.dim = <<>>)
    /\ \/ WritesList(x, value, single) /\ x.kind = "List" /\ single /\ value.kind # "Null"
       \/ ~WritesList(x, value, single) /\ Atomic(x) /\ Rank(value) <= Rank(x)
WriteInPlace(x, plan, value) ==
    LET none == IF x.kind = "List" THEN Box(NULL) ELSE NA
        src == IF x.kind = "List" THEN <<Box(value)>>
               ELSE [i \in DOMAIN value.data |-> Coerce(value.data[i], Rank(x))]
        room == Pad(x.data, Reach(plan, Len(x.data)), none)
    IN  [x EXCEPT !.data = IF src = <<>> THEN room ELSE Splice(room, plan.pos, src)]

(***************************************************************************)
(* A program: x, and what another name holds.                              *)
(***************************************************************************)
VARIABLES
    x, held,     \* the value of x; what the other name holds
    same,        \* held is the very object x is
    pend,        \* the write whose warning is being signalled
    last,        \* history: the last write, and x before it
    steps
vars == <<x, held, same, pend, last, steps>>

Idle == [on |-> FALSE]
NoWrite == [done |-> FALSE]

Init ==
    /\ x \in Starts /\ held = x /\ same = FALSE
    /\ pend = Idle /\ last = NoWrite /\ steps = 0

\* [<-.factor writes the codes of the labels.
FactorCodes(f, value) ==
    PositionVector([i \in DOMAIN value.data |-> NameAt(f.levels, Coerce(value.data[i], 4))])
UnknownLabel(f, value) ==
    \E i \in DOMAIN value.data : value.data[i] # NA /\ FactorCodes(f, value).data[i] = NA

\* x[[c(i, j)]] <- value is x[[i]] <- (x[[i]] with its j-th element written).
Planned(value, plan, empty) ==
    IF plan.err # "" THEN Err(plan.err) ELSE IF empty = "empty" THEN Err("empty")
    ELSE Ok([plan |-> plan, value |-> value, keep |-> empty = "keep"])
Plan(v, idx, value, single) ==
    LET with(plan) == Planned(value, plan, EmptyValue(v, plan, value, single))
    IN  with(WritePositions(v, idx, value))
Inner(target, idx, value) ==
    LET first == V(idx.kind, <<Head(idx.data)>>)
        outer(top, updated) == IF top.err # "" THEN top ELSE Ok([idx |-> top.val, value |-> updated])
        replaced(updated) == outer(SingleSubscript(target, first, updated), updated)
        written(inner, p) == IF p.err # "" THEN p ELSE replaced(Rebuild(inner, p.val.plan, value, TRUE))
        to(inner, rest) == IF rest.err # "" THEN rest ELSE written(inner, Plan(inner, rest.val, value, TRUE))
        within(inner) == IF inner.err # "" THEN inner
                         ELSE to(inner.val, SingleSubscript(inner.val, V(idx.kind, Tail(idx.data)), value))
    IN  within(IndexDouble(target, <<first>>))

\* assign_index up to the warning: what is to be written, and where.
Prepared(target, args, value, single) ==
    LET plan(nested) == IF nested.err # "" THEN nested
                        ELSE Plan(target, nested.val.idx, nested.val.value, single)
        nest(sub) == IF sub.err # "" THEN sub
                     ELSE plan(IF single /\ Len(sub.val.data) > 1 THEN Inner(target, sub.val, value)
                               ELSE Ok([idx |-> sub.val, value |-> value]))
    IN  nest(WriteSubscript(target, args, value, single))

\* A NULL target of [[<- and $<- is an empty list, unless the value is NULL.
Target(w) == IF w.single /\ x.kind = "Null" /\ w.value.kind # "Null" THEN List(<<>>)
             ELSE [x EXCEPT !.levels = <<>>]
Source(w) == IF IsFactor(x) THEN FactorCodes(x, w.value) ELSE w.value

\* The write of p into the vector, where it is or as a new one.
Written(p, w, inplace) ==
    IF p.keep THEN Target(w)
    ELSE IF inplace THEN WriteInPlace(Target(w), p.plan, p.value)
    ELSE [Rebuild(Target(w), p.plan, p.value, w.single) EXCEPT !.levels = x.levels]
Perform(p, w, unshared, taken) ==
    \E inplace \in {unshared /\ ~p.keep /\ FitsInPlace(Target(w), p.plan, p.value, w.single)} :
        /\ x' = Written(p, w, inplace)
        /\ held' = IF same /\ inplace THEN x' ELSE held
        /\ same' = (same /\ (inplace \/ p.keep))
        /\ last' = [done |-> TRUE, w |-> w, before |-> x, p |-> p, inplace |-> inplace,
                    taken |-> taken, held |-> held]
        /\ pend' = Idle

\* x[...] <- value, x[[...]] <- value.
Assign ==
    /\ ~pend.on /\ steps < MaxSteps
    /\ \E w \in Writes : \E r \in {Prepared(Target(w), w.args, Source(w), w.single)} :
         LET unshared == ~same /\ ~IsFactor(x) /\ x.kind # "Null"
             warns == ~r.val.keep /\ ~Tiles(r.val.plan, r.val.value, w.single)
         IN  /\ ~(w.single /\ x.kind = "Null" /\ w.value.kind = "Null")
             /\ r.err = ""
             /\ IF warns \/ (IsFactor(x) /\ UnknownLabel(x, w.value))
                THEN /\ pend' = [on |-> TRUE, p |-> r.val, w |-> w, unshared |-> unshared,
                                 taken |-> FALSE]
                     /\ last' = NoWrite
                     /\ UNCHANGED <<x, held, same>>
                ELSE Perform(r.val, w, unshared, FALSE)
    /\ steps' = steps + 1

\* A calling handler of the warning gives the vector another name.
HandlerTakes ==
    /\ pend.on /\ ~same
    /\ held' = x /\ same' = TRUE /\ pend' = [pend EXCEPT !.taken = TRUE]
    /\ UNCHANGED <<x, last, steps>>
\* The handlers return.
Resume ==
    /\ pend.on /\ Perform(pend.p, pend.w, pend.unshared, pend.taken)
    /\ UNCHANGED steps
\* The warning is an error, or a handler leaves.
Abandon == pend.on /\ pend' = Idle /\ UNCHANGED <<x, held, same, last, steps>>

\* The other name is given x.
Share ==
    /\ ~pend.on /\ ~same /\ steps < MaxSteps
    /\ held' = x /\ same' = TRUE /\ steps' = steps + 1 /\ last' = NoWrite
    /\ UNCHANGED <<x, pend>>

\* x <- x[...], x <- x[[...]], x <- x$name.
Take ==
    /\ ~pend.on /\ steps < MaxSteps
    /\ \E r \in Reads :
         \E out \in {CASE r.how = "single" -> IndexSingle(x, r.args, r.drop)
                       [] r.how = "double" -> IndexDouble(x, r.args)
                       [] r.how = "dollar" -> DollarGet(x, r.args[1].data[1][2])} :
             out.err = "" /\ x' = out.val
    /\ same' = FALSE /\ steps' = steps + 1 /\ last' = NoWrite
    /\ UNCHANGED <<held, pend>>

Next == Assign \/ HandlerTakes \/ Resume \/ Abandon \/ Share \/ Take
Spec == Init /\ [][Next]_vars

(***************************************************************************)
(* Properties.                                                             *)
(***************************************************************************)
NameOf(v, i) == IF i \in DOMAIN NamesOf(v) THEN NamesOf(v)[i] ELSE Blank
Distinct(s) == Cardinality(ToSet(s)) = Len(s)

\* What a vector is made of: elements of its type, as many cells as its dimensions
\* say, a name for every element if it has any, a label for every code.  (A list
\* without names that is stretched by number gets blank names for the new elements
\* only: its names are too few.)
Kinds == {"Null", "Lgl", "Int", "Dbl", "Str", "List"}
Tag(v) == <<"lgl", "int", "dbl", "str">>[Rank(v)]
Formed(v) ==
    /\ v \in [kind : Kinds, data : Seq(ToSet(v.data)), names : Seq(STRING), dim : Seq(Nat),
              dimnames : Seq(Seq(STRING)), levels : Seq(STRING)]
    /\ v.kind = "Null" => v = NULL
    /\ Atomic(v) => \A e \in ToSet(v.data) : e = NA \/ e = <<Tag(v), e[2]>>
    /\ v.kind = "List" => \A e \in ToSet(v.data) : e[1] = "vec"
    /\ v.dim # <<>> => Product(v.dim) = Len(v.data)
    /\ v.dim = <<>> => v.dimnames = <<>>
    /\ Len(NamesOf(v)) \in {0, Len(v.data)} \/ (v.kind = "List" /\ Len(NamesOf(v)) < Len(v.data))
    /\ IsFactor(v) => \A e \in ToSet(v.data) : e = NA \/ e[2] \in DOMAIN v.levels
\* What a program may be given: vectors whose levels are of codes and whose labels
\* are one for each row and column, in lists of such; subscripts that are no lists.
Whole(v) ==
    /\ Formed(v)
    /\ IsFactor(v) => v.kind = "Int"
    /\ \A k \in DOMAIN v.dimnames : k \in DOMAIN v.dim /\ Len(v.dimnames[k]) \in {0, v.dim[k]}
Subscript(a) ==
    \/ a = Missing
    \/ /\ Whole(a) /\ a.kind # "List"
       /\ \A e \in ToSet(a.data) : e = NA \/ e[2] \in IF a.kind = "Str" THEN STRING ELSE Int
Arguments(args) == args \in Seq(ToSet(args)) \ {<<>>} /\ \A a \in ToSet(args) : Subscript(a)
ASSUME InputsAssumption ==
    /\ \A v \in Values : Whole(v)
    /\ \A v \in Values : v.kind = "List"
         => \A e \in ToSet(v.data) : e = Box(Unbox(e)) /\ Unbox(e) \in Values
    /\ Starts \subseteq Values
    /\ \A r \in Reads : Arguments(r.args) /\ r.how \in {"single", "double", "dollar"}
    /\ \A w \in Writes : Arguments(w.args) /\ w.value \in Values /\ w.single \in BOOLEAN

\* A plan of a write into v: positions, and a name for each new element, past the
\* others, that is selected by a new name.
PlanFor(v, plan) ==
    /\ plan.pos \in Seq(Nat \ {0})
    /\ plan.fresh \in Seq(Nat \X STRING)
    /\ \A f \in ToSet(plan.fresh) : f[1] > Len(v.data) /\ f[1] \in ToSet(plan.pos)

\* What the program holds, and wrote last.
TypeOK ==
    /\ Formed(x) /\ Formed(held)
    /\ last.done => /\ Formed(last.before) /\ Formed(last.p.value) /\ PlanFor(last.before, last.p.plan)
                    /\ last.p.value.kind = "Null" => last.w.value.kind = "Null"

\* The cells x[args] reads.
Cells(v, args) ==
    IF Len(args) >= 2 THEN ArrayPositions(v, args).val.cells
    ELSE IF args[1].kind = "Missing" THEN [i \in DOMAIN v.data |-> i]
    ELSE IF IsMatrixSubscript(v, args[1]) THEN MatrixSubscript(v, args[1]).val
    ELSE ResolveIndex(args[1], Len(v.data), NamesOf(v)).val
\* Writes that do not read back what they wrote: a new name given twice is two
\* new elements, a mask longer than the vector does not stretch it; and the
\* other of two rows, m[[-1, j]], is written but not read.
OddWrite(l) ==
    \/ l.w.single /\ Len(l.w.args) >= 2 /\ \E a \in ToSet(l.w.args) : \E n \in Numbers(a) : n < 0
    \/ ~Distinct([i \in DOMAIN l.p.plan.fresh |-> l.p.plan.fresh[i][2]])
    \/ l.w.args[1].kind = "Lgl" /\ Len(l.w.args[1].data) > Len(l.before.data)
\* NULL, written into a list, takes elements out of it.  (Into a list within the list,
\* it makes a new element for the list.)
Deletes(l) == l.before.kind = "List" /\ l.p.value.kind = "Null"

\* Reading with the subscript that was written through gives the value, over
\* and over, in the type x now has; where the subscript names a place twice
\* the later element is there.
WrittenReadsBack ==
    last.done /\ last.w.value.kind # "Null" /\ ~OddWrite(last) /\ ~last.p.keep =>
        LET w == last.w
            value == IF IsFactor(last.before) THEN last.p.value ELSE w.value
            one == IndexDouble(x, w.args)
            cells == Cells(x, w.args)
            src == IF x.kind = "List" THEN Elements(value)
                   ELSE [i \in DOMAIN value.data |-> Coerce(value.data[i], Rank(x))]
        IN  IF w.single
            THEN /\ one.err = ""
                 /\ one.val.data = [i \in DOMAIN value.data |-> Coerce(value.data[i], Rank(one.val))]
            ELSE \A k \in DOMAIN cells :
                   cells[k] # 0 =>
                     x.data[cells[k]] =
                       src[((SelectLastInSeq(cells, LAMBDA c : c = cells[k]) - 1) % Len(src)) + 1]

\* What another name held before a write is what it holds after, unless a handler
\* of the write's own warning gave it the vector half way.
OtherNameKept == last.done /\ ~last.taken => held = last.held

\* NULL takes out of a list the elements it selects, their names with them, and
\* no others; [<- has stretched the list over the positions first.  (Not so where a
\* position is given twice: the element that moved into its place goes too.)
SelectedLeave ==
    last.done /\ Deletes(last) /\ Distinct(last.p.plan.pos) =>
        LET old == last.before
            Others(s, n, blank) ==
                Those(Pad(s, n, blank), 1 .. n \ ToSet(last.p.plan.pos))
            reach == IF last.w.single THEN Len(old.data) ELSE Reach(last.p.plan, Len(old.data))
        IN  /\ x.data = Others(old.data, reach, Box(NULL))
            /\ NamesOf(old) = <<>> => x.names = <<>>
            /\ NamesOf(old) # <<>> /\ Len(NamesOf(old)) = Len(old.data)
                 => x.names = Others(NamesOf(old), reach, Blank)

\* A write changes the elements it selects and no other, and no name; elements
\* it has to add are NA (NULL in a list), named "" in a vector that has names.
OthersStay ==
    last.done /\ ~Deletes(last) =>
        LET old == last.before
            sel == ToSet(last.p.plan.pos)
        IN  /\ Len(x.data) >= Len(old.data)
            /\ Len(x.data) = Len(old.data) => x.dim = old.dim /\ x.dimnames = old.dimnames
            /\ \A i \in DOMAIN x.data :
                 IF i <= Len(old.data)
                 THEN /\ i \notin sel => x.data[i] = IF x.kind = "List" THEN Elements(old)[i]
                                                    ELSE Coerce(old.data[i], Rank(x))
                      /\ NameOf(x, i) = NameOf(old, i)
                 ELSE i \notin sel => /\ x.data[i] = IF x.kind = "List" THEN Box(NULL) ELSE NA
                                     /\ NameOf(x, i) = Blank

\* What a write does not select it does not change: other elements, their names,
\* and what another name holds.
RestIsKept == OtherNameKept /\ SelectedLeave /\ OthersStay

\* Writing in place gives the vector the rebuild would have given: elements,
\* names and dimensions.  (Not so for the names of a list that is stretched, the
\* rebuild makes them.)
InPlaceIsTheRebuild ==
    last.done /\ last.inplace =>
        LET l == last
            full == Rebuild(l.before, l.p.plan, l.p.value, l.w.single)
        IN  /\ [x EXCEPT !.names = <<>>] = [full EXCEPT !.names = <<>>]
            /\ NamesOf(x) = NamesOf(full) \/ (x.kind = "List" /\ Len(x.data) > Len(l.before.data))

\* What a program holds is a vector, and the ways to read one of its elements
\* agree: by number, by leaving out the others, by mask, by name, as x[[i]], by row
\* and column, by a row of coordinates.
ReadsAgree ==
    TypeOK /\ \A i \in DOMAIN x.data :
        LET at == <<Ints(<<i>>)>>
            one == IndexSingle(x, at, "").val
            mask == Lgls([j \in DOMAIN x.data |-> IF j = i THEN 1 ELSE 0])
            others == Ints([k \in 1 .. Len(x.data) - 1 |-> IF k < i THEN -k ELSE -(k + 1)])
            inner == IF x.kind = "List" THEN Unbox(one.data[1]).data ELSE one.data
            name == NameOf(x, i)
            row == Ints(<<((i - 1) % x.dim[1]) + 1>>)
            col == Ints(<<((i - 1) \div x.dim[1]) + 1>>)
            both == [Ints(<<row.data[1][2], col.data[1][2]>>) EXCEPT !.dim = <<1, 2>>]
        IN  /\ IndexSingle(x, <<mask>>, "").val = one
            /\ Len(x.data) > 1 => IndexSingle(x, <<others>>, "").val = one
            /\ IndexDouble(x, at).val.data = inner
            /\ Len(x.data) = 2 => IndexDouble(x, <<Ints(<<i - 3>>)>>).val.data = inner
            /\ name \notin {Blank, NoName} /\ i = NameAt(NamesOf(x), <<"str", name>>)
                 => /\ IndexSingle(x, <<Strs(<<name>>)>>, "").val = one
                    /\ IndexDouble(x, <<Strs(<<name>>)>>).val.data = inner
            /\ Len(x.dim) = 2
                 => /\ IndexSingle(x, <<row, col>>, "").val.data = one.data
                    /\ IndexSingle(x, <<both>>, "").val.data = one.data
                    /\ IndexDouble(x, <<row, col>>).val.data = inner
=============================================================================
