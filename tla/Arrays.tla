-------------------------------- MODULE Arrays --------------------------------
(***************************************************************************)
(* Matrices and arrays: vectors whose cells are numbered column by column, *)
(* the first subscript fastest.  Subscripts and positions count from 1     *)
(* here and from 0 in the code.                                            *)
(***************************************************************************)
EXTENDS Vectors

Extents(x) == IF x.dim = <<>> THEN <<size(x)>> ELSE x.dim       \* dims_of
IsMatrix(x) == Len(x.dim) = 2
nrow(x) == IF IsMatrix(x) THEN x.dim[1] ELSE size(x)
ncol(x) == IF IsMatrix(x) THEN x.dim[2] ELSE 1
margin_labels(x, k) == IF k \in DOMAIN x.dn THEN x.dn[k] ELSE <<>>
margin_name(x, k) == IF k \in DOMAIN x.dnn THEN x.dnn[k] ELSE ""

Cells(dims) == FoldLeft(LAMBDA n, d : n * d, 1, dims)
Stride(dims, k) == Cells(SubSeq(dims, 1, k - 1))
\* The subscripts of a cell, and the cell of some subscripts.
Subs(dims, p) == [k \in DOMAIN dims |-> (((p - 1) \div Stride(dims, k)) % dims[k]) + 1]
Cell(dims, at) == 1 + FoldLeft(+, 0, [k \in DOMAIN at |-> (at[k] - 1) * Stride(dims, k)])
Over2(s, t) == [k \in DOMAIN t |-> s[t[k]]]      \* s at the positions t
Without(dims, margins) == SelectSeq(Upto(Len(dims)), LAMBDA k : ~Contains(margins, k))

Shaped(x, dims) == [x EXCEPT !.dim = dims]
IntMatrix(rows, cols, f(_, _)) ==
    Shaped(Ints([p \in 1 .. rows * cols |-> f(((p - 1) % rows) + 1, ((p - 1) \div rows) + 1)]),
           <<rows, cols>>)

(***************************************************************************)
(* matrix() and array().  An extent that is not given is NA.               *)
(***************************************************************************)
Ceiling(n, d) == (n + d - 1) \div d
matrix(x, nr, nc, byrow, dn, dnn) ==
    LET n == IF size(x) = 0 THEN 1 ELSE size(x)
        rows == IF nr # NA THEN nr ELSE IF nc # NA THEN Ceiling(n, nc) ELSE n
        cols == IF nc # NA THEN nc ELSE IF nr # NA THEN Ceiling(n, nr) ELSE 1
        from(p) == IF byrow THEN ((p - 1) % rows) * cols + ((p - 1) \div rows) ELSE p - 1
        out == Shaped(take_positions(x, [p \in 1 .. rows * cols |-> (from(p) % n) + 1]),
                      <<rows, cols>>)
        labelled == set_dimnames(out, IF 1 \in DOMAIN dn THEN dn[1] ELSE <<>>,
                                 IF 2 \in DOMAIN dn THEN dn[2] ELSE <<>>)
    IN  IF labelled.dn = <<>> THEN labelled ELSE [labelled EXCEPT !.dnn = dnn]

\* What matrix() warns of, "" for nothing.
matrix_fill_warning(n, nr, nc) ==
    LET tiles(extent) == n % extent = 0 \/ extent % n = 0
    IN  IF n <= 1 THEN ""
        ELSE IF nr * nc = 0 THEN "empty"
        ELSE IF (nr * nc) % n = 0 THEN ""
        ELSE IF ~tiles(nr) THEN "rows" ELSE IF ~tiles(nc) THEN "columns" ELSE "size"

array(x, dims, dn, dnn) ==
    LET n == IF size(x) = 0 THEN 1 ELSE size(x)
    IN  [Shaped(take_positions(x, [p \in 1 .. Cells(dims) |-> ((p - 1) % n) + 1]), dims)
         EXCEPT !.dn = dn, !.dnn = dnn]
as_array(x) == IF x.dim # <<>> THEN x
               ELSE [x EXCEPT !.names = <<>>, !.dim = <<size(x)>>,
                              !.dn = IF x.names = <<>> THEN <<>> ELSE <<x.names>>]

(***************************************************************************)
(* t() and aperm().                                                        *)
(***************************************************************************)
\* A mutant of t: the labels stay on their margins.
KeepsMargins(x) ==
    LET rows == nrow(x)
        cols == ncol(x)
        pos == [p \in 1 .. rows * cols |-> ((p - 1) % cols) * rows + ((p - 1) \div cols) + 1]
        out == Shaped(take_positions(x, pos), <<cols, rows>>)
    IN  set_dimnames(out, margin_labels(x, 1), margin_labels(x, 2))
t(x) ==
    LET rows == nrow(x)
        cols == ncol(x)
        pos == [p \in 1 .. rows * cols |-> ((p - 1) % cols) * rows + ((p - 1) \div cols) + 1]
        out == Shaped(take_positions(x, pos), <<cols, rows>>)
        labelled == IF IsMatrix(x) THEN set_dimnames(out, margin_labels(x, 2), margin_labels(x, 1))
                    ELSE set_dimnames(out, <<>>, x.names)
    IN  IF IsMatrix(x) /\ x.dnn # <<>> /\ labelled.dn # <<>>
        THEN [labelled EXCEPT !.dnn = Reverse(x.dnn)] ELSE labelled

IsPermutation(perm, n) == Len(perm) = n /\ ToSet(perm) = 1 .. n
\* A mutant of aperm_default: the permutation is read the other way round.
InvertedPerm(x, perm, resize) ==
    LET p == IF perm = <<>> THEN Reverse(Upto(Len(x.dim))) ELSE perm
        dims == Over2(x.dim, p)
        source(q) == LET at == Subs(dims, q) IN Cell(x.dim, [d \in DOMAIN x.dim |-> at[p[d]]])
        out == Shaped(take_positions(x, [q \in 1 .. Cells(dims) |-> source(q)]), dims)
    IN  IF ~resize THEN Shaped(out, x.dim)
        ELSE [out EXCEPT !.dn = IF x.dn = <<>> THEN <<>> ELSE Over2(x.dn, p),
                         !.dnn = IF x.dnn = <<>> THEN <<>> ELSE Over2(x.dnn, p)]
aperm_default(x, perm, resize) ==
    LET p == IF perm = <<>> THEN Reverse(Upto(Len(x.dim))) ELSE perm
        dims == Over2(x.dim, p)
        \* p[k] is the dimension of x that runs along dimension k of the result
        source(q) == LET at == Subs(dims, q)
                     IN  Cell(x.dim, [d \in DOMAIN x.dim |-> at[position(p, d)]])
        out == Shaped(take_positions(x, [q \in 1 .. Cells(dims) |-> source(q)]), dims)
    IN  IF ~resize THEN Shaped(out, x.dim)
        ELSE [out EXCEPT !.dn = IF x.dn = <<>> THEN <<>> ELSE Over2(x.dn, p),
                         !.dnn = IF x.dnn = <<>> THEN <<>> ELSE Over2(x.dnn, p)]
Inverted(perm) == [k \in DOMAIN perm |-> position(perm, k)]

(***************************************************************************)
(* cbind() and rbind().                                                    *)
(***************************************************************************)
across(v, by_col) == IF by_col THEN nrow(v) ELSE ncol(v)
along(v, by_col) == IF by_col THEN ncol(v) ELSE nrow(v)

\* What a matrix or a vector contributes: strips, and a label for each.
bind_strips(tag, v, by_col, cross) ==
    LET strip(o) == recycle_to(take_positions(v, [k \in 1 .. across(v, by_col) |->
                        IF by_col THEN (o - 1) * nrow(v) + k ELSE (k - 1) * nrow(v) + o]), cross)
        seam == margin_labels(v, IF by_col THEN 2 ELSE 1)
    IN  IF v.dim = <<>> THEN [strips |-> <<recycle_to(v, cross)>>, seam |-> <<tag>>]
        ELSE [strips |-> [o \in 1 .. along(v, by_col) |-> strip(o)],
              seam |-> [o \in 1 .. along(v, by_col) |-> IF o \in DOMAIN seam THEN seam[o] ELSE NA]]

extent(v, by_col) == IF v.dim # <<>> THEN across(v, by_col) ELSE size(v)
\* The labels across the seam are the first that fit.
cross_labels(v, by_col) ==
    IF v.dim # <<>> THEN margin_labels(v, IF by_col THEN 1 ELSE 2)
    ELSE IF \E k \in DOMAIN v.names : v.names[k] # NA THEN v.names ELSE <<>>
first_fitting(inputs, by_col, cross) ==
    LET labels(fitting) == IF fitting = <<>> THEN <<>> ELSE cross_labels(fitting[1][2], by_col)
    IN  labels(SelectSeq(inputs, LAMBDA p : Len(cross_labels(p[2], by_col)) = cross))
seam_names(seam) == IF \A k \in DOMAIN seam : seam[k] = NA THEN <<>>
                    ELSE [k \in DOMAIN seam |-> Plain(seam[k])]
\* n strips of the same extent, end to end, as the columns or rows they become.
laid_out(flat, n, cross, by_col) ==
    IF by_col THEN Shaped(flat, <<cross, n>>)
    ELSE Shaped(take_positions(flat, [p \in 1 .. n * cross |->
                    ((p - 1) % n) * cross + ((p - 1) \div n) + 1]), <<n, cross>>)
bind_labelled(out, along_names, cross_names, by_col) ==
    set_dimnames(out, IF by_col THEN cross_names ELSE along_names,
                 IF by_col THEN along_names ELSE cross_names)
bind_made(made, cross, cross_names, by_col) ==
    LET bound(seam) == bind_labelled(
            laid_out(c(FlattenSeq([i \in DOMAIN made |-> made[i].strips])), Len(seam), cross, by_col),
            seam_names(seam), cross_names, by_col)
    IN  bound(FlattenSeq([i \in DOMAIN made |-> made[i].seam]))
bind_inputs(inputs, cross, by_col) ==
    bind_made([i \in DOMAIN inputs |-> bind_strips(inputs[i][1], inputs[i][2], by_col, cross)],
              cross, first_fitting(inputs, by_col, cross), by_col)
bind_matrix(args, by_col) ==
    LET bound(inputs) == IF inputs = <<>> THEN Null
                         ELSE bind_inputs(inputs, Max({1} \cup {extent(inputs[i][2], by_col) : i \in DOMAIN inputs}),
                                          by_col)
    IN  bound(SelectSeq(args, LAMBDA p : size(p[2]) > 0))

\* Matrices must agree across the seam; a vector should tile that extent.
bind_check(args, by_col) ==
    LET vs == [i \in DOMAIN args |-> args[i][2]]
        inputs == SelectSeq(vs, LAMBDA v : size(v) > 0)
        matrices == SelectSeq(inputs, LAMBDA v : v.dim # <<>>)
        longest == Max({1} \cup {extent(inputs[i], by_col) : i \in DOMAIN inputs})
        tiled == IF matrices # <<>> THEN across(matrices[1], by_col) ELSE longest
    IN  IF Some(matrices, LAMBDA m : across(m, by_col) # tiled) THEN "error"
        ELSE IF Some(inputs, LAMBDA v : v.dim = <<>> /\ tiled % size(v) # 0) THEN "warning" ELSE ""
cbind(args) == bind_matrix(args, TRUE)
rbind(args) == bind_matrix(args, FALSE)

(***************************************************************************)
(* Subscripts of cells.                                                    *)
(***************************************************************************)
subscript_heads(order) == IF order = 2 THEN <<"row", "col">>
                         ELSE [k \in 1 .. order |-> "dim" \o ToString(k)]
RowsOfSubs(subs, order) ==
    Shaped(Ints([p \in 1 .. Len(subs) * order |->
                   subs[((p - 1) % Len(subs)) + 1][((p - 1) \div Len(subs)) + 1]]),
           <<Len(subs), order>>)
arrayInd(ind, dims) ==
    RowsOfSubs([r \in DOMAIN ind |-> IF ind[r] = NA THEN [k \in DOMAIN dims |-> NA]
                                     ELSE Subs(dims, ind[r])], Len(dims))
arrayInd_named(ind, dims, dn, dnn) ==
    LET out == arrayInd(ind, dims)
        rows == IF dn = <<>> \/ dn[1] = <<>> THEN <<>>
                ELSE labels_at(dn[1], [r \in DOMAIN ind |-> IF ind[r] = NA THEN 0 ELSE out.v[r]])
        cols == IF \E k \in DOMAIN dnn : dnn[k] # "" THEN dnn ELSE subscript_heads(Len(dims))
    IN  [out EXCEPT !.dn = <<rows, cols>>]
which_arr_ind(x, hits) ==
    set_dimnames(arrayInd(hits, x.dim),
        labels_at(margin_labels(x, 1), [r \in DOMAIN hits |-> Subs(x.dim, hits[r])[1]]),
        subscript_heads(Len(x.dim)))
slice_index(x, margins) ==
    LET dims == Extents(x)
        index(p) == Cell(Over2(dims, margins), Over2(Subs(dims, p), margins))
    IN  Shaped(Ints([p \in DOMAIN x.v |-> index(p)]), dims)
row(x) == IntMatrix(nrow(x), ncol(x), LAMBDA r, k : r)
col(x) == IntMatrix(nrow(x), ncol(x), LAMBDA r, k : k)
Lgl2(x) == [x EXCEPT !.t = "lgl"]
lower_tri(x, diag) == Lgl2(IntMatrix(nrow(x), ncol(x), LAMBDA r, k : Flag(r > k \/ (diag /\ r = k))))
upper_tri(x, diag) == Lgl2(IntMatrix(nrow(x), ncol(x), LAMBDA r, k : Flag(k > r \/ (diag /\ r = k))))
Square(n, f(_)) == Shaped(Dbls([p \in 1 .. n * n |-> IF (p - 1) % (n + 1) = 0
                                                    THEN f(((p - 1) % n) + 1) ELSE Whole(0)]), <<n, n>>)
diag(x) ==
    IF x.dim # <<>>
    THEN take_positions(x, [i \in 1 .. Min({nrow(x), ncol(x)}) |-> (i - 1) * nrow(x) + i])
    ELSE IF x.t \in {"int", "dbl"} /\ size(x) = 1 THEN Square(as_int(x)[1], LAMBDA i : Whole(1))
    ELSE Square(size(x), LAMBDA i : as_dbl(x)[i])

(***************************************************************************)
(* Sums over margins.                                                      *)
(***************************************************************************)
total(s) == FoldLeft(LAMBDA a, e : IF NA \in {a, e} THEN NA ELSE Plus(a, e), Whole(0), s)
\* The cells of x whose subscripts along the margins are those of cell q.
slice_cells(x, margins, q) ==
    LET at(subs) == SelectSeq(Upto(size(x)), LAMBDA p : Over2(Subs(x.dim, p), margins) = subs)
    IN  at(Subs(Over2(x.dim, margins), q))

\* rowSums, colSums, rowMeans, colMeans.
sum_or_mean(s, averaged) ==
    LET of(whole) == IF whole = NA \/ ~averaged THEN whole ELSE Over(whole, Whole(Len(s)))
    IN  of(total(s))
not_missing(s) == SelectSeq(s, LAMBDA e : e \notin {NA, NaN})
margin_sums(x, by_row, averaged, na_rm) ==
    LET kept(s) == IF na_rm THEN not_missing(s) ELSE s
        shaped(out, keep) == IF Len(keep) >= 2 THEN Shaped(out, Over2(x.dim, keep))
                             ELSE Named(out, margin_labels(x, keep[1]))
        over(keep) == shaped(Dbls([q \in 1 .. Cells(Over2(x.dim, keep)) |->
                          sum_or_mean(kept(Over2(as_dbl(x), slice_cells(x, keep, q))), averaged)]), keep)
    IN  over(IF by_row THEN <<1>> ELSE Tail(Upto(Len(x.dim))))

\* NA is summed as NaN; an integer table reads its sums back as integers, a
\* NaN as 0.
margin_table(x, margin) ==
    LET read(s) == [i \in DOMAIN s |-> IF s[i] = NA THEN NaN ELSE s[i]]
        whole(e) == IF e = NaN THEN 0 ELSE Toward0(e)
        typed(v) == IF x.t \in {"int", "lgl"} THEN Ints([q \in DOMAIN v |-> whole(v[q])]) ELSE Dbls(v)
        shaped(out) ==
            IF margin = <<>> THEN out
            ELSE [Shaped(out, Over2(x.dim, margin))
                  EXCEPT !.dn = IF x.dn = <<>> THEN <<>> ELSE Over2(x.dn, margin),
                         !.dnn = IF x.dnn = <<>> THEN <<>> ELSE Over2(x.dnn, margin), !.class = x.class]
    IN  shaped(typed(IF margin = <<>> THEN <<total(SelectSeq(as_dbl(x), LAMBDA e : e # NA))>>
                     ELSE [q \in 1 .. Cells(Over2(x.dim, margin)) |->
                             total(read(Over2(as_dbl(x), slice_cells(x, margin, q))))]))

\* A share of the total, or of each row's or column's.
share(e, whole) == IF NA \in {e, whole} THEN NA ELSE Over(e, whole)
prop_table(x, margin) ==
    LET shares(xs, wholes) ==
            [x EXCEPT !.t = "dbl",
                      !.v = [p \in DOMAIN xs |->
                               share(xs[p], wholes[IF margin = NA THEN 1 ELSE Subs(x.dim, p)[margin]])]]
    IN  shares(as_dbl(x), IF margin = NA THEN <<total(as_dbl(x))>>
                          ELSE margin_sums(x, margin = 1, FALSE, FALSE).v)

max_col(x, pick) ==
    LET cellv(r, k) == as_dbl(x)[(k - 1) * nrow(x) + r]
        hits(r) == {k \in 1 .. ncol(x) : \A j \in 1 .. ncol(x) : ~Less(cellv(r, k), cellv(r, j))}
    IN  Ints([r \in 1 .. nrow(x) |->
                IF \E k \in 1 .. ncol(x) : cellv(r, k) = NA THEN NA
                ELSE IF pick = "last" THEN Max(hits(r)) ELSE Min(hits(r))])

\* A mutant of rowsum_default: the sums are laid out row by row.
RowByRow(x, group, groups) ==
    LET rows == nrow(x)
        of(g) == SelectSeq(Upto(rows), LAMBDA r : group[r] = g)
        cell(g, k) == total([i \in DOMAIN of(g) |-> as_dbl(x)[(k - 1) * rows + of(g)[i]]])
        cells == [p \in 1 .. Len(groups) * ncol(x) |->
                    cell(groups[((p - 1) \div ncol(x)) + 1], ((p - 1) % ncol(x)) + 1)]
    IN  [Shaped(IF x.t = "int" THEN Ints([p \in DOMAIN cells |-> ToInt("dbl", cells[p])]) ELSE Dbls(cells),
                <<Len(groups), ncol(x)>>) EXCEPT !.dn = <<groups, margin_labels(x, 2)>>]
\* The rows of x summed within each group, the groups given as text.
rowsum_default(x, group, groups) ==
    LET rows == nrow(x)
        of(g) == SelectSeq(Upto(rows), LAMBDA r : group[r] = g)
        cell(g, k) == total([i \in DOMAIN of(g) |-> as_dbl(x)[(k - 1) * rows + of(g)[i]]])
        n == Len(groups)
        cells == [p \in 1 .. n * ncol(x) |-> cell(groups[((p - 1) % n) + 1], ((p - 1) \div n) + 1)]
    IN  [Shaped(IF x.t = "int" THEN Ints([p \in DOMAIN cells |-> ToInt("dbl", cells[p])]) ELSE Dbls(cells),
                <<n, ncol(x)>>) EXCEPT !.dn = <<groups, margin_labels(x, 2)>>]

(***************************************************************************)
(* apply() and sweep().                                                    *)
(***************************************************************************)
apply_slice(x, margins, q) ==
    LET others == Without(x.dim, margins)
        bare == take_positions(x, slice_cells(x, margins, q))
        labels == [k \in DOMAIN others |-> margin_labels(x, others[k])]
    IN  IF Len(others) >= 2
        THEN [Shaped(bare, Over2(x.dim, others))
              EXCEPT !.dn = IF \A k \in DOMAIN labels : labels[k] = <<>> THEN <<>> ELSE labels]
        ELSE IF Len(others) = 1 THEN Named(bare, labels[1]) ELSE bare
\* The results in a list, a vector or a matrix, with the labels of the margins
\* and first, the names of the first of them.
apply_labelled(x, margins, out, first) ==
    LET others == Without(x.dim, margins)
        shape == Over2(x.dim, margins)
        labels == [k \in DOMAIN margins |-> margin_labels(x, margins[k])]
        heads == [k \in DOMAIN margins |-> margin_name(x, margins[k])]
        rows == IF \E k \in DOMAIN first : first[k] # NA THEN first ELSE <<>>
        row_head == IF others # <<>> /\ rows # <<>> /\ Len(rows) = x.dim[others[1]]
                    THEN margin_name(x, others[1]) ELSE ""
        stacked == set_dimnames(out, rows, labels[1])
    IN  CASE out.dim = <<>> /\ Len(margins) >= 2 ->
               LET none == \A k \in DOMAIN labels : labels[k] = <<>>
               IN  [Shaped(out, shape) EXCEPT !.dn = IF none THEN <<>> ELSE labels,
                                             !.dnn = IF none \/ x.dnn = <<>> THEN <<>> ELSE heads]
          [] out.dim = <<>> /\ Len(margins) = 1 ->
               IF labels[1] # <<>> /\ Len(labels[1]) = size(out) THEN Named(out, labels[1]) ELSE out
          [] out.dim # <<>> /\ Len(margins) = 1 ->
               IF x.dnn # <<>> /\ stacked.dn # <<>>
               THEN [stacked EXCEPT !.dnn = <<row_head, heads[1]>>] ELSE stacked
          [] OTHER -> out
apply(x, margins, f) ==
    LET simple(results) == apply_labelled(x, margins, IF results[1].t = "list" THEN Lists(results)
                                                      ELSE simplify(Lists(results)), results[1].names)
    IN  simple([q \in 1 .. Cells(Over2(x.dim, margins)) |-> call_fun(f, <<apply_slice(x, margins, q)>>)])

sweep(x, margin, stats, f) ==
    LET perm == margin \o Without(x.dim, margin)
        laid == array(stats, Over2(x.dim, perm), <<>>, <<>>)
    IN  call_fun(f, <<x, aperm_default(laid, Inverted(perm), TRUE)>>)
\* What check.margin warns of.
sweep_check(x, margin, stats) ==
    LET dims == Over2(x.dim, margin)
        n == size(stats)
        cum == {Cells(SubSeq(dims, 1, k)) : k \in 0 .. Len(dims)}
        upper == Min({k \in cum : k >= n})
        lower == Max({k \in cum : k <= n})
        big(s) == SelectSeq(s, LAMBDA d : d > 1)
    IN  IF n > Cells(dims) THEN "longer"
        ELSE IF stats.dim # <<>> THEN IF big(stats.dim) # big(dims) THEN "dim" ELSE ""
        ELSE IF n # 0 /\ (upper % n # 0 \/ n % lower # 0) THEN "recycle" ELSE ""

as_matrix(x) == IF IsMatrix(x) THEN x
                ELSE [x EXCEPT !.names = <<>>, !.dim = <<size(x), 1>>,
                               !.dn = IF x.names = <<>> THEN <<>> ELSE <<x.names, <<>>>>]
\* scale(x, center, FALSE or values); center = NA asks for the column means.
swept(m, stats, f) == IF stats.t = "NULL" THEN m ELSE sweep(m, <<2>>, stats, f)
scale_default(x, center, scale) ==
    LET middle(m) == IF center = NA THEN margin_sums(m, FALSE, TRUE, TRUE) ELSE center
        scaled(m) == swept(swept(m, middle(m), <<"-">>), scale, <<"/">>)
    IN  scaled(as_matrix(x))

(***************************************************************************)
(* Products.                                                               *)
(***************************************************************************)
\* The shapes %*%, crossprod and tcrossprod give a bare vector: <<x's, y's>>.
Conformed(op, x, y) ==
    LET lx == size(x)
        ly == size(y)
    IN  CASE ~IsMatrix(x) /\ ~IsMatrix(y) ->
               IF op = "cross" /\ lx = 1 THEN <<<<1, 1>>, <<1, ly>>>>
               ELSE IF op # "prod" THEN <<<<lx, 1>>, <<ly, 1>>>>
               ELSE IF lx = 1 THEN <<<<1, 1>>, <<1, ly>>>> ELSE <<<<1, lx>>, <<ly, 1>>>>
          [] ~IsMatrix(x) /\ IsMatrix(y) ->
               LET r == y.dim[1]
                   k == y.dim[2]
                   xd == CASE op = "prod" /\ lx = r -> <<1, r>>
                           [] op = "prod" /\ lx # r /\ r = 1 -> <<lx, 1>>
                           [] op = "cross" /\ lx = r -> <<r, 1>>
                           [] op = "tcross" /\ lx = k -> <<1, k>>
                           [] op = "tcross" /\ lx # k /\ k = 1 -> <<lx, 1>>
                           [] OTHER -> <<0, 0>>
               IN  <<xd, y.dim>>
          [] IsMatrix(x) /\ ~IsMatrix(y) ->
               LET r == x.dim[1]
                   k == x.dim[2]
                   yd == CASE op = "prod" /\ ly = k -> <<k, 1>>
                           [] op = "prod" /\ ly # k /\ k = 1 -> <<1, ly>>
                           [] op = "cross" /\ ly = r -> <<r, 1>>
                           [] op = "cross" /\ ly # r /\ r = 1 -> <<1, ly>>
                           [] op = "tcross" -> IF r = 1 THEN <<1, ly>> ELSE <<ly, 1>>
                           [] OTHER -> <<0, 0>>
               IN  <<x.dim, yd>>
          [] OTHER -> <<x.dim, y.dim>>
Conform(op, x, y) ==
    LET d == Conformed(op, x, y)
    IN  CASE op = "prod" -> d[1][2] = d[2][1] [] op = "cross" -> d[1][1] = d[2][1]
          [] op = "tcross" -> d[1][2] = d[2][2]

\* The margins of x and y that survive the product.
matprod_dimnames(op, res, x, y, ncx, nry) ==
    LET pick(v, k) == [labels |-> margin_labels(v, k), named |-> v.dnn # <<>>,
                       head |-> margin_name(v, k)]
        none == [labels |-> <<>>, named |-> FALSE, head |-> ""]
        mx == CASE op = "prod" /\ x.dn # <<>> /\ (IsMatrix(x) \/ (x.dim # <<>> /\ ncx = 1)) -> pick(x, 1)
                [] op = "cross" /\ IsMatrix(x) -> pick(x, 2)
                [] op = "tcross" /\ IsMatrix(x) -> pick(x, 1)
                [] OTHER -> none
        my == CASE op = "tcross" /\ IsMatrix(y) -> pick(y, 1)
                [] op # "tcross" /\ IsMatrix(y) -> pick(y, 2)
                [] op # "tcross" /\ ~IsMatrix(y) /\ y.dn # <<>> /\ nry = 1 -> pick(y, 1)
                [] OTHER -> none
    IN  IF mx.labels = <<>> /\ my.labels = <<>> THEN res
        ELSE [res EXCEPT !.dn = <<mx.labels, my.labels>>,
                         !.dnn = IF mx.named \/ my.named THEN <<mx.head, my.head>> ELSE <<>>]

times_or_na(e, f) == IF NA \in {e, f} THEN NA ELSE Times(e, f)
\* The cells of the product of a and b, of the shapes dx and dy.
matprod_cells(op, a, b, dx, dy, rows, cols, inner) ==
    LET left(i, k) == a[IF op = "cross" THEN (i - 1) * dx[1] + k ELSE (k - 1) * dx[1] + i]
        right(k, j) == b[IF op = "tcross" THEN (k - 1) * dy[1] + j ELSE (j - 1) * dy[1] + k]
        cell(i, j) == total([k \in 1 .. inner |-> times_or_na(left(i, k), right(k, j))])
    IN  [p \in 1 .. rows * cols |-> cell(((p - 1) % rows) + 1, ((p - 1) \div rows) + 1)]
matprod(op, x, y) ==
    LET shaped(dx, dy, rows, cols, inner) ==
            matprod_dimnames(op, Shaped(Dbls(matprod_cells(op, as_dbl(x), as_dbl(y), dx, dy, rows, cols, inner)),
                                        <<rows, cols>>), x, y, dx[2], dy[1])
        of(d) == shaped(d[1], d[2], IF op = "cross" THEN d[1][2] ELSE d[1][1],
                        IF op = "tcross" THEN d[2][1] ELSE d[2][2], IF op = "cross" THEN d[1][1] ELSE d[1][2])
    IN  of(Conformed(op, x, y))

outer(x, y) ==
    LET nx == size(x)
        labels(v) == IF v.dim # <<>> THEN v.dn ELSE IF v.names = <<>> THEN <<>> ELSE <<v.names>>
        filled(v) == IF labels(v) = <<>> THEN [k \in DOMAIN Extents(v) |-> <<>>] ELSE labels(v)
        heads(v) == IF v.dnn = <<>> THEN [k \in DOMAIN Extents(v) |-> ""] ELSE v.dnn
        cells(a, b) == [p \in 1 .. nx * size(y) |->
                          times_or_na(a[((p - 1) % nx) + 1], b[((p - 1) \div nx) + 1])]
    IN  [Shaped(Dbls(cells(as_dbl(x), as_dbl(y))), Extents(x) \o Extents(y))
         EXCEPT !.dn = IF labels(x) = <<>> /\ labels(y) = <<>> THEN <<>> ELSE filled(x) \o filled(y),
                !.dnn = IF (labels(x) = <<>> /\ labels(y) = <<>>) \/ (x.dnn = <<>> /\ y.dnn = <<>>)
                        THEN <<>> ELSE heads(x) \o heads(y)]

\* Each cell of X becomes a block: X[i] * Y.
kronecker(x, y, make_dn) ==
    LET ax == as_array(x)
        ay == as_array(y)
        k == Max({Len(ax.dim), Len(ay.dim)})
        pad(v) == IF Len(v.dim) = k THEN v
                  ELSE [v EXCEPT !.dim = [i \in 1 .. k |-> IF i \in DOMAIN v.dim THEN v.dim[i] ELSE 1],
                                 !.dn = <<>>, !.dnn = <<>>]
        px == pad(ax)
        py == pad(ay)
        op == aperm_default(outer(px, py),
                            [i \in 1 .. 2 * k |-> IF i % 2 = 1 THEN k + (i + 1) \div 2 ELSE i \div 2], TRUE)
        fill(v, dims) == [i \in 1 .. k |-> IF i \in DOMAIN v.dn /\ v.dn[i] # <<>> THEN v.dn[i]
                                           ELSE [j \in 1 .. dims[i] |-> ""]]
        pairs(i) == LET p == fill(ax, px.dim)[i]
                        q == fill(ay, py.dim)[i]
                    IN  [j \in 1 .. Len(p) * Len(q) |->
                           p[((j - 1) \div Len(q)) + 1] \o ":" \o q[((j - 1) % Len(q)) + 1]]
    IN  [op EXCEPT !.names = <<>>, !.dnn = <<>>, !.dim = [i \in 1 .. k |-> px.dim[i] * py.dim[i]],
                   !.dn = IF make_dn /\ (ax.dn # <<>> \/ ay.dn # <<>>) THEN [i \in 1 .. k |-> pairs(i)]
                          ELSE <<>>]

(***************************************************************************)
(* Covariances of columns, over the rows that are complete: use is         *)
(* "everything", "complete.obs" or "pairwise.complete.obs".                *)
(***************************************************************************)
column(x, k) == SubSeq(as_dbl(x), (k - 1) * nrow(x) + 1, k * nrow(x))
cov_cell(xs, ys) ==
    LET n == Len(xs)
        centre(s) == Over(total(s), Whole(n))
        product(i) == Times(Plus(xs[i], Minus(centre(xs))), Plus(ys[i], Minus(centre(ys))))
    IN  IF n < 2 THEN NA ELSE Over(total([i \in DOMAIN xs |-> product(i)]), Whole(n - 1))
cov(x, y, use) ==
    LET bad(e) == e \in {NA, NaN}
        every == {column(x, i) : i \in 1 .. ncol(x)} \cup {column(y, j) : j \in 1 .. ncol(y)}
        rows(xs, ys) == SelectSeq(Upto(nrow(x)), LAMBDA r :
                          CASE use = "everything" -> TRUE
                            [] use = "complete.obs" -> \A s \in every : ~bad(s[r])
                            [] OTHER -> ~bad(xs[r]) /\ ~bad(ys[r]))
        over(xs, ys, rs) == IF \E r \in ToSet(rs) : bad(xs[r]) \/ bad(ys[r]) THEN NA
                            ELSE cov_cell(Over2(xs, rs), Over2(ys, rs))
        cell(xs, ys) == over(xs, ys, rows(xs, ys))
        labelled(out) == IF ~IsMatrix(x) /\ ~IsMatrix(y) THEN out
                         ELSE set_dimnames(Shaped(out, <<ncol(x), ncol(y)>>),
                                           IF IsMatrix(x) THEN margin_labels(x, 2) ELSE <<>>,
                                           IF IsMatrix(y) THEN margin_labels(y, 2) ELSE <<>>)
    IN  labelled(Dbls([p \in 1 .. ncol(x) * ncol(y) |->
                         cell(column(x, ((p - 1) % ncol(x)) + 1), column(y, ((p - 1) \div ncol(x)) + 1))]))

(***************************************************************************)
(* What ties these functions together.                                     *)
(***************************************************************************)
Bare(x) == [x EXCEPT !.names = <<>>, !.class = <<>>]
Unlabelled(x) == Vec(x.t, x.v)
Headless(x) == [x EXCEPT !.dnn = <<>>]
Perms(n) == {p \in [1 .. n -> 1 .. n] : IsPermutation(p, n)}

\* Turning x round: every way of saying it moves the same cells and labels.
RearrangesAlike(x, v) ==
    /\ \A p \in Perms(Len(x.dim)) :
          x.dim # <<>> => aperm_default(aperm_default(x, p, TRUE), Inverted(p), TRUE) = Bare(x)
    /\ x.dim # <<>> =>
          /\ \A q \in DOMAIN x.v : Cell(x.dim, [k \in DOMAIN x.dim |-> arrayInd(Upto(size(x)), x.dim).v[(k - 1) * size(x) + q]]) = q
          /\ slice_index(x, Upto(Len(x.dim))).v = Upto(size(x))
    /\ IsMatrix(x) =>
          /\ t(x) = aperm_default(x, <<>>, TRUE)
          /\ rbind(<<<<NA, x>>, <<"k", v>>>>) = t(cbind(<<<<NA, t(x)>>, <<"k", v>>>>))
          /\ apply(x, <<1, 2>>, <<"identity">>) = Bare(x)
          /\ ncol(x) > 1 => Headless(apply(x, <<1>>, <<"identity">>)) = Headless(t(x))
          /\ lower_tri(x, TRUE) = t(upper_tri(t(x), TRUE))
          /\ diag(t(x)) = diag(x)
          /\ matrix(x, nrow(x), ncol(x), TRUE, <<>>, <<>>) = t(matrix(x, ncol(x), nrow(x), FALSE, <<>>, <<>>))
    /\ x.dim = <<>> => rbind(<<<<NA, x>>, <<"k", v>>>>) = t(cbind(<<<<NA, x>>, <<"k", v>>>>))

\* Sums over a margin, however they are asked for.
SumsAlike(x, group, groups) ==
    /\ IsMatrix(x) =>
          /\ margin_sums(x, TRUE, FALSE, FALSE) = apply(x, <<1>>, <<"total">>)
          /\ margin_sums(x, FALSE, FALSE, FALSE) = margin_sums(t(x), TRUE, FALSE, FALSE)
          /\ margin_sums(rowsum_default(x, recycle_to(Strs(group), nrow(x)).v, groups), FALSE, FALSE, FALSE)
               = margin_sums(x, FALSE, FALSE, FALSE)
    /\ (Len(x.dim) > 1 /\ ~Contains(x.v, NA)) =>
          \A k \in DOMAIN x.dim : as_dbl(margin_table(x, <<k>>)) = as_dbl(apply(x, <<k>>, <<"total">>))
\* What is laid along a margin is laid along the margin of the transpose.
CentredAlike(x, centred) ==
    /\ All(margin_sums(centred, FALSE, FALSE, FALSE).v, LAMBDA e : e = Whole(0))
    /\ nrow(x) > 1 =>
          [binop_internal("/", matprod("cross", centred, centred), Ints(<<nrow(x) - 1>>)) EXCEPT !.dnn = <<>>]
            = cov(x, x, "everything")
LaidAlike(x, v) ==
    IsMatrix(x) =>
          /\ sweep(x, <<1>>, v, <<"-">>) = t(sweep(t(x), <<2>>, v, <<"-">>))
          /\ All(as_dbl(x), LAMBDA e : e # NA /\ e[2] # 0) => CentredAlike(x, scale_default(x, NA, Null))

MultiplyAlike(x, y) ==
    /\ (IsMatrix(x) /\ IsMatrix(y)) =>
          /\ matprod("cross", x, x) = matprod("prod", t(x), x)
          /\ matprod("tcross", x, x) = matprod("prod", x, t(x))
          /\ Conform("prod", x, y) => t(matprod("prod", x, y)) = matprod("prod", t(y), t(x))
          /\ t(kronecker(x, y, TRUE)) = kronecker(t(x), t(y), TRUE)
    /\ (x.dim = <<>> /\ y.dim = <<>>) => kronecker(x, y, FALSE).v = Unlabelled(outer(y, x)).v
=============================================================================
