-------------------------------- MODULE Linear --------------------------------
(***************************************************************************)
(* solve() and determinant(): the factors of a square matrix, in exact     *)
(* fractions where the code rounds.  A matrix is a sequence of its rows,   *)
(* and what one order of operations or another rounds differently is the   *)
(* same here.                                                              *)
(***************************************************************************)
EXTENDS Arrays

Magnitude(p) == <<Size(p[1]), p[2]>>
\* The first element of largest magnitude.
idamax(xs) == Min({i \in DOMAIN xs : \A j \in DOMAIN xs : ~Less(Magnitude(xs[i]), Magnitude(xs[j]))})
dasum(xs) == Sum([i \in DOMAIN xs |-> Magnitude(xs[i])])

Swapped(a, cols, i, p) ==
    [a EXCEPT ![i] = [j \in DOMAIN @ |-> IF j \in cols THEN a[p][j] ELSE @[j]],
              ![p] = [j \in DOMAIN @ |-> IF j \in cols THEN a[i][j] ELSE @[j]]]
\* The interchanges from k1 to k2 of the rows after the first o, in some columns.
dlaswp(a, cols, o, k1, k2, ipiv) ==
    FoldLeft(LAMBDA m, k : IF ipiv[k] = k THEN m ELSE Swapped(m, cols, o + k, o + ipiv[k]),
             a, [i \in 1 .. k2 - k1 + 1 |-> k1 + i - 1])

\* xs solved by the unit lower or the upper triangle of t: one element after
\* the other, less what the elements before it explain.
trsm(tri, lower, m, xs) ==
    LET done(r) == IF lower THEN [k \in 1 .. r - 1 |-> k] ELSE [k \in 1 .. m - r |-> r + k]
        explained(ys, r, ks) == Sum([i \in DOMAIN ks |-> Times(tri[r][ks[i]], ys[ks[i]])])
        rest(ys, r) == Sub(ys[r], explained(ys, r, done(r)))
        solved(x, r) == IF lower THEN x ELSE Over(x, tri[r][r])
    IN  FoldLeft(LAMBDA ys, r : [ys EXCEPT ![r] = solved(rest(ys, r), r)], xs,
                 [i \in 1 .. m |-> IF lower THEN i ELSE m + 1 - i])

\* The block of m rows and some columns after row and column o, right of its
\* first n1 columns, when those are factored: solved above, reduced below.
trsm_in_place(a, o, n1, cols) ==
    LET tri == [i \in 1 .. n1 |-> [k \in 1 .. n1 |-> a[o + i][o + k]]]
        placed(x) == [i \in DOMAIN a |-> [j \in DOMAIN a[i] |->
            IF i \in o + 1 .. o + n1 /\ j \in cols THEN x[j][i - o] ELSE a[i][j]]]
    IN  placed([j \in cols |-> trsm(tri, TRUE, n1, [i \in 1 .. n1 |-> a[o + i][j]])])
gemm_sub(a, o, m, n1, cols) ==
    [i \in DOMAIN a |-> [j \in DOMAIN a[i] |->
        IF i \in o + n1 + 1 .. o + m /\ j \in cols
        THEN Sub(a[i][j], Sum([k \in 1 .. n1 |-> Times(a[i][o + k], a[o + k][j])])) ELSE a[i][j]]]

after_panel(a, o, m, n1, cols) == gemm_sub(trsm_in_place(a, o, n1, cols), o, m, n1, cols)
offset(ipiv, n1) == [i \in DOMAIN ipiv |-> ipiv[i] + n1]
first_zero(first, second, n1) == IF first = 0 /\ second > 0 THEN second + n1 ELSE first

\* One column, by its largest element: brought to the top, and divided by.
factored_column(a, o, m, p) ==
    LET scaled(top) == [i \in DOMAIN a |-> [j \in DOMAIN a[i] |->
            IF j = o + 1 /\ i \in o + 2 .. o + m THEN Over(top[i][j], top[o + 1][j]) ELSE top[i][j]]]
    IN  IF a[o + p][o + 1] = Whole(0) THEN [a |-> a, ipiv |-> <<p>>, info |-> 1]
        ELSE [a |-> scaled(Swapped(a, {o + 1}, o + 1, o + p)), ipiv |-> <<p>>, info |-> 0]

\* Factors the block of m rows and n columns after row and column o.  Pivots
\* count from the block's first row; info is 0 or the first zero pivot.
RECURSIVE dgetrf2(_, _, _, _)
dgetrf2(a, o, m, n) ==
    LET n1 == Min({m, n}) \div 2
        right == o + n1 + 1 .. o + n
        together(left, rest, ipiv) ==
            [a |-> dlaswp(rest.a, o + 1 .. o + n1, o, n1 + 1, Min({m, n}), ipiv), ipiv |-> ipiv,
             info |-> first_zero(left.info, rest.info, n1)]
        beside(left, rest) == together(left, rest, left.ipiv \o offset(rest.ipiv, n1))
        on(left) == beside(left, dgetrf2(after_panel(dlaswp(left.a, right, o, 1, n1, left.ipiv), o, m, n1, right),
                                         o + n1, m - n1, n - n1))
    IN  IF m = 0 \/ n = 0 THEN [a |-> a, ipiv |-> <<>>, info |-> 0]
        ELSE IF m = 1 THEN [a |-> a, ipiv |-> <<1>>, info |-> Flag(a[o + 1][o + 1] = Whole(0))]
        ELSE IF n = 1 THEN factored_column(a, o, m, idamax([i \in 1 .. m |-> a[o + i][o + 1]]))
        ELSE on(dgetrf2(a, o, m, n1))

\* What is left and right of a panel of jb columns, when that is factored.
panel_done(f, n, j, jb, panel, ipiv) ==
    LET right == j + jb + 1 .. n
    IN  [a |-> after_panel(dlaswp(panel.a, 1 .. j \cup right, 0, j + 1, j + jb, ipiv), j, n - j, jb, right),
         ipiv |-> ipiv, info |-> first_zero(f.info, panel.info, j)]
\* Panels of nb columns, 64 in the code.
RECURSIVE panels(_, _, _, _)
panels(f, n, j, nb) ==
    LET jb == Min({nb, n - j})
        beside(panel) == panel_done(f, n, j, jb, panel, f.ipiv \o offset(panel.ipiv, j))
    IN  IF j >= n THEN f ELSE panels(beside(dgetrf2(f.a, j, n - j, jb)), n, j + nb, nb)
lu(a, nb) ==
    IF Len(a) <= nb THEN dgetrf2(a, 0, Len(a), Len(a))
    ELSE panels([a |-> a, ipiv |-> <<>>, info |-> 0], Len(a), 0, nb)

\* b is a sequence of columns.
dgetrs(f, b) ==
    LET n == Len(f.a)
        moved(xs) == dlaswp([i \in 1 .. n |-> <<xs[i]>>], {1}, 0, 1, n, f.ipiv)
        once(xs) == trsm(f.a, TRUE, n, [i \in 1 .. n |-> moved(xs)[i][1]])
    IN  [j \in DOMAIN b |-> trsm(f.a, FALSE, n, once(b[j]))]

(***************************************************************************)
(* The estimate of the inverse's norm.                                     *)
(***************************************************************************)
Transposed(a) == [i \in DOMAIN a |-> [j \in DOMAIN a |-> a[j][i]]]
one_norm(a) == LET largest(sums) == sums[idamax(sums)] IN largest([j \in DOMAIN a |-> dasum(Transposed(a)[j])])
\* x := (LU)^-1 x, or that of the transpose: U' is a lower triangle with U's
\* diagonal and L' a unit upper one.
dlatrs(a, trans, x) ==
    LET n == Len(a)
        UnitDiagonal == [i \in 1 .. n |-> [j \in 1 .. n |-> IF i = j THEN Whole(1) ELSE a[j][i]]]
        ByDiagonal == [i \in 1 .. n |-> [j \in 1 .. n |-> Over(a[j][i], a[j][j])]]
        between(w) == IF trans THEN [i \in 1 .. n |-> Over(w[i], a[i][i])] ELSE w
    IN  trsm(IF trans THEN UnitDiagonal ELSE a, FALSE, n,
             between(trsm(IF trans THEN ByDiagonal ELSE a, TRUE, n, x)))
sign1(xs) == [i \in DOMAIN xs |-> IF xs[i][1] >= 0 THEN Whole(1) ELSE Whole(-1)]
unit_vector(n, j) == [i \in 1 .. n |-> IF i = j THEN Whole(1) ELSE Whole(0)]
alternating(n) ==
    [i \in 1 .. n |-> LET e == Plus(Whole(1), Frac(i - 1, n - 1)) IN IF i % 2 = 1 THEN e ELSE Minus(e)]
\* The last try, with a vector of alternating signs.
last_step(a, est) ==
    LET larger(temp) == IF Less(est, temp) THEN temp ELSE est
    IN  larger(Over(Times(Whole(2), dasum(dlatrs(a, FALSE, alternating(Len(a))))), Whole(3 * Len(a))))
\* From unit vector to unit vector, at most five of them.
RECURSIVE step(_, _, _, _, _)
step(a, j, iter, est, isgn) ==
    LET goes_on(x, next) == x[j] # Magnitude(x[next]) /\ iter < 5
        from(x, next, norm, sgn) ==
            IF sgn # isgn /\ Less(est, norm) /\ goes_on(x, next) THEN step(a, next, iter + 1, norm, sgn)
            ELSE last_step(a, norm)
        tried(x, v) == from(x, idamax(x), dasum(v), sign1(v))
        at(v) == tried(dlatrs(a, TRUE, sign1(v)), v)
    IN  at(dlatrs(a, FALSE, unit_vector(Len(a), j)))
\* dlacn2's answer.
estimate(a) ==
    LET from(x) == IF Len(a) = 1 THEN Magnitude(x[1])
                   ELSE step(a, idamax(dlatrs(a, TRUE, sign1(x))), 2, dasum(x), sign1(x))
    IN  from(dlatrs(a, FALSE, [i \in DOMAIN a |-> Frac(1, Len(a))]))
dgecon(f, anorm) ==
    LET reciprocal(norm) == IF Whole(0) \in {anorm, norm} THEN Whole(0) ELSE Over(Over(Whole(1), norm), anorm)
    IN  reciprocal(estimate(f.a))

(***************************************************************************)
(* The builtins.                                                           *)
(***************************************************************************)
RowsOf(x) == [i \in 1 .. nrow(x) |-> [j \in 1 .. ncol(x) |-> as_dbl(x)[(j - 1) * nrow(x) + i]]]
ColumnsOf(x) == [j \in 1 .. ncol(x) |-> column(x, j)]
Identity(n) == [j \in 1 .. n |-> unit_vector(n, j)]
solution(m, b, heads, xs) ==
    LET named(dn) == [Shaped(Dbls(FlattenSeq(xs)), <<nrow(m), Len(xs)>>) EXCEPT
                         !.dn = IF dn = <<<<>>, <<>>>> THEN <<>> ELSE dn]
    IN  IF b.t # "NULL" /\ b.dim = <<>> THEN Named(Dbls(FlattenSeq(xs)), heads[1]) ELSE named(heads)
solve_by(m, b, tol, f) ==
    IF f.info > 0 \/ (Less(Whole(0), tol) /\ Less(dgecon(f, one_norm(RowsOf(m))), tol)) THEN Failed
    ELSE solution(m, b, <<margin_labels(m, 2), IF b.t = "NULL" THEN margin_labels(m, 1) ELSE margin_labels(b, 2)>>,
                  dgetrs(f, IF b.t = "NULL" THEN Identity(nrow(m)) ELSE ColumnsOf(b)))
\* solve(a, b, tol), b NULL when it is not given.
solve_default(a, b, tol) ==
    LET misfit(n) == b.t # "NULL" /\ (~numeric(b) \/ (b.dim # <<>> /\ ~IsMatrix(b)) \/ nrow(b) # n \/ ncol(b) = 0)
        of(m) == IF ~numeric(m) \/ nrow(m) = 0 \/ ncol(m) # nrow(m) \/ misfit(nrow(m)) THEN Failed
                 ELSE solve_by(m, b, tol, lu(RowsOf(m), 64))
    IN  of(as_matrix(a))
\* The modulus without its logarithm, and the sign.
determinant(x) ==
    LET turns(f) == Cardinality({i \in DOMAIN f.ipiv : f.ipiv[i] # i})
        signed(product, sign) == [modulus |-> <<Size(product[1]), product[2]>>,
                                  sign |-> IF product[1] < 0 THEN -sign ELSE sign]
        of(f) == IF f.info > 0 THEN [modulus |-> Whole(0), sign |-> 1]
                 ELSE signed(Product([i \in DOMAIN f.a |-> f.a[i][i]]), IF turns(f) % 2 = 0 THEN 1 ELSE -1)
    IN  IF nrow(x) # ncol(x) THEN Failed ELSE of(lu(RowsOf(x), 64))

(***************************************************************************)
(* The factors multiply to the matrix with its rows interchanged, whatever *)
(* the width of a panel; the determinant is the sum over permutations; the *)
(* solution solves, labelled by the columns of a; and the estimate never   *)
(* exceeds the norm it estimates, so a system is never called worse than   *)
(* it is.                                                                  *)
(***************************************************************************)
Lower(a, i, k) == IF i = k THEN Whole(1) ELSE IF i > k THEN a[i][k] ELSE Whole(0)
Upper(a, k, j) == IF k <= j THEN a[k][j] ELSE Whole(0)
Leibniz(a) ==
    LET n == Len(a)
        odd(p) == Cardinality({q \in (1 .. n) \X (1 .. n) : q[1] < q[2] /\ p[q[1]] > p[q[2]]}) % 2 = 1
        term(p) == LET e == Product([i \in 1 .. n |-> a[i][p[i]]]) IN IF odd(p) THEN Minus(e) ELSE e
    IN  FoldFunction(Plus, Whole(0), [p \in Perms(n) |-> term(p)])
\* a is the matrix, f its factors, det its determinant, inverse its solution.
FactorsSolve(x, a, n, f, det, inverse) ==
        /\ \A nb \in 1 .. n - 1 : lu(a, nb) = f
        /\ dlaswp(a, 1 .. n, 0, 1, n, f.ipiv)
             = [i \in 1 .. n |-> [j \in 1 .. n |-> Sum([k \in 1 .. n |-> Times(Lower(f.a, i, k), Upper(f.a, k, j))])]]
        /\ \A i, k \in 1 .. n : ~Less(Whole(1), Magnitude(Lower(f.a, i, k)))
        /\ Times(det.modulus, Whole(det.sign)) = Leibniz(a)
        /\ (f.info > 0) = (Leibniz(a) = Whole(0)) /\ failed(inverse) = (f.info > 0)
        /\ f.info = 0 =>
              /\ Unlabelled(matprod("prod", x, inverse)).v = FlattenSeq(Identity(n))
              /\ solve_default(x, Ints(Upto(n)), Whole(0)).v = matprod("prod", inverse, Ints(Upto(n))).v
              /\ inverse.dn # <<>> => inverse.dn[1] = margin_labels(x, 2) /\ inverse.dn[2] = margin_labels(x, 1)
              /\ ~Less(Times(Times(one_norm(a), one_norm(RowsOf(inverse))), dgecon(f, one_norm(a))), Whole(1))
FactorsMultiply(x) ==
    FactorsSolve(x, RowsOf(x), nrow(x), lu(RowsOf(x), 64), determinant(x), solve_default(x, Null, Whole(0)))
=============================================================================
