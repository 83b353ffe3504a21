------------------------------ MODULE Sampling ------------------------------
(***************************************************************************)
(* sample() and sample.int().  What the generator draws is an argument: an *)
(* index below a bound, or a fraction between 0 and 1, in sequences of     *)
(* draws.  Indices count from 0 where the code's do.                       *)
(***************************************************************************)
EXTENDS Vectors

(***************************************************************************)
(* An index below n from chunks of width bits (16 in the code), drawn      *)
(* again while it is not below n.                                          *)
(***************************************************************************)
rbits(bits, width, chunks) ==
    FoldLeft(LAMBDA v, chunk : v * 2 ^ width + chunk, 0, chunks) % 2 ^ bits
bits_for(n) == Min({b \in 0 .. n : 2 ^ b >= n})
chunks_for(n, width) == (bits_for(n) \div width) + 1
\* The index that a drawing of chunks gives, NA for one that is drawn again.
unif_index(n, width, chunks) ==
    LET dv == rbits(bits_for(n), width, chunks) IN IF n <= 0 THEN 0 ELSE IF dv < n THEN dv ELSE NA

(***************************************************************************)
(* Heapsort of weights with their indices, the heaviest first.             *)
(***************************************************************************)
Weighted(p) == [i \in DOMAIN p |-> [p |-> p[i], index |-> i]]
\* e sinks from place i to below what is lighter, in the heap of the first ir.
RECURSIVE sink(_, _, _, _)
sink(s, i, e, ir) ==
    LET j == IF 2 * i < ir /\ Less(s[2 * i + 1].p, s[2 * i].p) THEN 2 * i + 1 ELSE 2 * i
    IN  IF 2 * i <= ir /\ Less(s[j].p, e.p) THEN sink([s EXCEPT ![i] = s[j]], j, e, ir)
        ELSE [s EXCEPT ![i] = e]
revsort(s) ==
    LET n == Len(s)
        heap == FoldLeft(LAMBDA h, k : sink(h, n \div 2 + 1 - k, h[n \div 2 + 1 - k], n), s, Upto(n \div 2))
        last(h, ir) == LET out == [h EXCEPT ![ir] = h[1]]
                       IN  IF ir = 2 THEN [out EXCEPT ![1] = h[2]] ELSE sink(out, 1, h[ir], ir - 1)
    IN  IF n <= 1 THEN s ELSE FoldLeft(LAMBDA h, k : last(h, n + 1 - k), heap, Upto(n - 1))

(***************************************************************************)
(* The samplers.  Each answers k indices from 1 on.                        *)
(***************************************************************************)
\* Without replacement the last that is left fills the place of what was taken.
sample_uniform(n, k, replace, draws) ==
    LET taken == FoldLeft(LAMBDA acc, i :
                    LET left == n + 1 - i
                    IN  [y |-> Append(acc.y, acc.x[draws[i] + 1]), x |-> [acc.x EXCEPT ![draws[i] + 1] = acc.x[left]]],
                    [x |-> Upto(n), y |-> <<>>], Upto(k))
    IN  IF replace \/ k < 2 THEN [i \in 1 .. k |-> draws[i] + 1] ELSE taken.y

\* Draws for each element until one is new; the last of them when none is.
RECURSIVE sample_hashed(_, _)
sample_hashed(y, draws) ==
    IF draws = <<>> THEN y
    ELSE LET new == SelectSeq(Head(draws), LAMBDA d : ~Contains(y, d + 1))
         IN  sample_hashed(Append(y, 1 + (IF new = <<>> THEN Last(Head(draws)) ELSE new[1])), Tail(draws))

fixup_prob(p, k, replace) ==
    LET positive == SelectSeq(p, LAMBDA e : Less(Whole(0), e))
    IN  IF Some(p, LAMBDA e : ~IsFinite(e) \/ e[1] < 0) \/ positive = <<>> \/ (~replace /\ k > Len(positive))
        THEN <<>> ELSE [i \in DOMAIN p |-> Over(p[i], Sum(p))]

\* The first whose running total reaches u; the last of n when none does.
reached(s, u, n) ==
    LET mass(j) == Sum([i \in 1 .. j |-> s[i].p]) IN Min({n} \cup {j \in 1 .. n - 1 : ~Less(mass(j), u)})
prob_sample_replace(p, us) ==
    LET s == revsort(Weighted(p)) IN [i \in DOMAIN us |-> s[reached(s, us[i], Len(p))].index]
prob_sample_no_replace(p, us) ==
    LET step(acc, u) == LET j == reached(acc.left, Times(acc.total, u), Len(acc.left))
                        IN  [out |-> Append(acc.out, acc.left[j].index), left |-> RemoveAt(acc.left, j),
                             total |-> Sub(acc.total, acc.left[j].p)]
    IN  FoldLeft(step, [left |-> revsort(Weighted(p)), total |-> Whole(1), out |-> <<>>], us).out

\* Walker's tables: q(k) of column k is k's own, the rest its alias's.
\* hl holds the columns that lack from its front and those that spill from its
\* back, the first of them at l + 1.
RECURSIVE fill_columns(_, _)
fill_columns(w, k) ==
    LET i == w.hl[k]
        j == w.hl[w.l + 1]
        q == [w.q EXCEPT ![j] = Plus(@, Sub(w.q[i], Whole(1)))]
        next == [w EXCEPT !.a[i] = j, !.q = q, !.l = IF Less(q[j], Whole(1)) THEN @ + 1 ELSE @]
        n == Len(w.hl)
    IN  IF k > n - 1 THEN w ELSE IF next.l >= n THEN next ELSE fill_columns(next, k + 1)
walker_tables(p) ==
    LET n == Len(p)
        q == [i \in 1 .. n |-> Times(p[i], Whole(n))]
        lacking == Ind(n, LAMBDA i : Less(q[i], Whole(1)))
        spilling == Ind(n, LAMBDA i : ~Less(q[i], Whole(1)))
        w == [q |-> q, hl |-> lacking \o Reverse(spilling), l |-> Len(lacking), a |-> [i \in 1 .. n |-> 1]]
    IN  IF lacking # <<>> /\ spilling # <<>> THEN fill_columns(w, 1) ELSE w
walker_sample(p, draws) ==
    LET w == walker_tables(p)
    IN  [i \in DOMAIN draws |-> LET k == draws[i].k + 1 IN IF Less(draws[i].u, w.q[k]) THEN k ELSE w.a[k]]

(***************************************************************************)
(* The builtins.                                                           *)
(***************************************************************************)
\* Whether sample.int(n, size) may draw at all; prob is NULL or the weights.
may_sample(n, size_, replace, prob) ==
    LET k == as_int(size_)[1]
        dn == as_dbl(n)[1]
    IN  /\ size(n) = 1 /\ size(size_) = 1 /\ ~Missing(as_dbl(size_)[1]) /\ k >= 0
        /\ ~Missing(dn) /\ IsFinite(dn) /\ dn[1] >= 0 /\ (k > 0 => dn # Whole(0))
        /\ replace \/ ~Less(dn, Whole(k))
        /\ prob.t # "NULL" => /\ size(prob) = as_int(n)[1]
                              /\ ~Some(as_dbl(prob), Missing) /\ fixup_prob(as_dbl(prob), k, replace) # <<>>
\* A single number from 1 on stands for 1:x; else the elements of x are drawn.
whole_population(x) ==
    LET d == as_dbl(x)[1]
    IN  size(x) = 1 /\ x.t \in {"int", "dbl"} /\ ~IsFactor(x) /\ d # NA /\ IsFinite(d) /\ ~Less(d, Whole(1))
sample(x, replace, draws) ==
    LET n == IF whole_population(x) THEN FloorOf(as_dbl(x)[1]) ELSE size(x)
        index == sample_uniform(n, Len(draws), replace, draws)
    IN  IF whole_population(x) THEN Ints(index) ELSE take_positions(x, index)

(***************************************************************************)
(* Every sampler draws each element as often as its weight says.  Weights  *)
(* are numbers from 0 to 3, and a draw between 0 and 1 is the middle of    *)
(* one of as many parts as the weights add up to.                          *)
(***************************************************************************)
Draws(s) == {d \in [DOMAIN s -> 0 .. Max({0} \cup ToSet(s))] : \A i \in DOMAIN s : d[i] < s[i]}
Middle(m, parts) == <<2 * m + 1, 2 * parts>>
UniformlyDrawn(n, k) ==
    LET sampled == [d \in Draws([i \in 1 .. k |-> n + 1 - i]) |-> sample_uniform(n, k, FALSE, d)]
    IN  /\ \A d, e \in DOMAIN sampled : d # e => sampled[d] # sampled[e]
        /\ \A d \in DOMAIN sampled : Cardinality(ToSet(sampled[d])) = k
IndicesEvenly(n, width) ==
    LET drawn == [i \in 1 .. chunks_for(n, width) |-> 2 ^ width]
        giving(v) == Cardinality({d \in Draws(drawn) : unif_index(n, width, d) = v})
    IN  \A v \in 0 .. n - 1 : giving(v) = giving(0)
WeightsKept(w) ==
    LET n == Len(w)
        parts == FoldLeft(+, 0, w)
        p == fixup_prob([i \in 1 .. n |-> Whole(w[i])], 1, TRUE)
        once(i) == Cardinality({m \in 0 .. parts - 1 : prob_sample_replace(p, <<Middle(m, parts)>>) = <<i>>})
        column(i) == Cardinality({d \in [k : 0 .. n - 1, m : 0 .. parts - 1] :
                                    walker_sample(p, <<[k |-> d.k, u |-> Middle(d.m, parts)]>>) = <<i>>})
        twice(i, j) == Cardinality({d \in (0 .. parts - 1) \X (0 .. parts - 1) :
                            /\ d[2] < parts - w[i]
                            /\ prob_sample_no_replace(p, <<Middle(d[1], parts), Middle(d[2], parts - w[i])>>) = <<i, j>>})
    IN  /\ \A i \in 1 .. n - 1 : LET s == revsort(Weighted(p)) IN ~Less(s[i].p, s[i + 1].p)
        /\ {e.index : e \in ToSet(revsort(Weighted(p)))} = 1 .. n
        /\ \A i \in 1 .. n : once(i) = w[i] /\ column(i) = n * w[i]
        /\ \A i, j \in 1 .. n : (i # j /\ w[i] > 0 /\ w[i] < parts) => twice(i, j) = w[i] * w[j]
=============================================================================
