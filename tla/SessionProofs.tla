---------------------------- MODULE SessionProofs ----------------------------
(***************************************************************************)
(* Proofs about Session, for every cap on the warnings, every length of    *)
(* run and every number of programs: no warning is reported twice, and     *)
(* which ones are never; a function value keeps its body; the user of a    *)
(* script is shown what it wrote, in the order it wrote it, and any other  *)
(* user each of the two streams.                                           *)
(***************************************************************************)
EXTENDS Session, Lemmas

-----------------------------------------------------------------------------
(* Sequences flattened *)

\* What FlattenSeq takes as its recursive function on the first n sequences of q.
Flat(f, q, n) == f = [i \in 1..n |-> IF i = 1 THEN q[i] ELSE f[i - 1] \o q[i]]

\* Such a function, at one place.
LEMMA FlatAt ==
    ASSUME NEW f, NEW q, NEW n \in Nat, Flat(f, q, n), NEW i \in 1..n
    PROVE  f[i] = IF i = 1 THEN q[i] ELSE f[i - 1] \o q[i]
<1> DEFINE e(j) == IF j = 1 THEN q[j] ELSE f[j - 1] \o q[j]
<1>1. f = [j \in 1..n |-> e(j)]
  BY DEF Flat
<1> HIDE DEF e
<1>2. f[i] = e(i)
  BY <1>1
<1> QED BY <1>2 DEF e

\* There is one.
LEMMA FlatExists ==
    ASSUME NEW q, NEW n \in Nat
    PROVE  \E f : Flat(f, q, n)
<1> DEFINE T == {m \in Nat : \E f : Flat(f, q, m)}
<1>1. 0 \in T
  <2>1. Flat([i \in 1..0 |-> 0], q, 0)
    BY DEF Flat
  <2> QED BY <2>1
<1>2. ASSUME NEW m \in Nat, m \in T PROVE m + 1 \in T
  <2>1. PICK f : Flat(f, q, m)
    BY <1>2
  <2> DEFINE g == [i \in 1..(m + 1) |-> IF i = 1 THEN q[i] ELSE f[i - 1] \o q[i]]
  <2>2. ASSUME NEW i \in 1..(m + 1), i # 1 PROVE f[i - 1] = g[i - 1]
    <3> DEFINE e(j) == IF j = 1 THEN q[j] ELSE f[j - 1] \o q[j]
    <3>1. g = [j \in 1..(m + 1) |-> e(j)]
      OBVIOUS
    <3>2. i - 1 \in 1..m
      BY <2>2
    <3>3. f[i - 1] = e(i - 1)
      BY <2>1, <3>2, FlatAt
    <3> HIDE DEF e, g
    <3>4. g[i - 1] = e(i - 1)
      BY <3>1, <3>2
    <3> QED BY <3>3, <3>4
  <2>3. Flat(g, q, m + 1)
    <3>1. g = [i \in 1..(m + 1) |-> IF i = 1 THEN q[i] ELSE g[i - 1] \o q[i]]
      BY <2>2
    <3> QED BY <3>1 DEF Flat
  <2> QED BY <2>3
<1>3. Nat \subseteq T
  <2> HIDE DEF T
  <2> QED BY <1>1, <1>2, SetInduction
<1> QED BY <1>3

\* Two of them agree as far as their sequences do, and what they have there are
\* sequences.
LEMMA FlatAgrees ==
    ASSUME NEW S, NEW p, NEW q, NEW m \in Nat, NEW n \in Nat, m <= n,
           NEW f, NEW g, Flat(f, p, m), Flat(g, q, n),
           \A i \in 1..m : p[i] = q[i] /\ p[i] \in Seq(S)
    PROVE  \A i \in 1..m : f[i] = g[i] /\ f[i] \in Seq(S)
<1> DEFINE T == {k \in Nat : k \in 1..m => f[k] = g[k] /\ f[k] \in Seq(S)}
<1>1. 0 \in T
  OBVIOUS
<1>2. ASSUME NEW k \in Nat, k \in T PROVE k + 1 \in T
  <2> SUFFICES ASSUME k + 1 \in 1..m
               PROVE  f[k + 1] = g[k + 1] /\ f[k + 1] \in Seq(S)
    OBVIOUS
  <2>1. f[k + 1] = IF k + 1 = 1 THEN p[k + 1] ELSE f[k + 1 - 1] \o p[k + 1]
    <3>1. PICK j \in 1..m : j = k + 1
      OBVIOUS
    <3>2. f[j] = IF j = 1 THEN p[j] ELSE f[j - 1] \o p[j]
      BY FlatAt
    <3> QED BY <3>1, <3>2
  <2>2. g[k + 1] = IF k + 1 = 1 THEN q[k + 1] ELSE g[k + 1 - 1] \o q[k + 1]
    <3>1. PICK j \in 1..n : j = k + 1
      OBVIOUS
    <3>2. g[j] = IF j = 1 THEN q[j] ELSE g[j - 1] \o q[j]
      BY FlatAt
    <3> QED BY <3>1, <3>2
  <2>3. CASE k = 0
    BY <2>1, <2>2, <2>3
  <2>4. CASE k # 0
    <3>1. f[k] = g[k] /\ f[k] \in Seq(S) /\ p[k + 1] \in Seq(S)
      BY <1>2, <2>4
    <3>2. f[k] \o p[k + 1] \in Seq(S)
      BY <3>1, ConcatProperties
    <3> QED BY <2>1, <2>2, <2>4, <3>1, <3>2
  <2> QED BY <2>3, <2>4
<1>3. Nat \subseteq T
  <2> HIDE DEF T
  <2> QED BY <1>1, <1>2, SetInduction
<1> QED BY <1>3

\* FlattenSeq, by the function it takes.
LEMMA FlattenIs ==
    ASSUME NEW S, NEW q \in Seq(Seq(S)), NEW f, Flat(f, q, Len(q)), Len(q) > 0
    PROVE  FlattenSeq(q) = f[Len(q)] /\ f[Len(q)] \in Seq(S)
<1> DEFINE h == CHOOSE g : Flat(g, q, Len(q))
<1>1. Flat(h, q, Len(q))
  OBVIOUS
<1>2. FlattenSeq(q) = h[Len(q)]
  BY DEF FlattenSeq, Flat
<1>3. \A i \in 1..Len(q) : q[i] \in Seq(S)
  OBVIOUS
<1>4. Len(q) \in Nat /\ Len(q) \in 1..Len(q)
  OBVIOUS
<1> HIDE DEF h
<1>5. \A i \in 1..Len(q) : f[i] = h[i] /\ f[i] \in Seq(S)
  <2>1. \A i \in 1..Len(q) : q[i] = q[i] /\ q[i] \in Seq(S)
    BY <1>3
  <2>2. Len(q) <= Len(q)
    BY <1>4
  <2> QED BY <1>1, <1>4, <2>1, <2>2, FlatAgrees, Zenon
<1> QED BY <1>2, <1>4, <1>5

\* FlattenSeq of nothing is empty, of one more sequence is what it was with that
\* sequence after it, and it is a sequence.
LEMMA FlattenAppend ==
    ASSUME NEW S, NEW q \in Seq(Seq(S)), NEW t \in Seq(S)
    PROVE  /\ FlattenSeq(<<>>) = <<>>
           /\ FlattenSeq(q) \in Seq(S)
           /\ FlattenSeq(Append(q, t)) = FlattenSeq(q) \o t
<1>1. FlattenSeq(<<>>) = <<>>
  BY DEF FlattenSeq
<1> DEFINE r == Append(q, t)
           n == Len(q)
<1>2. /\ r \in Seq(Seq(S)) /\ n \in Nat /\ Len(r) = n + 1
      /\ \A i \in 1..n : r[i] = q[i] /\ q[i] \in Seq(S)
      /\ r[n + 1] = t
  OBVIOUS
<1> HIDE DEF r
<1>3. PICK g : Flat(g, r, n + 1)
  <2>1. n + 1 \in Nat
    BY <1>2
  <2> QED BY <2>1, FlatExists, Zenon
<1>4. FlattenSeq(r) = g[n + 1]
  BY <1>2, <1>3, FlattenIs
<1>5. g[n + 1] = IF n + 1 = 1 THEN t ELSE g[n] \o t
  <2>1. g[n + 1] = IF n + 1 = 1 THEN r[n + 1] ELSE g[n + 1 - 1] \o r[n + 1]
    BY <1>2, <1>3, FlatAt
  <2> QED BY <2>1, <1>2
<1>6. CASE n = 0
  <2>1. q = <<>> /\ FlattenSeq(q) = <<>>
    BY <1>1, <1>6
  <2>2. FlattenSeq(q) \o t = t
    BY <2>1
  <2>3. FlattenSeq(q) \in Seq(S)
    BY <2>1, EmptySeq
  <2>4. g[n + 1] = t
    BY <1>5, <1>6
  <2> QED BY <2>2, <2>3, <2>4, <1>1, <1>4 DEF r
<1>7. CASE n # 0
  <2>1. PICK f : Flat(f, q, n)
    BY <1>2, FlatExists
  <2>2. FlattenSeq(q) = f[n] /\ f[n] \in Seq(S)
    BY <1>2, <1>7, <2>1, FlattenIs
  <2>3. \A i \in 1..n : f[i] = g[i]
    <3>1. \A i \in 1..n : q[i] = r[i] /\ q[i] \in Seq(S)
      BY <1>2
    <3>2. n + 1 \in Nat /\ n <= n + 1
      BY <1>2
    <3>3. n \in Nat
      BY <1>2
    <3> HIDE DEF n
    <3>4. \A i \in 1..n : f[i] = g[i] /\ f[i] \in Seq(S)
      <4> DEFINE k == n + 1
      <4>1. k \in Nat /\ n <= k /\ Flat(g, r, k)
        BY <1>3, <3>2
      <4> HIDE DEF k
      <4> QED BY <2>1, <3>1, <4>1, <3>3, FlatAgrees, ZenonT(30)
    <3> QED BY <3>4
  <2>4. f[n] = g[n]
    BY <2>3, <1>2, <1>7
  <2> QED BY <2>2, <2>4, <1>1, <1>4, <1>5, <1>7, <1>2 DEF r
<1> QED BY <1>6, <1>7

-----------------------------------------------------------------------------
(* The events of a sequence that are of some kinds *)

\* A warning is the statement and the step that raised it; a batch reports those
\* it is for.
Warning == Nat \X Nat
Capped(n) == IF n < MaxWarnings THEN n ELSE MaxWarnings
Reports(b) ==
    /\ b.count = Capped(Len(b.for))
    /\ b.shown \in {<<>>, b.for}
    /\ b.count <= MaxListed => b.shown = b.for
BatchSet == {b \in [count : Nat, shown : Seq(Warning), for : Seq(Warning)] : Reports(b)}
OutSet == {"out"} \X Nat
EventSet == ({"out", "warning", "error", "R"} \X Nat) \cup ({"warnings"} \X BatchSet)
DiagnosticSet == {e \in EventSet : e[1] \in Diagnostics}

\* What one more event adds.
LEMMA OfAppend ==
    ASSUME NEW s \in Seq(EventSet), NEW e \in EventSet, NEW K
    PROVE  /\ Of(s, K) \in Seq(EventSet)
           /\ Of(Append(s, e), K) = IF e[1] \in K THEN Append(Of(s, K), e) ELSE Of(s, K)
           /\ Of(<<>>, K) = <<>>
<1> DEFINE One(x) == IF x[1] \in K THEN <<x>> ELSE <<>>
           n == Len(s)
           t == Append(s, e)
           p == [i \in 1..n |-> One(s[i])]
           q == [i \in 1..(n + 1) |-> One(t[i])]
<1>1. /\ n \in Nat /\ Len(t) = n + 1 /\ \A i \in 1..n : t[i] = s[i] /\ s[i] \in EventSet
      /\ t[n + 1] = e
  OBVIOUS
<1>2. Of(s, K) = FlattenSeq(p) /\ Of(t, K) = FlattenSeq(q)
  BY <1>1 DEF Of
<1>3. \A x \in EventSet : One(x) \in Seq(EventSet)
  OBVIOUS
<1> HIDE DEF One, t
<1>4. p \in Seq(Seq(EventSet)) /\ Len(p) = n /\ \A i \in 1..n : p[i] = One(s[i])
  BY <1>1, <1>3
<1>5. q = Append(p, One(e))
  <2>1. Append(p, One(e)) = [i \in 1..(n + 1) |-> IF i = n + 1 THEN One(e) ELSE p[i]]
    <3>1. PICK r : r = One(e)
      OBVIOUS
    <3>2. PICK u : u = p
      OBVIOUS
    <3>3. Append(u, r) = [i \in 1..(Len(u) + 1) |-> IF i = Len(u) + 1 THEN r ELSE u[i]]
      BY <3>2, <1>4, AppendIsFunction
    <3>4. Len(u) = n
      BY <3>2, <1>4
    <3> HIDE DEF p
    <3> QED BY <3>1, <3>2, <3>3, <3>4
  <2>2. ASSUME NEW i \in 1..(n + 1)
        PROVE  One(t[i]) = IF i = n + 1 THEN One(e) ELSE p[i]
    <3>1. i # n + 1 => i \in 1..n
      BY <1>1
    <3>2. i # n + 1 => p[i] = One(s[i]) /\ t[i] = s[i]
      BY <3>1, <1>1, <1>4
    <3> QED BY <3>2, <1>1
  <2> QED BY <2>1, <2>2
<1>6. One(e) \in Seq(EventSet)
  BY <1>3
<1> HIDE DEF p, q
<1>7. /\ FlattenSeq(p) \in Seq(EventSet)
      /\ FlattenSeq(q) = FlattenSeq(p) \o One(e)
  BY <1>4, <1>5, <1>6, FlattenAppend
<1>8. ASSUME NEW x \in Seq(EventSet)
      PROVE  x \o One(e) = IF e[1] \in K THEN Append(x, e) ELSE x
  BY DEF One
<1>9. Of(<<>>, K) = <<>>
  <2>1. [i \in 1..Len(<<>>) |-> IF <<>>[i][1] \in K THEN <<<<>>[i]>> ELSE <<>>] = <<>>
    OBVIOUS
  <2>2. FlattenSeq(<<>>) = <<>>
    BY EmptySeq, FlattenAppend
  <2> QED BY <2>1, <2>2 DEF Of
<1> QED BY <1>2, <1>7, <1>8, <1>9 DEF t

\* What more events add that are all of the kinds, or none of them.
LEMMA OfMore ==
    ASSUME NEW T, T \subseteq EventSet, NEW K,
           NEW s \in Seq(EventSet), NEW t \in Seq(T)
    PROVE  /\ s \o t \in Seq(EventSet)
           /\ (\A x \in T : x[1] \in K) => Of(s \o t, K) = Of(s, K) \o t
           /\ (\A x \in T : x[1] \notin K) => Of(s \o t, K) = Of(s, K)
<1> DEFINE Adds(u) == /\ s \o u \in Seq(EventSet)
                      /\ (\A x \in T : x[1] \in K) => Of(s \o u, K) = Of(s, K) \o u
                      /\ (\A x \in T : x[1] \notin K) => Of(s \o u, K) = Of(s, K)
           N == {n \in Nat : \A u \in Seq(T) : Len(u) = n => Adds(u)}
<1>0. Of(s, K) \in Seq(EventSet)
  <2>1. Event("out", 0) \in EventSet
    BY DEF Event, EventSet
  <2> QED BY <2>1, OfAppend
<1>1. 0 \in N
  <2> SUFFICES ASSUME NEW u \in Seq(T), Len(u) = 0 PROVE Adds(u)
    OBVIOUS
  <2>1. u = <<>> /\ s \o u = s /\ Of(s, K) \o u = Of(s, K)
    BY <1>0
  <2> QED BY <2>1
<1>2. ASSUME NEW n \in Nat, n \in N PROVE n + 1 \in N
  <2> SUFFICES ASSUME NEW u \in Seq(T), Len(u) = n + 1 PROVE Adds(u)
    OBVIOUS
  <2>1. \A v \in Seq(T) : Len(v) = n => Adds(v)
    BY <1>2
  <2> HIDE DEF Adds, N
  <2>2. PICK v \in Seq(T), x \in T : Len(v) = n /\ u = Append(v, x)
    <3>1. u # <<>>
      OBVIOUS
    <3>2. PICK v \in Seq(T), x \in T : u = Append(v, x)
      BY <3>1, SequenceEmptyOrAppend
    <3>3. Len(u) = Len(v) + 1 /\ Len(v) \in Nat
      BY <3>2
    <3>4. Len(v) = n
      BY <3>3
    <3> QED BY <3>2, <3>4
  <2>3. Adds(v)
    BY <2>1, <2>2
  <2>4. v \in Seq(EventSet) /\ x \in EventSet
    BY SeqMonotonic
  <2>5. PICK r : r = s \o v
    OBVIOUS
  <2>6. PICK a : a = Of(s, K)
    OBVIOUS
  <2>7. r \in Seq(EventSet) /\ a \in Seq(EventSet)
    BY <1>0, <2>3, <2>5, <2>6 DEF Adds
  <2>8. s \o u = Append(r, x) /\ a \o u = Append(a \o v, x)
    BY <2>2, <2>4, <2>5, <2>7
  <2>9. /\ Append(r, x) \in Seq(EventSet)
        /\ Of(Append(r, x), K) = IF x[1] \in K THEN Append(Of(r, K), x) ELSE Of(r, K)
    BY <2>4, <2>7, OfAppend
  <2>10. /\ (\A y \in T : y[1] \in K) => Of(r, K) = a \o v
         /\ (\A y \in T : y[1] \notin K) => Of(r, K) = a
    BY <2>3, <2>5, <2>6 DEF Adds
  <2>11. /\ (\A y \in T : y[1] \in K) => Of(s \o u, K) = a \o u
         /\ (\A y \in T : y[1] \notin K) => Of(s \o u, K) = a
    BY <2>8, <2>9, <2>10, Zenon
  <2> QED BY <2>6, <2>8, <2>9, <2>11 DEF Adds
<1>3. Nat \subseteq N
  <2> HIDE DEF N
  <2> QED BY <1>1, <1>2, SetInduction
<1>4. Len(t) \in Nat
  OBVIOUS
<1> QED BY <1>3, <1>4

\* Output adds to the output and to nothing else,
LEMMA OutputsAdd ==
    ASSUME NEW s \in Seq(EventSet), NEW t \in Seq(OutSet)
    PROVE  /\ s \o t \in Seq(EventSet) /\ Of(s, {"out"}) \in Seq(EventSet)
           /\ Of(s \o t, {"out"}) = Of(s, {"out"}) \o t
           /\ Of(s \o t, Diagnostics) = Of(s, Diagnostics)
<1>1. OutSet \subseteq EventSet
  BY DEF OutSet, EventSet
<1>2. /\ \A x \in OutSet : x[1] \in {"out"}
      /\ \A x \in OutSet : x[1] \notin Diagnostics
  BY DEF OutSet, Diagnostics
<1>3. PICK K : K = {"out"}
  OBVIOUS
<1>4. PICK D : D = Diagnostics
  OBVIOUS
<1>5. /\ \A x \in OutSet : x[1] \in K
      /\ \A x \in OutSet : x[1] \notin D
  BY <1>2, <1>3, <1>4
<1>6. s \o t \in Seq(EventSet) /\ Of(s \o t, K) = Of(s, K) \o t
  BY <1>1, <1>5, OfMore
<1>7. Of(s \o t, D) = Of(s, D)
  BY <1>1, <1>5, OfMore
<1>8. Of(s, K) \in Seq(EventSet)
  <2>1. Event("out", 0) \in EventSet
    BY DEF Event, EventSet
  <2> QED BY <2>1, OfAppend
<1> QED BY <1>3, <1>4, <1>6, <1>7, <1>8

\* diagnostics to the diagnostics.
LEMMA DiagnosticsAdd ==
    ASSUME NEW s \in Seq(EventSet), NEW t \in Seq(DiagnosticSet)
    PROVE  /\ s \o t \in Seq(EventSet)
           /\ Of(s \o t, {"out"}) = Of(s, {"out"})
           /\ Of(s \o t, Diagnostics) = Of(s, Diagnostics) \o t
<1>1. DiagnosticSet \subseteq EventSet
  BY DEF DiagnosticSet
<1>2. PICK K : K = {"out"}
  OBVIOUS
<1>3. PICK D : D = Diagnostics
  OBVIOUS
<1>4. /\ \A x \in DiagnosticSet : x[1] \notin K
      /\ \A x \in DiagnosticSet : x[1] \in D
  BY <1>2, <1>3 DEF DiagnosticSet, Diagnostics
<1>5. s \o t \in Seq(EventSet) /\ Of(s \o t, K) = Of(s, K)
  BY <1>1, <1>4, OfMore
<1>6. Of(s \o t, D) = Of(s, D) \o t
  BY <1>1, <1>4, OfMore
<1> QED BY <1>2, <1>3, <1>5, <1>6

\* So do they one at a time; what R shows is neither.
LEMMA OneAdds ==
    ASSUME NEW s \in Seq(EventSet), NEW e \in EventSet
    PROVE  /\ e[1] = "out" =>
                  /\ Of(Append(s, e), {"out"}) = Append(Of(s, {"out"}), e)
                  /\ Of(Append(s, e), Diagnostics) = Of(s, Diagnostics)
           /\ e[1] \in Diagnostics =>
                  /\ Of(Append(s, e), {"out"}) = Of(s, {"out"})
                  /\ Of(Append(s, e), Diagnostics) = Append(Of(s, Diagnostics), e)
           /\ e[1] = "R" =>
                  /\ Of(Append(s, e), {"out"}) = Of(s, {"out"})
                  /\ Of(Append(s, e), Diagnostics) = Of(s, Diagnostics)
<1>1. PICK K : K = {"out"}
  OBVIOUS
<1>2. PICK D : D = Diagnostics
  OBVIOUS
<1>3. Of(Append(s, e), K) = IF e[1] \in K THEN Append(Of(s, K), e) ELSE Of(s, K)
  BY OfAppend
<1>4. Of(Append(s, e), D) = IF e[1] \in D THEN Append(Of(s, D), e) ELSE Of(s, D)
  BY OfAppend
<1>5. /\ e[1] = "out" => e[1] \in K /\ e[1] \notin D
      /\ e[1] \in Diagnostics => e[1] \notin K /\ e[1] \in D
      /\ e[1] = "R" => e[1] \notin K /\ e[1] \notin D
  BY <1>1, <1>2 DEF Diagnostics
<1> QED BY <1>1, <1>2, <1>3, <1>4, <1>5

-----------------------------------------------------------------------------
(* The inductive invariant *)

\* The warnings kept are the first of those queued.
QueueInv ==
    /\ level \in {-1, 0, 1, 2}
    /\ queued \in Seq(Warning)
    /\ warnCount = Len(queued)
    /\ warnings = SubSeq(queued, 1, Capped(Len(queued)))

\* Each diagnostic is held at an offset within what the file has.
Output == file \o unflushed
StreamTypes ==
    /\ written \in Seq(EventSet) /\ screen \in Seq(EventSet)
    /\ file \in Seq(EventSet) /\ unflushed \in Seq(EventSet)
    /\ held \in Seq(Nat \X EventSet)
    /\ \A i \in 1..Len(held) : held[i][1] <= Len(file)

\* While a script that is captured runs, its user has been shown nothing and would
\* be shown what was written; another user has been shown each stream, but for an
\* incomplete line.
StreamInv ==
    /\ phase = "run" /\ Captured => screen = <<>> /\ Replayed = written
    /\ phase = "ended" /\ Captured => screen = written
    /\ phase = "inR" /\ Captured => screen = <<Event("R", 0)>>
    /\ ~Captured =>
           /\ file = <<>> /\ held = <<>> /\ unflushed \in Seq(OutSet)
           /\ Of(screen, {"out"}) \o unflushed = Of(written, {"out"})
           /\ Of(screen, Diagnostics) = Of(written, Diagnostics)

\* The warnings ra were to be reported: each is in one of the batches of wr, once,
\* or in the queue qu, once, or among those lost, lo.
InBatch(wr, i, w) == wr[i][1] = "warnings" /\ w \in ToSet(wr[i][2].for)
Accounts(wr, qu, lo, ra) ==
    /\ ra \subseteq Warning /\ lo \subseteq ra /\ qu \in Seq(ra)
    /\ IsInjective(qu) /\ ToSet(qu) \cap lo = {}
    /\ \A w \in ra : \/ \E i \in 1..Len(wr) : InBatch(wr, i, w)
                     \/ w \in ToSet(qu) \/ w \in lo
    /\ \A i \in 1..Len(wr) : \A w : InBatch(wr, i, w) =>
           /\ w \in ra /\ w \notin ToSet(qu) /\ w \notin lo
           /\ \A j \in 1..Len(wr) : InBatch(wr, j, w) => i = j
    /\ \A i \in 1..Len(wr) : wr[i][1] = "warnings" => IsInjective(wr[i][2].for)

\* So it is; a warning is known by its step; those lost are an embedder's, of a
\* statement that failed, as are those that wait for its next program.
AccountInv ==
    /\ Accounts(written, queued, lost, raised)
    /\ \A w \in raised : w[2] < steps
    /\ \A w \in lost : mode = "embedded" /\ w[1] \in failed
    /\ mode = "embedded" /\ phase = "run" => \A w \in ToSet(queued) : w[1] = statement
    /\ mode = "embedded" /\ phase = "idle" => \A w \in ToSet(queued) : w[1] \in failed
    /\ phase = "ended" => queued = <<>>

\* Program p's bodies stand in the table from its shift on, and carry it; nothing
\* else stands there; function values and parked machines are the table's.
BodySet     == [program : Nat, body : {0, 1}, shift : Nat]
FunctionSet == [id : Nat, program : Nat, body : {0, 1}]
TableTypes ==
    /\ programs \in Nat /\ closures \in Seq(BodySet) /\ functions \subseteq FunctionSet
    /\ mains \in [DOMAIN mains -> Nat] /\ DOMAIN mains \subseteq 1..programs
TableInv ==
    /\ \A p \in DOMAIN mains : \A b \in {0, 1} :
           /\ mains[p] + b + 1 \in 1..Len(closures)
           /\ closures[mains[p] + b + 1] = Body(p, b, mains[p])
    /\ \A i \in 1..Len(closures) :
           /\ closures[i].program \in DOMAIN mains
           /\ i = mains[closures[i].program] + closures[i].body + 1
    /\ \A f \in functions :
           f.program \in DOMAIN mains /\ f.id = mains[f.program] + f.body
    /\ DOMAIN parked \subseteq 1..Len(closures)
    /\ \A i \in DOMAIN parked : parked[i] = closures[i]

IInv ==
    /\ mode \in Modes /\ hasR \in BOOLEAN /\ phase \in {"run", "idle", "ended", "inR"}
    /\ steps \in Nat /\ statement \in Nat
    /\ QueueInv /\ AccountInv /\ StreamTypes /\ StreamInv /\ TableTypes /\ TableInv

-----------------------------------------------------------------------------
(* What is replayed *)

\* Replayed, for diagnostics hs held over the output out.
Within(hs, out, i) == IF hs[i][1] <= Len(out) THEN hs[i][1] ELSE Len(out)
Start(hs, out, i) == IF i = 1 THEN 0 ELSE Within(hs, out, i - 1)
Part(hs, out, i) ==
    SubSeq(out, Start(hs, out, i) + 1, Within(hs, out, i)) \o <<hs[i][2]>>
Parts(hs, out) == [i \in 1..Len(hs) |-> Part(hs, out, i)]
Left(hs, out) ==
    SubSeq(out, (IF Len(hs) = 0 THEN 0 ELSE Within(hs, out, Len(hs))) + 1, Len(out))
Replay(hs, out) == FlattenSeq(Parts(hs, out)) \o Left(hs, out)

\* Replayed is that, of what the file and standard output's buffer have.
LEMMA ReplayedIs == Replayed = Replay(held, Output)
BY DEF Replayed, Replay, Parts, Part, Start, Left, Within, Output

Fits(hs, out) == \A i \in 1..Len(hs) : hs[i][1] <= Len(out)

\* The parts are sequences of events, and so is what is left.
LEMMA PartsType ==
    ASSUME NEW hs \in Seq(Nat \X EventSet), NEW out \in Seq(EventSet), Fits(hs, out)
    PROVE  /\ Parts(hs, out) \in Seq(Seq(EventSet))
           /\ \A i \in 1..Len(hs) : Within(hs, out, i) = hs[i][1]
           /\ Left(hs, out) \in Seq(EventSet)
<1>1. ASSUME NEW i \in 1..Len(hs)
      PROVE  hs[i][1] \in 0..Len(out) /\ hs[i][2] \in EventSet
  BY DEF Fits
<1>2. \A i \in 1..Len(hs) : Within(hs, out, i) = hs[i][1]
  BY <1>1 DEF Within
<1>3. ASSUME NEW m \in 1..(Len(out) + 1), NEW n \in 0..Len(out)
      PROVE  SubSeq(out, m, n) \in Seq(EventSet)
  BY PartOf
<1>4. ASSUME NEW i \in 1..Len(hs) PROVE Part(hs, out, i) \in Seq(EventSet)
  <2>1. PICK m : m = Start(hs, out, i)
    OBVIOUS
  <2>2. SubSeq(out, Start(hs, out, i) + 1, Within(hs, out, i)) \in Seq(EventSet)
    <3>1. i # 1 => i - 1 \in 1..Len(hs)
      OBVIOUS
    <3>2. m \in 0..Len(out)
      <4>1. CASE i = 1
        BY <2>1, <4>1 DEF Start
      <4>2. CASE i # 1
        <5>1. m = Within(hs, out, i - 1)
          BY <2>1, <4>2 DEF Start
        <5>2. m = hs[i - 1][1] /\ hs[i - 1][1] \in 0..Len(out)
          BY <5>1, <4>2, <3>1, <1>1, <1>2
        <5> QED BY <5>2
      <4> QED BY <4>1, <4>2
    <3>3. Within(hs, out, i) \in 0..Len(out)
      BY <1>1, <1>2
    <3>4. m + 1 \in 1..(Len(out) + 1)
      BY <3>2
    <3> QED BY <2>1, <3>3, <3>4, <1>3
  <2>3. <<hs[i][2]>> \in Seq(EventSet)
    BY <1>1
  <2> QED BY <2>2, <2>3, ConcatProperties DEF Part
<1>5. Parts(hs, out) \in Seq(Seq(EventSet))
  BY <1>4 DEF Parts
<1>6. Left(hs, out) \in Seq(EventSet)
  BY <1>1, <1>2, <1>3 DEF Left
<1> QED BY <1>2, <1>5, <1>6

\* Output written after the diagnostics comes last in what is replayed.
LEMMA ReplayWrite ==
    ASSUME NEW hs \in Seq(Nat \X EventSet), NEW out \in Seq(EventSet), Fits(hs, out),
           NEW e \in EventSet
    PROVE  /\ Replay(hs, Append(out, e)) = Append(Replay(hs, out), e)
           /\ Replay(hs, out) \in Seq(EventSet)
<1> DEFINE more == Append(out, e)
           n    == Len(out)
           from == IF Len(hs) = 0 THEN 0 ELSE hs[Len(hs)][1]
<1>1. /\ more \in Seq(EventSet) /\ Len(more) = n + 1 /\ n \in Nat
      /\ \A i \in 1..n : more[i] = out[i]
      /\ more[n + 1] = e
  OBVIOUS
<1>2. Fits(hs, more)
  BY <1>1 DEF Fits
<1>3. \A i \in 1..Len(hs) : hs[i][1] \in 0..n
  BY DEF Fits
<1>4. /\ \A i \in 1..Len(hs) : Within(hs, out, i) = hs[i][1]
      /\ Parts(hs, out) \in Seq(Seq(EventSet)) /\ Left(hs, out) \in Seq(EventSet)
  BY PartsType
<1>5. \A i \in 1..Len(hs) : Within(hs, more, i) = hs[i][1]
  BY <1>1, <1>2, PartsType
<1> HIDE DEF more
<1>6. ASSUME NEW a \in 0..n, NEW b \in 0..n
      PROVE  SubSeq(more, a + 1, b) = SubSeq(out, a + 1, b)
  BY <1>1, PartOfAppend DEF more
<1>7. Parts(hs, more) = Parts(hs, out)
  <2>1. ASSUME NEW i \in 1..Len(hs) PROVE Part(hs, more, i) = Part(hs, out, i)
    <3>1. Within(hs, more, i) = Within(hs, out, i) /\ Within(hs, out, i) \in 0..n
      BY <1>3, <1>4, <1>5
    <3>2. CASE i = 1
      <4>1. 0 \in 0..n
        BY <1>1
      <4>2. SubSeq(more, 0 + 1, Within(hs, out, i)) = SubSeq(out, 0 + 1, Within(hs, out, i))
        BY <3>1, <4>1, <1>6
      <4> QED BY <3>1, <3>2, <4>2 DEF Part, Start
    <3>3. CASE i # 1
      <4>1. i - 1 \in 1..Len(hs)
        BY <3>3
      <4>2. Within(hs, more, i - 1) = Within(hs, out, i - 1)
            /\ Within(hs, out, i - 1) \in 0..n
        BY <4>1, <1>3, <1>4, <1>5
      <4> QED BY <3>1, <3>3, <4>2, <1>6 DEF Part, Start
    <3> QED BY <3>2, <3>3
  <2> QED BY <2>1 DEF Parts
<1>8. from \in 0..n
  BY <1>3, <1>1
<1>9. /\ Left(hs, out) = SubSeq(out, from + 1, n)
      /\ Left(hs, more) = SubSeq(more, from + 1, n + 1)
  <2>1. Len(hs) # 0 => Len(hs) \in 1..Len(hs)
    OBVIOUS
  <2>2. Len(more) = n + 1
    BY <1>1
  <2>3. Len(hs) # 0 => /\ Within(hs, out, Len(hs)) = hs[Len(hs)][1]
                       /\ Within(hs, more, Len(hs)) = hs[Len(hs)][1]
    BY <2>1, <1>4, <1>5
  <2> QED BY <2>2, <2>3 DEF Left
<1>10. Left(hs, more) = Append(Left(hs, out), e)
  <2>1. SubSeq(more, from + 1, n + 1) = Append(SubSeq(out, from + 1, n), e)
    <3>1. from + 1 \in 1..(n + 1)
      BY <1>8
    <3>2. n \in 0..Len(out)
      BY <1>1
    <3> HIDE DEF from
    <3> QED BY <3>1, <3>2, PartOfAppend DEF more
  <2> QED BY <2>1, <1>9
<1>11. FlattenSeq(Parts(hs, out)) \in Seq(EventSet)
  <2>1. <<>> \in Seq(EventSet)
    OBVIOUS
  <2> QED BY <1>4, <2>1, FlattenAppend
<1>12. ASSUME NEW x \in Seq(EventSet), NEW y \in Seq(EventSet)
       PROVE  x \o Append(y, e) = Append(x \o y, e) /\ x \o y \in Seq(EventSet)
  OBVIOUS
<1> QED BY <1>4, <1>7, <1>10, <1>11, <1>12 DEF Replay, more

\* A diagnostic held at the end of the output comes last in what is replayed.
LEMMA ReplayEmit ==
    ASSUME NEW hs \in Seq(Nat \X EventSet), NEW out \in Seq(EventSet), Fits(hs, out),
           NEW e \in EventSet
    PROVE  Replay(Append(hs, <<Len(out), e>>), out) = Append(Replay(hs, out), e)
<1> DEFINE more == Append(hs, <<Len(out), e>>)
           n    == Len(hs)
           from == IF n = 0 THEN 0 ELSE hs[n][1]
<1>1. /\ more \in Seq(Nat \X EventSet) /\ Len(more) = n + 1 /\ n \in Nat
      /\ \A i \in 1..n : more[i] = hs[i]
      /\ more[n + 1] = <<Len(out), e>>
  OBVIOUS
<1>2. Fits(more, out)
  BY <1>1 DEF Fits
<1>3. /\ \A i \in 1..n : Within(hs, out, i) = hs[i][1]
      /\ Parts(hs, out) \in Seq(Seq(EventSet)) /\ Left(hs, out) \in Seq(EventSet)
  BY PartsType
<1> HIDE DEF more
<1>4. /\ \A i \in 1..(n + 1) : Within(more, out, i) = more[i][1]
      /\ Left(more, out) \in Seq(EventSet)
  <2>1. more \in Seq(Nat \X EventSet) /\ Len(more) = n + 1
    BY <1>1
  <2>2. /\ \A i \in 1..Len(more) : Within(more, out, i) = more[i][1]
        /\ Left(more, out) \in Seq(EventSet)
    BY <2>1, <1>2, PartsType
  <2> QED BY <2>1, <2>2
<1>5. Left(hs, out) = SubSeq(out, from + 1, Len(out))
  <2>1. n # 0 => n \in 1..n
    OBVIOUS
  <2> QED BY <2>1, <1>3 DEF Left
<1>6. Left(more, out) = <<>>
  <2>1. Left(more, out) = SubSeq(out, Len(out) + 1, Len(out))
    BY <1>1, <1>4 DEF Left
  <2> QED BY <2>1
<1>7. Part(more, out, n + 1) = Append(Left(hs, out), e)
  <2>1. Within(more, out, n + 1) = Len(out)
    <3>1. n + 1 \in 1..(n + 1)
      BY <1>1
    <3>2. more[n + 1][1] = Len(out)
      BY <1>1
    <3> QED BY <3>1, <3>2, <1>4
  <2>2. Start(more, out, n + 1) = from
    <3>1. CASE n = 0
      BY <3>1 DEF Start
    <3>2. CASE n # 0
      <4>1. n \in 1..n /\ n \in 1..(n + 1) /\ n + 1 - 1 = n /\ n + 1 # 1
        BY <3>2, <1>1
      <4>2. Within(more, out, n) = more[n][1] /\ more[n] = hs[n]
        BY <4>1, <1>1, <1>4
      <4> QED BY <3>2, <4>1, <4>2 DEF Start
    <3> QED BY <3>1, <3>2
  <2>3. Part(more, out, n + 1) = SubSeq(out, from + 1, Len(out)) \o <<e>>
    <3>1. more[n + 1][2] = e
      BY <1>1
    <3> HIDE DEF from
    <3> QED BY <2>1, <2>2, <3>1 DEF Part
  <2> QED BY <2>3, <1>3, <1>5, AppendIsConcat
<1>8. Parts(more, out) = Append(Parts(hs, out), Part(more, out, n + 1))
  <2>1. ASSUME NEW i \in 1..n PROVE Part(more, out, i) = Part(hs, out, i)
    <3>1. Within(more, out, i) = Within(hs, out, i) /\ more[i] = hs[i]
      BY <1>1, <1>3, <1>4, SMTT(30)
    <3>2. i # 1 => Within(more, out, i - 1) = Within(hs, out, i - 1)
      <4>1. i # 1 => i - 1 \in 1..n /\ i - 1 \in 1..(n + 1)
        OBVIOUS
      <4>2. i # 1 => more[i - 1] = hs[i - 1]
        BY <4>1, <1>1
      <4> QED BY <4>1, <4>2, <1>3, <1>4
    <3> QED BY <3>1, <3>2 DEF Part, Start
  <2>2. /\ Parts(more, out) = [i \in 1..(n + 1) |-> Part(more, out, i)]
        /\ Parts(hs, out) = [i \in 1..n |-> Part(hs, out, i)]
    BY <1>1 DEF Parts
  <2>3. PICK p : p = Parts(hs, out)
    OBVIOUS
  <2>4. PICK last : last = Part(more, out, n + 1)
    OBVIOUS
  <2>5. p \in Seq(Seq(EventSet)) /\ Len(p) = n /\ \A i \in 1..n : p[i] = Part(hs, out, i)
    BY <2>2, <2>3, <1>1, <1>3
  <2>6. Append(p, last) = [i \in 1..(n + 1) |-> IF i = n + 1 THEN last ELSE p[i]]
    <3>1. p \in Seq(Seq(EventSet))
      BY <2>5
    <3>2. Append(p, last) = [i \in 1..(Len(p) + 1) |-> IF i = Len(p) + 1 THEN last ELSE p[i]]
      BY <3>1, AppendIsFunction
    <3> QED BY <3>2, <2>5
  <2>7. ASSUME NEW i \in 1..(n + 1)
        PROVE  Part(more, out, i) = IF i = n + 1 THEN last ELSE p[i]
    <3>1. i # n + 1 => i \in 1..n
      BY <1>1
    <3> QED BY <2>1, <2>4, <2>5, <3>1
  <2> QED BY <2>2, <2>3, <2>4, <2>6, <2>7
<1>9. Append(Left(hs, out), e) \in Seq(EventSet)
  BY <1>3
<1>10. /\ FlattenSeq(Parts(hs, out)) \in Seq(EventSet)
       /\ FlattenSeq(Parts(more, out)) = FlattenSeq(Parts(hs, out)) \o Append(Left(hs, out), e)
  BY <1>3, <1>7, <1>8, <1>9, FlattenAppend
<1>11. ASSUME NEW x \in Seq(EventSet), NEW y \in Seq(EventSet)
       PROVE  (x \o Append(y, e)) \o <<>> = Append(x \o y, e)
  OBVIOUS
<1> QED BY <1>3, <1>6, <1>10, <1>11 DEF Replay, more

\* Where no diagnostics are held, what is replayed is the output.
LEMMA ReplayOutput ==
    ASSUME NEW out \in Seq(EventSet)
    PROVE  Replay(<<>>, out) = out
<1>1. Parts(<<>>, out) = <<>>
  BY DEF Parts
<1>2. FlattenSeq(Parts(<<>>, out)) = <<>>
  BY <1>1, EmptySeq, FlattenAppend
<1>3. Left(<<>>, out) = out
  <2>1. Left(<<>>, out) = SubSeq(out, 1, Len(out))
    BY DEF Left
  <2> QED BY <2>1, SubSeqFull
<1>4. <<>> \o out = out
  OBVIOUS
<1> QED BY <1>2, <1>3, <1>4 DEF Replay

-----------------------------------------------------------------------------
(* The streams *)

\* The diagnostics fit the output, and Replayed is what Replay says, now and in
\* the next state.
LEMMA StreamFacts ==
    ASSUME StreamTypes
    PROVE  /\ Output \in Seq(EventSet) /\ Fits(held, Output)
           /\ Len(Output) = Len(file) + Len(unflushed)
           /\ Replayed = Replay(held, Output) /\ Replayed' = Replay(held', Output')
           /\ Replayed \in Seq(EventSet)
<1>1. file \in Seq(EventSet) /\ unflushed \in Seq(EventSet)
  BY DEF StreamTypes
<1>2. Output \in Seq(EventSet) /\ Len(Output) = Len(file) + Len(unflushed)
  BY <1>1 DEF Output
<1>3. Len(file) \in Nat /\ Len(unflushed) \in Nat
  BY <1>1
<1>4. Fits(held, Output)
  <2>1. ASSUME NEW i \in 1..Len(held) PROVE held[i][1] <= Len(Output)
    <3>1. held[i][1] \in Nat /\ held[i][1] <= Len(file)
      BY DEF StreamTypes
    <3> QED BY <3>1, <1>2, <1>3
  <2> QED BY <2>1 DEF Fits
<1>5. Replayed = Replay(held, Output)
  BY ReplayedIs
<1>6. Replayed' = Replay(held', Output')
  BY DEF Replayed, Replay, Parts, Part, Start, Left, Within, Output
<1>7. Replay(held, Output) \in Seq(EventSet)
  <2>1. held \in Seq(Nat \X EventSet)
    BY DEF StreamTypes
  <2>2. Event("out", 0) \in EventSet
    BY DEF Event, EventSet
  <2> QED BY <1>2, <1>4, <2>1, <2>2, ReplayWrite
<1> QED BY <1>2, <1>4, <1>5, <1>6, <1>7

\* What print and cat write is what is replayed last, or shown after the line it
\* belongs to.
LEMMA WritesKeep ==
    ASSUME StreamTypes, StreamInv, phase = "run", NEW e \in OutSet, Writes(e),
           mode' = mode, phase' = phase
    PROVE  StreamTypes' /\ StreamInv'
<1>0. e \in EventSet /\ e[1] = "out"
  BY DEF OutSet, EventSet
<1>1. /\ Output \in Seq(EventSet) /\ Fits(held, Output)
      /\ Replayed = Replay(held, Output) /\ Replayed' = Replay(held', Output')
  BY StreamFacts
<1>2. /\ written \in Seq(EventSet) /\ screen \in Seq(EventSet)
      /\ file \in Seq(EventSet) /\ unflushed \in Seq(EventSet)
      /\ held \in Seq(Nat \X EventSet)
  BY DEF StreamTypes
<1>3. written' = Append(written, e) /\ written' \in Seq(EventSet) /\ held' = held
  BY <1>0, <1>2 DEF Writes
<1>4. Append(unflushed, e) \in Seq(EventSet)
  BY <1>0, <1>2
<1>5. file \o Append(unflushed, e) = Append(Output, e)
  BY <1>0, <1>2 DEF Output
<1>6. CASE Captured
  <2>1. screen' = screen /\ screen = <<>> /\ Replayed = written /\ Captured'
    BY <1>6 DEF Writes, StreamInv, Captured
  <2>2. /\ file' \in Seq(EventSet) /\ unflushed' \in Seq(EventSet)
        /\ Output' = Append(Output, e) /\ Len(file) <= Len(file')
    <3>1. CASE unflushed' = Append(unflushed, e) /\ UNCHANGED <<file, screen>>
      <4>1. file' = file /\ unflushed' = Append(unflushed, e)
        BY <3>1
      <4>2. Output' = file \o Append(unflushed, e)
        BY <4>1 DEF Output
      <4>3. Len(file) <= Len(file')
        BY <4>1, <1>2
      <4> QED BY <4>1, <4>2, <4>3, <1>2, <1>4, <1>5
    <3>2. CASE /\ file' = file \o Append(unflushed, e)
               /\ unflushed' = <<>> /\ UNCHANGED screen
      <4>1. file' \in Seq(EventSet) /\ unflushed' \in Seq(EventSet)
        BY <3>2, <1>2, <1>4
      <4>2. Output' = file' \o <<>>
        BY <3>2 DEF Output
      <4>3. Output' = file'
        BY <4>1, <4>2
      <4>4. Len(file') = Len(file) + Len(Append(unflushed, e))
        BY <3>2, <1>2, <1>4
      <4>5. Len(file) \in Nat /\ Len(Append(unflushed, e)) \in Nat
        BY <1>2, <1>4
      <4> QED BY <4>1, <4>3, <4>4, <4>5, <3>2, <1>5
    <3> QED BY <3>1, <3>2, <1>6 DEF Writes
  <2>3. Replayed' = written'
    <3>1. Replay(held, Append(Output, e)) = Append(Replay(held, Output), e)
      BY <1>0, <1>1, <1>2, ReplayWrite
    <3>2. Replayed' = Replay(held, Append(Output, e))
      BY <1>1, <1>3, <2>2
    <3> QED BY <3>1, <3>2, <1>1, <1>3, <2>1
  <2>4. \A i \in 1..Len(held') : held'[i][1] <= Len(file')
    <3>1. ASSUME NEW i \in 1..Len(held) PROVE held[i][1] <= Len(file')
      <4>1. held[i][1] \in Nat /\ held[i][1] <= Len(file)
        <5>1. held[i] \in Nat \X EventSet
          BY <1>2
        <5> QED BY <5>1 DEF StreamTypes
      <4>2. Len(file) \in Nat /\ Len(file') \in Nat
        BY <1>2, <2>2
      <4> QED BY <4>1, <4>2, <2>2
    <3> QED BY <3>1, <1>3
  <2>5. StreamTypes'
    BY <1>2, <1>3, <2>1, <2>2, <2>4 DEF StreamTypes
  <2> QED BY <2>1, <2>3, <2>5 DEF StreamInv
<1>7. CASE ~Captured
  <2>1. /\ ~Captured' /\ file = <<>> /\ held = <<>> /\ unflushed \in Seq(OutSet)
        /\ Of(screen, {"out"}) \o unflushed = Of(written, {"out"})
        /\ Of(screen, Diagnostics) = Of(written, Diagnostics)
    BY <1>7 DEF StreamInv, Captured
  <2>2. PICK more : more = Append(unflushed, e)
    OBVIOUS
  <2>3. /\ file' = file
        /\ \/ unflushed' = more /\ screen' = screen
           \/ unflushed' = <<>> /\ screen' = screen \o more
    BY <1>7, <2>2 DEF Writes
  <2>4. more \in Seq(OutSet) /\ more \in Seq(EventSet)
    BY <1>4, <2>1, <2>2
  <2>5. /\ Of(written', {"out"}) = Append(Of(written, {"out"}), e)
        /\ Of(written', Diagnostics) = Of(written, Diagnostics)
    BY <1>0, <1>2, <1>3, OneAdds
  <2>6. /\ screen \o more \in Seq(EventSet) /\ Of(screen, {"out"}) \in Seq(EventSet)
        /\ Of(screen \o more, {"out"}) = Of(screen, {"out"}) \o more
        /\ Of(screen \o more, Diagnostics) = Of(screen, Diagnostics)
    BY <1>2, <2>4, OutputsAdd
  <2>7. Of(screen, {"out"}) \o more = Of(written', {"out"})
    <3>1. PICK x : x = Of(screen, {"out"})
      OBVIOUS
    <3>2. x \in Seq(EventSet) /\ x \o unflushed = Of(written, {"out"})
      BY <3>1, <2>1, <2>6
    <3>3. x \o Append(unflushed, e) = Append(x \o unflushed, e)
      BY <3>2, <1>0, <1>2
    <3> QED BY <3>1, <3>2, <3>3, <2>2, <2>5
  <2>8. screen' \in Seq(EventSet) /\ unflushed' \in Seq(OutSet) /\ unflushed' \in Seq(EventSet)
    BY <1>2, <2>3, <2>4, <2>6, EmptySeq
  <2>9. StreamTypes'
    BY <1>2, <1>3, <2>1, <2>3, <2>8 DEF StreamTypes
  <2>10. /\ Of(screen', {"out"}) \o unflushed' = Of(written', {"out"})
         /\ Of(screen', Diagnostics) = Of(written', Diagnostics)
    <3>1. CASE unflushed' = more /\ screen' = screen
      BY <2>1, <2>5, <2>7, <3>1
    <3>2. CASE unflushed' = <<>> /\ screen' = screen \o more
      <4>1. PICK x : x = Of(screen', {"out"})
        OBVIOUS
      <4>2. x = Of(written', {"out"}) /\ x = Of(screen, {"out"}) \o more
        BY <4>1, <3>2, <2>6, <2>7
      <4>3. x \o <<>> = x
        BY <4>2, <2>4, <2>6, ConcatProperties
      <4> QED BY <4>1, <4>2, <4>3, <3>2, <2>1, <2>5, <2>6
    <3> QED BY <2>3, <3>1, <3>2
  <2> QED BY <1>3, <2>1, <2>3, <2>8, <2>9, <2>10 DEF StreamInv
<1> QED BY <1>6, <1>7

\* A diagnostic is replayed last too, or shown at once.
LEMMA EmitKeeps ==
    ASSUME StreamTypes, StreamInv, NEW e \in DiagnosticSet, Emit(e),
           mode' = mode, Captured => phase = "run" /\ phase' = phase
    PROVE  StreamTypes' /\ StreamInv'
<1>0. e \in EventSet /\ e[1] \in Diagnostics /\ e[1] # "out"
  BY DEF DiagnosticSet, Diagnostics
<1>1. /\ Output \in Seq(EventSet) /\ Fits(held, Output)
      /\ Replayed = Replay(held, Output) /\ Replayed' = Replay(held', Output')
      /\ Len(Output) = Len(file) + Len(unflushed)
  BY StreamFacts
<1>2. /\ written \in Seq(EventSet) /\ screen \in Seq(EventSet)
      /\ file \in Seq(EventSet) /\ unflushed \in Seq(EventSet)
      /\ held \in Seq(Nat \X EventSet)
  BY DEF StreamTypes
<1>3. written' = Append(written, e) /\ written' \in Seq(EventSet)
  BY <1>0, <1>2 DEF Emit
<1>4. Append(screen, e) \in Seq(EventSet)
  BY <1>0, <1>2
<1>5. CASE Captured
  <2>1. /\ screen' = screen /\ screen = <<>> /\ Replayed = written /\ Captured'
        /\ file' = Output /\ unflushed' = <<>>
        /\ held' = Append(held, <<Len(Output), e>>)
    BY <1>1, <1>5 DEF Emit, StreamInv, Captured, Output, Offset
  <2>2. Output' = Output /\ unflushed' \in Seq(EventSet) /\ file' \in Seq(EventSet)
    BY <1>1, <2>1 DEF Output
  <2>3. Len(Output) \in Nat /\ <<Len(Output), e>> \in Nat \X EventSet
    BY <1>0, <1>1
  <2>4. /\ held' \in Seq(Nat \X EventSet) /\ Len(held') = Len(held) + 1
        /\ \A i \in 1..Len(held) : held'[i] = held[i]
        /\ held'[Len(held) + 1] = <<Len(Output), e>>
    BY <1>2, <2>1, <2>3, AppendProperties
  <2>5. Replayed' = written'
    <3>1. Replay(Append(held, <<Len(Output), e>>), Output) = Append(Replay(held, Output), e)
      BY <1>0, <1>1, <1>2, ReplayEmit
    <3>2. Replayed' = Replay(Append(held, <<Len(Output), e>>), Output)
      BY <1>1, <2>1, <2>2
    <3> QED BY <3>1, <3>2, <1>1, <1>3, <2>1
  <2>6. ASSUME NEW i \in 1..Len(held') PROVE held'[i][1] <= Len(file')
    <3>1. CASE i = Len(held) + 1
      <4>1. held'[i][1] = Len(Output)
        BY <2>4, <3>1
      <4> QED BY <4>1, <2>1, <2>3
    <3>2. CASE i # Len(held) + 1
      <4>1. i \in 1..Len(held)
        BY <1>2, <2>4, <3>2
      <4> QED BY <4>1, <1>1, <2>1, <2>4 DEF Fits
    <3> QED BY <3>1, <3>2
  <2>7. StreamTypes'
    BY <1>2, <1>3, <2>1, <2>2, <2>4, <2>6 DEF StreamTypes
  <2> QED BY <1>5, <2>1, <2>5, <2>7 DEF StreamInv
<1>6. CASE ~Captured
  <2>1. /\ ~Captured' /\ screen' = Append(screen, e)
        /\ file' = <<>> /\ held' = <<>> /\ held' = held /\ file' = file
        /\ unflushed' = unflushed /\ unflushed \in Seq(OutSet)
        /\ Of(screen, {"out"}) \o unflushed = Of(written, {"out"})
        /\ Of(screen, Diagnostics) = Of(written, Diagnostics)
    BY <1>6 DEF Emit, StreamInv, Captured
  <2>2. /\ Of(written', {"out"}) = Of(written, {"out"})
        /\ Of(written', Diagnostics) = Append(Of(written, Diagnostics), e)
    BY <1>0, <1>2, <1>3, OneAdds
  <2>3. /\ Of(screen', {"out"}) = Of(screen, {"out"})
        /\ Of(screen', Diagnostics) = Append(Of(screen, Diagnostics), e)
    BY <1>0, <1>2, <2>1, OneAdds
  <2>4. StreamTypes'
    BY <1>2, <1>3, <1>4, <2>1 DEF StreamTypes
  <2> QED BY <2>1, <2>2, <2>3, <2>4 DEF StreamInv
<1> QED BY <1>5, <1>6

\* Nothing of it depends on anything else.
LEMMA QuietKeeps ==
    ASSUME StreamTypes, StreamInv, UNCHANGED output, mode' = mode,
           Captured => phase' = phase
    PROVE  StreamTypes' /\ StreamInv'
<1>1. StreamTypes'
  BY DEF StreamTypes, output
<1>2. Replayed' = Replayed
  BY DEF Replayed, output
<1>3. Captured' = Captured
  BY DEF Captured
<1> QED BY <1>1, <1>2, <1>3 DEF StreamInv, output

-----------------------------------------------------------------------------
(* Warnings *)

\* The warnings kept are the first of those queued; when a batch lists them, it
\* lists them all.
LEMMA QueueFacts ==
    ASSUME QueueInv
    PROVE  /\ warnings \in Seq(Warning) /\ Len(warnings) = Capped(Len(queued))
           /\ Len(queued) < MaxWarnings => warnings = queued
           /\ \A i \in 1..Capped(Len(queued)) : warnings[i] = queued[i]
<1>1. queued \in Seq(Warning) /\ warnings = SubSeq(queued, 1, Capped(Len(queued)))
  BY DEF QueueInv
<1>2. Capped(Len(queued)) \in 0..Len(queued)
  BY <1>1, SessionAssumption DEF Capped
<1>3. /\ warnings \in Seq(Warning) /\ Len(warnings) = Capped(Len(queued))
      /\ \A i \in 1..Capped(Len(queued)) : warnings[i] = queued[i]
  BY <1>1, <1>2, FirstPart
<1>4. ASSUME Len(queued) < MaxWarnings PROVE warnings = queued
  <2>1. Len(warnings) = Len(queued)
    BY <1>3, <1>4 DEF Capped
  <2>2. \A i \in 1..Len(warnings) : warnings[i] = queued[i]
    BY <1>3
  <2> QED BY <1>1, <1>3, <2>1, <2>2, SeqEqual
<1> QED BY <1>3, <1>4

\* The batch that a flush writes reports the warnings queued.
LEMMA BatchReports ==
    ASSUME QueueInv, Flushes
    PROVE  /\ TheBatch \in DiagnosticSet
           /\ TheBatch[1] = "warnings" /\ TheBatch[2].for = queued
<1>1. /\ queued \in Seq(Warning) /\ warnCount = Len(queued) /\ warnCount # 0
      /\ Len(queued) \in Nat
  BY DEF QueueInv, Flushes
<1>2. /\ warnings \in Seq(Warning) /\ Len(warnings) = Capped(Len(queued))
      /\ Len(queued) < MaxWarnings => warnings = queued
  BY QueueFacts
<1>3. CountShown = Capped(Len(queued)) /\ CountShown \in Nat
  BY <1>1, SessionAssumption DEF CountShown, Capped
<1>4. ASSUME warnCount <= MaxListed PROVE Shown = queued
  <2>1. warnings = queued
    BY <1>1, <1>2, <1>4, SessionAssumption
  <2>2. CASE warnCount = 1
    <3>1. Len(queued) = 1
      BY <1>1, <2>2
    <3>2. <<queued[1]>> = queued
      BY <3>1, <1>1
    <3> QED BY <2>1, <2>2, <3>2 DEF Shown
  <2>3. CASE warnCount # 1
    BY <2>1, <2>3, <1>4 DEF Shown
  <2> QED BY <2>2, <2>3
<1>5. ASSUME ~(warnCount <= MaxListed) PROVE Shown = <<>>
  <2>1. warnCount # 1
    BY <1>1, <1>5, SessionAssumption
  <2> QED BY <2>1, <1>5 DEF Shown
<1>6. Shown \in {<<>>, queued} /\ (CountShown <= MaxListed => Shown = queued)
  <2>1. CountShown <= MaxListed => warnCount <= MaxListed
    BY <1>1, SessionAssumption DEF CountShown
  <2> QED BY <1>4, <1>5, <2>1
<1>7. Shown \in Seq(Warning)
  <2>1. <<>> \in Seq(Warning)
    BY EmptySeq
  <2> QED BY <1>1, <1>6, <2>1
<1> DEFINE b == [count |-> CountShown, shown |-> Shown, for |-> queued]
<1>8. b \in [count : Nat, shown : Seq(Warning), for : Seq(Warning)]
  BY <1>1, <1>3, <1>7
<1>9. Reports(b)
  BY <1>3, <1>6 DEF Reports
<1>10. b \in BatchSet /\ b.for = queued
  BY <1>8, <1>9 DEF BatchSet
<1> HIDE DEF b
<1>11. TheBatch = <<"warnings", b>>
  BY DEF TheBatch, Batch, b
<1> QED BY <1>10, <1>11 DEF DiagnosticSet, Diagnostics, EventSet

\* One more warning is kept as long as there is room.
LEMMA QueueKeeps ==
    ASSUME QueueInv, NEW w \in Warning, Queue(w), level' = level
    PROVE  QueueInv'
<1>1. queued \in Seq(Warning) /\ warnCount = Len(queued)
  BY DEF QueueInv
<1>2. /\ warnings \in Seq(Warning) /\ Len(warnings) = Capped(Len(queued))
      /\ Len(queued) < MaxWarnings => warnings = queued
      /\ warnings = SubSeq(queued, 1, Capped(Len(queued)))
  BY QueueFacts DEF QueueInv
<1>3. queued' = Append(queued, w) /\ warnCount' = warnCount + 1
  BY DEF Queue
<1>4. queued' \in Seq(Warning) /\ Len(queued') = Len(queued) + 1 /\ Len(queued) \in Nat
  BY <1>1, <1>3
<1>5. warnings' = SubSeq(queued', 1, Capped(Len(queued')))
  <2>1. CASE Len(queued) < MaxWarnings
    <3>1. warnings' = queued'
      BY <1>2, <1>3, <1>4, <2>1 DEF Queue, Capped
    <3>2. Capped(Len(queued')) = Len(queued')
      BY <1>4, <2>1, SessionAssumption DEF Capped
    <3> QED BY <3>1, <3>2, <1>4, SubSeqFull
  <2>2. CASE ~(Len(queued) < MaxWarnings)
    <3>1. Capped(Len(queued)) = MaxWarnings /\ Capped(Len(queued')) = MaxWarnings
      BY <1>4, <2>2, SessionAssumption DEF Capped
    <3>2. warnings' = warnings
      BY <1>2, <3>1, SessionAssumption DEF Queue
    <3>3. MaxWarnings \in 0..Len(queued) /\ 1 \in 1..(Len(queued) + 1)
      BY <1>4, <2>2, SessionAssumption
    <3>4. SubSeq(Append(queued, w), 1, MaxWarnings) = SubSeq(queued, 1, MaxWarnings)
      BY <1>1, <3>3, PartOfAppend
    <3> QED BY <3>1, <3>2, <3>4, <1>2, <1>3
  <2> QED BY <2>1, <2>2
<1> QED BY <1>1, <1>3, <1>4, <1>5 DEF QueueInv

\* Once they are taken, none is left.
LEMMA TakenKeeps ==
    ASSUME QueueInv, Taken, queued' = <<>>, level' \in {-1, 0, 1, 2}
    PROVE  QueueInv'
<1>1. warnings' = <<>> /\ warnCount' = 0 /\ queued' = <<>>
  BY DEF Taken
<1>2. Capped(Len(queued')) = 0
  BY <1>1, SessionAssumption DEF Capped
<1>3. warnings' = SubSeq(queued', 1, Capped(Len(queued')))
  BY <1>1, <1>2
<1> QED BY <1>1, <1>3 DEF QueueInv

\* Where the warnings are after an event that is no batch,
LEMMA AccountsOther ==
    ASSUME NEW wr \in Seq(EventSet), NEW qu, NEW lo, NEW ra, Accounts(wr, qu, lo, ra),
           NEW e \in EventSet, e[1] # "warnings"
    PROVE  Accounts(Append(wr, e), qu, lo, ra)
<1>1. PICK wn : wn = Append(wr, e)
  OBVIOUS
<1>2. /\ Len(wn) = Len(wr) + 1 /\ Len(wr) \in Nat
      /\ \A i \in 1..Len(wr) : wn[i] = wr[i] /\ i \in 1..Len(wn)
      /\ wn[Len(wr) + 1] = e
  BY <1>1
<1>3. \A i \in 1..Len(wn) : wn[i][1] = "warnings" => i \in 1..Len(wr)
  <2>1. \A i \in 1..Len(wn) : i # Len(wr) + 1 => i \in 1..Len(wr)
    BY <1>2
  <2> QED BY <1>2, <2>1
<1>4. \A i \in 1..Len(wr) : \A w : InBatch(wn, i, w) <=> InBatch(wr, i, w)
  BY <1>2 DEF InBatch
<1>5. \A i \in 1..Len(wn) : \A w : InBatch(wn, i, w) => i \in 1..Len(wr)
  BY <1>3 DEF InBatch
<1>6. \A i \in 1..Len(wn) : wn[i][1] = "warnings" => IsInjective(wn[i][2].for)
  BY <1>2, <1>3 DEF Accounts
<1>7. \A w \in ra : \/ \E i \in 1..Len(wn) : InBatch(wn, i, w)
                   \/ w \in ToSet(qu) \/ w \in lo
  BY <1>2, <1>4 DEF Accounts
<1>8. ASSUME NEW i \in 1..Len(wn), NEW w, InBatch(wn, i, w)
      PROVE  /\ w \in ra /\ w \notin ToSet(qu) /\ w \notin lo
             /\ \A j \in 1..Len(wn) : InBatch(wn, j, w) => i = j
  <2>1. i \in 1..Len(wr) /\ InBatch(wr, i, w)
    BY <1>4, <1>5, <1>8
  <2>2. \A j \in 1..Len(wn) : InBatch(wn, j, w) => j \in 1..Len(wr) /\ InBatch(wr, j, w)
    BY <1>4, <1>5
  <2> QED BY <2>1, <2>2 DEF Accounts
<1> QED BY <1>1, <1>6, <1>7, <1>8 DEF Accounts

\* after one more was queued,
LEMMA AccountsQueued ==
    ASSUME NEW wr, NEW qu, NEW lo, NEW ra, Accounts(wr, qu, lo, ra),
           NEW v \in Warning, v \notin ra
    PROVE  Accounts(wr, Append(qu, v), lo, ra \cup {v})
<1> DEFINE qn == Append(qu, v)
           rn == ra \cup {v}
<1>1. qu \in Seq(ra) /\ IsInjective(qu) /\ lo \subseteq ra
  BY DEF Accounts
<1>2. qu \in Seq(rn)
  BY <1>1, SeqMonotonic
<1>3. /\ qn \in Seq(rn) /\ Len(qn) = Len(qu) + 1 /\ Len(qu) \in Nat
      /\ \A i \in 1..Len(qu) : qn[i] = qu[i] /\ qu[i] \in ra
      /\ qn[Len(qu) + 1] = v
  BY <1>1, <1>2
<1> HIDE DEF qn
<1>4. DOMAIN qn = 1..Len(qn) /\ DOMAIN qu = 1..Len(qu)
  BY <1>1, <1>3
<1>5. \A i \in 1..Len(qn) : i # Len(qu) + 1 => i \in 1..Len(qu)
  BY <1>3
<1>6. ToSet(qn) = ToSet(qu) \cup {v}
  <2>1. ToSet(qn) = {qn[i] : i \in 1..Len(qn)} /\ ToSet(qu) = {qu[i] : i \in 1..Len(qu)}
    BY <1>4 DEF ToSet
  <2>2. ToSet(qu) \cup {v} \subseteq ToSet(qn)
    <3>1. \A i \in 1..Len(qu) : i \in 1..Len(qn)
      BY <1>3
    <3>2. Len(qu) + 1 \in 1..Len(qn)
      BY <1>3
    <3> QED BY <2>1, <1>3, <3>1, <3>2
  <2>3. ToSet(qn) \subseteq ToSet(qu) \cup {v}
    BY <2>1, <1>3, <1>5
  <2> QED BY <2>2, <2>3
<1>7. IsInjective(qn)
  <2>1. ASSUME NEW i \in 1..Len(qn), NEW j \in 1..Len(qn), qn[i] = qn[j] PROVE i = j
    <3>1. CASE i \in 1..Len(qu) /\ j \in 1..Len(qu)
      <4>1. qu[i] = qu[j]
        BY <3>1, <2>1, <1>3
      <4> QED BY <4>1, <3>1, <1>1, <1>4 DEF IsInjective
    <3>2. CASE ~(i \in 1..Len(qu) /\ j \in 1..Len(qu))
      BY <3>2, <2>1, <1>3, <1>5
    <3> QED BY <3>1, <3>2
  <2> QED BY <2>1, <1>4 DEF IsInjective
<1>8. /\ rn \subseteq Warning /\ lo \subseteq rn /\ ToSet(qn) \cap lo = {}
  BY <1>1, <1>6 DEF Accounts
<1>9. \A w \in rn : \/ \E i \in 1..Len(wr) : InBatch(wr, i, w)
                   \/ w \in ToSet(qn) \/ w \in lo
  BY <1>6 DEF Accounts
<1>10. \A i \in 1..Len(wr) : \A w : InBatch(wr, i, w) =>
           /\ w \in rn /\ w \notin ToSet(qn) /\ w \notin lo
           /\ \A j \in 1..Len(wr) : InBatch(wr, j, w) => i = j
  BY <1>6 DEF Accounts
<1>11. \A i \in 1..Len(wr) : wr[i][1] = "warnings" => IsInjective(wr[i][2].for)
  BY DEF Accounts
<1> HIDE DEF rn
<1>12. Accounts(wr, qn, lo, rn)
  BY <1>3, <1>7, <1>8, <1>9, <1>10, <1>11 DEF Accounts
<1> QED BY <1>12 DEF qn, rn

\* after a batch for all that were queued,
LEMMA AccountsReported ==
    ASSUME NEW wr \in Seq(EventSet), NEW qu, NEW lo, NEW ra, Accounts(wr, qu, lo, ra),
           NEW e \in EventSet, e[1] = "warnings", e[2].for = qu
    PROVE  Accounts(Append(wr, e), <<>>, lo, ra)
<1>1. PICK wn : wn = Append(wr, e)
  OBVIOUS
<1>2. /\ Len(wn) = Len(wr) + 1 /\ Len(wr) \in Nat
      /\ \A i \in 1..Len(wr) : wn[i] = wr[i] /\ i \in 1..Len(wn)
      /\ wn[Len(wr) + 1] = e /\ Len(wr) + 1 \in 1..Len(wn)
      /\ Len(wr) + 1 \notin 1..Len(wr)
  BY <1>1
<1>3. \A i \in 1..Len(wn) : i # Len(wr) + 1 => i \in 1..Len(wr)
  BY <1>2
<1> DEFINE last == Len(wr) + 1
<1> HIDE DEF last
<1>4. \A i \in 1..Len(wr) : \A w : InBatch(wn, i, w) <=> InBatch(wr, i, w)
  BY <1>2 DEF InBatch
<1>5. \A w : InBatch(wn, last, w) <=> w \in ToSet(qu)
  BY <1>2 DEF InBatch, last
<1>6. /\ last \in 1..Len(wn) /\ last \notin 1..Len(wr)
      /\ \A i \in 1..Len(wn) : i # last => i \in 1..Len(wr)
      /\ \A i \in 1..Len(wr) : i \in 1..Len(wn)
      /\ wn[last] = e /\ \A i \in 1..Len(wr) : wn[i] = wr[i]
  BY <1>2, <1>3 DEF last
<1>7. ToSet(<<>>) = {} /\ <<>> \in Seq(ra) /\ IsInjective(<<>>)
  BY EmptySeq DEF ToSet, IsInjective
<1>8. \A w \in ra : (\E i \in 1..Len(wn) : InBatch(wn, i, w)) \/ w \in lo
  <2> SUFFICES ASSUME NEW w \in ra, w \notin lo
               PROVE  \E i \in 1..Len(wn) : InBatch(wn, i, w)
    OBVIOUS
  <2>1. CASE w \in ToSet(qu)
    BY <2>1, <1>5, <1>6
  <2>2. CASE w \notin ToSet(qu)
    <3>1. PICK i \in 1..Len(wr) : InBatch(wr, i, w)
      BY <2>2 DEF Accounts
    <3> QED BY <3>1, <1>4, <1>6
  <2> QED BY <2>1, <2>2
<1>9. ASSUME NEW i \in 1..Len(wn), NEW w, InBatch(wn, i, w)
      PROVE  /\ w \in ra /\ w \notin lo
             /\ \A j \in 1..Len(wn) : InBatch(wn, j, w) => i = j
  <2>1. CASE i = last
    <3>1. w \in ToSet(qu)
      BY <2>1, <1>5, <1>9
    <3>2. w \in ra /\ w \notin lo
      <4>1. \A u \in ToSet(qu) : u \in ra
        <5>1. qu \in Seq(ra)
          BY DEF Accounts
        <5>2. \A k \in DOMAIN qu : qu[k] \in ra
          BY <5>1
        <5> QED BY <5>2 DEF ToSet
      <4> QED BY <3>1, <4>1 DEF Accounts
    <3>3. \A j \in 1..Len(wr) : ~InBatch(wr, j, w)
      BY <3>1 DEF Accounts
    <3> QED BY <2>1, <3>2, <3>3, <1>4, <1>6
  <2>2. CASE i # last
    <3>1. i \in 1..Len(wr) /\ InBatch(wr, i, w)
      BY <2>2, <1>4, <1>6, <1>9
    <3>2. /\ w \in ra /\ w \notin lo /\ w \notin ToSet(qu)
          /\ \A j \in 1..Len(wr) : InBatch(wr, j, w) => i = j
      BY <3>1 DEF Accounts
    <3> QED BY <3>2, <1>4, <1>5, <1>6
  <2> QED BY <2>1, <2>2
<1>10. \A i \in 1..Len(wn) : wn[i][1] = "warnings" => IsInjective(wn[i][2].for)
  BY <1>6 DEF Accounts
<1>11. ra \subseteq Warning /\ lo \subseteq ra
  BY DEF Accounts
<1> QED BY <1>1, <1>7, <1>8, <1>9, <1>10, <1>11 DEF Accounts

\* and after those that were queued are lost.
LEMMA AccountsLost ==
    ASSUME NEW wr, NEW qu, NEW lo, NEW ra, Accounts(wr, qu, lo, ra)
    PROVE  Accounts(wr, <<>>, lo \cup ToSet(qu), ra)
<1>1. ToSet(<<>>) = {} /\ <<>> \in Seq(ra) /\ IsInjective(<<>>)
  BY EmptySeq DEF ToSet, IsInjective
<1>2. ToSet(qu) \subseteq ra
  <2>1. qu \in Seq(ra)
    BY DEF Accounts
  <2>2. \A k \in DOMAIN qu : qu[k] \in ra
    BY <2>1
  <2> QED BY <2>2 DEF ToSet
<1> QED BY <1>1, <1>2 DEF Accounts

\* A flush writes one batch for all of them, or nothing when there is none.
LEMMA FlushKeeps ==
    ASSUME QueueInv, StreamTypes, StreamInv, Flush,
           mode' = mode, Captured => phase = "run" /\ phase' = phase
    PROVE  QueueInv' /\ StreamTypes' /\ StreamInv'
<1>1. QueueInv'
  <2>1. level' \in {-1, 0, 1, 2}
    BY DEF Flush, QueueInv
  <2> QED BY <2>1, TakenKeeps DEF Flush
<1>2. StreamTypes' /\ StreamInv'
  <2>1. CASE Flushes
    BY <2>1, BatchReports, EmitKeeps DEF Flush
  <2>2. CASE ~Flushes
    BY <2>2, QuietKeeps DEF Flush
  <2> QED BY <2>1, <2>2
<1> QED BY <1>1, <1>2

\* With it all that were queued are reported.
LEMMA FlushAccounts ==
    ASSUME QueueInv, StreamTypes, AccountInv, Flush, steps \in Nat, steps' \in Nat,
           steps <= steps', mode' = mode, phase' \in {"run", "idle"}
    PROVE  AccountInv'
<1>1. queued' = <<>> /\ raised' = raised /\ lost' = lost /\ failed' = failed
  BY DEF Flush
<1>2. Accounts(written', queued', lost', raised')
  <2>1. CASE Flushes
    <3>1. written' = Append(written, TheBatch)
      BY <2>1 DEF Flush, Emit
    <3>2. /\ TheBatch \in EventSet /\ TheBatch[1] = "warnings" /\ TheBatch[2].for = queued
      BY <2>1, BatchReports DEF DiagnosticSet
    <3>3. written \in Seq(EventSet) /\ Accounts(written, queued, lost, raised)
      BY DEF StreamTypes, AccountInv
    <3>4. Accounts(Append(written, TheBatch), <<>>, lost, raised)
      BY <3>2, <3>3, AccountsReported
    <3> QED BY <1>1, <3>1, <3>4
  <2>2. CASE ~Flushes
    <3>1. written' = written /\ queued = <<>>
      BY <2>2 DEF Flush, output, Flushes, QueueInv
    <3> QED BY <1>1, <3>1 DEF AccountInv
  <2> QED BY <2>1, <2>2
<1>3. \A w \in raised' : w[2] < steps'
  <2>1. \A w \in raised : w[2] < steps /\ w[2] \in Nat
    BY DEF AccountInv, Accounts, Warning
  <2> QED BY <1>1, <2>1
<1>4. ToSet(queued') = {}
  BY <1>1 DEF ToSet
<1> QED BY <1>1, <1>2, <1>3, <1>4 DEF AccountInv

\* The other steps of a program, which write no batch and queue nothing, do not
\* change where the warnings are.
LEMMA OtherAccounts ==
    ASSUME StreamTypes, AccountInv, UNCHANGED <<queued, raised, lost>>,
           \/ written' = written
           \/ \E e \in EventSet : e[1] # "warnings" /\ written' = Append(written, e),
           steps \in Nat, steps' \in Nat, steps <= steps', mode' = mode,
           failed \subseteq failed',
           \/ phase' = phase /\ statement' = statement
           \/ phase = "run" /\ phase' = "idle" /\ failed' = failed \cup {statement}
           \/ phase = "idle" /\ phase' = phase
           \/ mode # "embedded" /\ phase' # "ended"
    PROVE  AccountInv'
<1>1. Accounts(written', queued', lost', raised')
  BY AccountsOther DEF AccountInv, StreamTypes
<1>2. \A w \in raised' : w[2] < steps'
  <2>1. \A w \in raised : w[2] < steps /\ w[2] \in Nat
    BY DEF AccountInv, Accounts, Warning
  <2> QED BY <2>1
<1>3. \A w \in lost' : mode' = "embedded" /\ w[1] \in failed'
  BY DEF AccountInv
<1>4. /\ mode' = "embedded" /\ phase' = "run" => \A w \in ToSet(queued') : w[1] = statement'
      /\ mode' = "embedded" /\ phase' = "idle" => \A w \in ToSet(queued') : w[1] \in failed'
      /\ phase' = "ended" => queued' = <<>>
  BY DEF AccountInv
<1> QED BY <1>1, <1>2, <1>3, <1>4 DEF AccountInv

\* Warnings that no step touches stay as they are.
LEMMA WarningsUnchanged ==
    ASSUME QueueInv, UNCHANGED warns
    PROVE  QueueInv'
BY DEF QueueInv, warns, queues

\* So does the table of bodies.
LEMMA TableUnchanged ==
    ASSUME TableTypes, TableInv, UNCHANGED bodies
    PROVE  TableTypes' /\ TableInv'
BY DEF TableTypes, TableInv, bodies

-----------------------------------------------------------------------------
(* Function bodies *)

\* A function made by the code of a program in the table names that program's
\* body.
LEMMA FunctionFits ==
    ASSUME TableTypes, TableInv, NEW p \in DOMAIN mains, NEW b \in {0, 1}
    PROVE  LET f == Function(p, b, mains[p])
           IN  f \in FunctionSet /\ f.program = p /\ f.body = b /\ f.id = mains[p] + b
<1>1. mains[p] \in Nat /\ p \in Nat
  BY DEF TableTypes
<1> QED BY <1>1 DEF Function, FunctionSet

\* The body a function runs is the one it was made with.
LEMMA BodyIsTheTables ==
    ASSUME TableTypes, TableInv, NEW f \in functions
    PROVE  /\ f.program \in DOMAIN mains /\ f.body \in {0, 1}
           /\ f.id + 1 \in 1..Len(closures)
           /\ closures[f.id + 1] = Body(f.program, f.body, mains[f.program])
           /\ BodyOf(f.id) = closures[f.id + 1]
<1>1. f.program \in DOMAIN mains /\ f.id = mains[f.program] + f.body
  BY DEF TableInv
<1>2. f.body \in {0, 1} /\ mains[f.program] \in Nat
  BY <1>1 DEF TableTypes, FunctionSet
<1>3. f.id + 1 = mains[f.program] + f.body + 1
  BY <1>1, <1>2
<1>4. /\ f.id + 1 \in 1..Len(closures)
      /\ closures[f.id + 1] = Body(f.program, f.body, mains[f.program])
  BY <1>1, <1>2, <1>3 DEF TableInv
<1>5. BodyOf(f.id) = closures[f.id + 1]
  BY DEF BodyOf, TableInv
<1> QED BY <1>1, <1>2, <1>4, <1>5

\* A definition in the main code.
LEMMA DefineKeeps ==
    ASSUME TableTypes, TableInv, Define
    PROVE  TableTypes' /\ TableInv'
<1>1. UNCHANGED <<closures, parked, programs, mains>>
  BY DEF Define
<1>2. PICK p \in DOMAIN mains : functions' = functions \cup {Function(p, 0, mains[p])}
  BY DEF Define
<1> DEFINE g == Function(p, 0, mains[p])
<1>3. g \in FunctionSet /\ g.program = p /\ g.body = 0 /\ g.id = mains[p] + 0
  BY FunctionFits
<1> HIDE DEF g
<1>4. functions' = functions \cup {g}
  BY <1>2 DEF g
<1>5. functions' \subseteq FunctionSet
  BY <1>3, <1>4 DEF TableTypes
<1>6. \A f \in functions' : f.program \in DOMAIN mains /\ f.id = mains[f.program] + f.body
  BY <1>3, <1>4 DEF TableInv
<1>7. TableTypes'
  BY <1>1, <1>5 DEF TableTypes
<1> QED BY <1>1, <1>6, <1>7 DEF TableInv

\* A call, and the definition its body makes.
LEMMA CallKeeps ==
    ASSUME TableTypes, TableInv, CallFunction
    PROVE  TableTypes' /\ TableInv'
<1>1. UNCHANGED <<closures, programs, mains>>
  BY DEF CallFunction
<1>2. PICK f \in functions :
          /\ parked' = [i \in DOMAIN parked \cup {f.id + 1} |->
                            IF i = f.id + 1 THEN BodyOf(f.id) ELSE parked[i]]
          /\ functions' = IF BodyOf(f.id).body = 0
                          THEN functions \cup {Function(BodyOf(f.id).program, 1,
                                                        BodyOf(f.id).shift)}
                          ELSE functions
  BY DEF CallFunction
<1> DEFINE p == f.program
           g == Function(p, 1, mains[p])
<1>3. /\ p \in DOMAIN mains /\ f.id + 1 \in 1..Len(closures)
      /\ BodyOf(f.id) = closures[f.id + 1]
      /\ closures[f.id + 1] = Body(p, f.body, mains[p])
  BY BodyIsTheTables
<1>4. BodyOf(f.id).program = p /\ BodyOf(f.id).shift = mains[p]
  BY <1>3 DEF Body
<1>5. g \in FunctionSet /\ g.program = p /\ g.body = 1 /\ g.id = mains[p] + 1
  BY <1>3, FunctionFits
<1> HIDE DEF g
<1>6. functions' \subseteq functions \cup {g}
  BY <1>2, <1>4 DEF g
<1>7. functions' \subseteq FunctionSet
  BY <1>5, <1>6 DEF TableTypes
<1>8. \A h \in functions' : h.program \in DOMAIN mains /\ h.id = mains[h.program] + h.body
  BY <1>3, <1>5, <1>6 DEF TableInv
<1>9. DOMAIN parked' \subseteq 1..Len(closures)
  BY <1>2, <1>3 DEF TableInv
<1>10. \A i \in DOMAIN parked' : parked'[i] = closures[i]
  BY <1>2, <1>3 DEF TableInv
<1>11. TableTypes'
  BY <1>1, <1>7 DEF TableTypes
<1> QED BY <1>1, <1>8, <1>9, <1>10, <1>11 DEF TableInv

\* A program added to the table after the bodies that stand there.
LEMMA CompileKeeps ==
    ASSUME TableTypes, TableInv, Compile
    PROVE  TableTypes' /\ TableInv'
<1> DEFINE n == Len(closures)
           p == programs + 1
<1>1. /\ programs \in Nat /\ p \in Nat /\ n \in Nat /\ closures \in Seq(BodySet)
      /\ mains \in [DOMAIN mains -> Nat] /\ DOMAIN mains \subseteq 1..programs
      /\ p \notin DOMAIN mains /\ functions \subseteq FunctionSet
  BY DEF TableTypes
<1>2. /\ programs' = p
      /\ closures' = closures \o <<Body(p, 0, n), Body(p, 1, n)>>
      /\ mains' = [q \in DOMAIN mains \cup {p} |-> IF q = p THEN n ELSE mains[q]]
      /\ parked' = parked /\ functions' = functions
  BY DEF Compile, Shifted, BodiesOf
<1>3. PICK two : two = <<Body(p, 0, n), Body(p, 1, n)>>
  OBVIOUS
<1>4. two \in Seq(BodySet) /\ Len(two) = 2 /\ \A b \in {0, 1} : two[b + 1] = Body(p, b, n)
  BY <1>1, <1>3 DEF Body, BodySet
<1>5. /\ closures' \in Seq(BodySet) /\ Len(closures') = n + 2
      /\ \A i \in 1..n : closures'[i] = closures[i]
      /\ closures'[n + 1] = Body(p, 0, n) /\ closures'[n + 2] = Body(p, 1, n)
  <2>1. closures' = closures \o two
    BY <1>2, <1>3
  <2>2. /\ closures' \in Seq(BodySet) /\ Len(closures') = n + 2
        /\ \A i \in 1..(n + 2) : closures'[i] = IF i <= n THEN closures[i] ELSE two[i - n]
    <3>1. closures \in Seq(BodySet) /\ two \in Seq(BodySet)
      BY <1>1, <1>4
    <3>2. /\ closures \o two \in Seq(BodySet)
          /\ Len(closures \o two) = Len(closures) + Len(two)
          /\ \A i \in 1..(Len(closures) + Len(two)) :
                 (closures \o two)[i] = IF i <= Len(closures) THEN closures[i]
                                                             ELSE two[i - Len(closures)]
      BY <3>1, ConcatProperties
    <3>3. Len(two) = 2
      BY <1>4
    <3> QED BY <2>1, <3>2, <3>3
  <2>3. \A i \in 1..n : closures'[i] = closures[i]
    BY <1>1, <2>2
  <2>4. closures'[n + 1] = two[1]
    BY <1>1, <2>2, SMTT(30)
  <2>5. closures'[n + 2] = two[2]
    BY <1>1, <2>2
  <2>6. two[1] = Body(p, 0, n) /\ two[2] = Body(p, 1, n)
    BY <1>3
  <2> QED BY <2>2, <2>3, <2>4, <2>5, <2>6
<1>6. /\ DOMAIN mains' = DOMAIN mains \cup {p} /\ mains'[p] = n
      /\ \A q \in DOMAIN mains : mains'[q] = mains[q]
  BY <1>1, <1>2
<1>7. /\ \A b \in {0, 1} : closures'[n + b + 1] = Body(p, b, n)
      /\ \A b \in {0, 1} : n + b + 1 \in 1..(n + 2)
  BY <1>1, <1>5
<1>8. ASSUME NEW q \in DOMAIN mains', NEW b \in {0, 1}
      PROVE  /\ mains'[q] + b + 1 \in 1..Len(closures')
             /\ closures'[mains'[q] + b + 1] = Body(q, b, mains'[q])
  <2>1. CASE q = p
    BY <2>1, <1>5, <1>6, <1>7
  <2>2. CASE q # p
    <3>1. q \in DOMAIN mains /\ mains'[q] = mains[q]
      BY <2>2, <1>6
    <3>2. /\ mains[q] + b + 1 \in 1..n
          /\ closures[mains[q] + b + 1] = Body(q, b, mains[q])
      BY <3>1 DEF TableInv
    <3> QED BY <3>1, <3>2, <1>1, <1>5
  <2> QED BY <2>1, <2>2
<1>9. ASSUME NEW i \in 1..Len(closures')
      PROVE  /\ closures'[i].program \in DOMAIN mains'
             /\ i = mains'[closures'[i].program] + closures'[i].body + 1
  <2>1. CASE i \in 1..n
    <3>1. /\ closures'[i] = closures[i] /\ closures[i].program \in DOMAIN mains
          /\ i = mains[closures[i].program] + closures[i].body + 1
      BY <2>1, <1>5 DEF TableInv
    <3> QED BY <3>1, <1>6
  <2>2. CASE i = n + 1
    BY <2>2, <1>1, <1>5, <1>6 DEF Body
  <2>3. CASE i = n + 2
    BY <2>3, <1>1, <1>5, <1>6 DEF Body
  <2> QED BY <2>1, <2>2, <2>3, <1>1, <1>5
<1>10. \A f \in functions :
           f.program \in DOMAIN mains' /\ f.id = mains'[f.program] + f.body
  BY <1>6 DEF TableInv
<1>11. DOMAIN parked \subseteq 1..Len(closures')
  BY <1>1, <1>5 DEF TableInv
<1>12. \A i \in DOMAIN parked : parked[i] = closures'[i]
  BY <1>5 DEF TableInv
<1>13. TableTypes'
  <2>1. mains' \in [DOMAIN mains' -> Nat] /\ DOMAIN mains' \subseteq 1..p
    <3>1. \A q \in DOMAIN mains' : mains'[q] \in Nat
      BY <1>1, <1>6
    <3>2. DOMAIN mains' \subseteq 1..p
      <4>1. \A q \in 1..programs : q \in 1..p
        BY <1>1
      <4>2. p \in 1..p
        BY <1>1
      <4> QED BY <4>1, <4>2, <1>1, <1>6
    <3> QED BY <1>2, <3>1, <3>2
  <2> QED BY <2>1, <1>1, <1>2, <1>5 DEF TableTypes
<1> QED BY <1>2, <1>8, <1>9, <1>10, <1>11, <1>12, <1>13 DEF TableInv

\* A table started anew.
LEMMA StartsAnew ==
    ASSUME NEW p \in Nat \ {0}
    PROVE  LET cs == BodiesOf(p, 0, 0)
           IN  /\ cs \in Seq(BodySet) /\ Len(cs) = 2
               /\ cs[1] = Body(p, 0, 0) /\ cs[2] = Body(p, 1, 0)
BY DEF BodiesOf, Body, BodySet

\* Reset and loaded with one program, the table is that program's; it is empty
\* when there is no program to load.
LEMMA ReloadKeeps ==
    ASSUME TableTypes, TableInv, Reload
    PROVE  TableTypes' /\ TableInv'
<1> DEFINE p == programs + 1
<1>1. p \in Nat \ {0} /\ programs \in Nat
  BY DEF TableTypes
<1>2. functions' = {} /\ parked' = [i \in {} |-> 0] /\ DOMAIN parked' = {}
  BY DEF Reload
<1>3. CASE Loaded(p)
  <2>1. programs' = p /\ closures' = BodiesOf(p, 0, 0) /\ mains' = [q \in {p} |-> 0]
    BY <1>3 DEF Loaded
  <2>2. /\ closures' \in Seq(BodySet) /\ Len(closures') = 2
        /\ closures'[1] = Body(p, 0, 0) /\ closures'[2] = Body(p, 1, 0)
    BY <1>1, <2>1, StartsAnew
  <2> HIDE DEF p
  <2>3. TableTypes'
    BY <1>1, <1>2, <2>1, <2>2 DEF TableTypes
  <2>4. mains'[p] = 0 /\ DOMAIN mains' = {p}
    BY <2>1
  <2>5. ASSUME NEW b \in {0, 1}
        PROVE  0 + b + 1 \in 1..Len(closures') /\ closures'[0 + b + 1] = Body(p, b, 0)
    BY <2>2
  <2>6. ASSUME NEW i \in 1..Len(closures')
        PROVE  closures'[i].program \in {p} /\ i = 0 + closures'[i].body + 1
    BY <2>2 DEF Body
  <2> QED BY <1>2, <2>1, <2>3, <2>4, <2>5, <2>6 DEF TableInv
<1>4. CASE Refused
  <2>1. programs' = programs /\ closures' = <<>> /\ mains' = [q \in {} |-> 0]
    BY <1>4 DEF Refused
  <2>2. DOMAIN mains' = {} /\ Len(closures') = 0 /\ closures' \in Seq(BodySet)
    BY <2>1, EmptySeq
  <2>3. mains' \in [DOMAIN mains' -> Nat]
    BY <2>1
  <2>4. TableTypes'
    BY <1>1, <1>2, <2>1, <2>2, <2>3 DEF TableTypes
  <2> QED BY <1>2, <2>2, <2>4 DEF TableInv
<1> QED BY <1>3, <1>4 DEF Reload

-----------------------------------------------------------------------------
(* How a program ends *)

\* What is shown at the end, after what was replayed, is written too; it is all
\* diagnostics.
LEMMA EndKeeps ==
    ASSUME StreamTypes, StreamInv, phase = "run", phase' = "ended",
           mode' = mode, NEW rest \in Seq(DiagnosticSet),
           Shows(Replayed \o rest), written' = written \o rest,
           unflushed' = <<>>, file' = <<>>, held' = <<>>
    PROVE  StreamTypes' /\ StreamInv'
<1>1. /\ Replayed \in Seq(EventSet) /\ written \in Seq(EventSet) /\ screen \in Seq(EventSet)
      /\ unflushed \in Seq(EventSet) /\ Replayed = Replay(held, Output)
  BY StreamFacts DEF StreamTypes
<1>2. DiagnosticSet \subseteq EventSet
  BY DEF DiagnosticSet
<1>3. rest \in Seq(EventSet)
  BY <1>2, SeqMonotonic
<1>4. Replayed \o rest \in Seq(EventSet) /\ written \o rest \in Seq(EventSet)
  BY <1>1, <1>3
<1>5. screen' \in Seq(EventSet) /\ screen' = screen \o (Replayed \o rest)
  BY <1>1, <1>4 DEF Shows
<1>6. StreamTypes'
  <2>1. <<>> \in Seq(EventSet) /\ <<>> \in Seq(Nat \X EventSet)
    BY EmptySeq
  <2> QED BY <1>4, <1>5, <2>1 DEF StreamTypes
<1>7. CASE Captured
  <2>1. screen = <<>> /\ Replayed = written /\ Captured'
    BY <1>7 DEF StreamInv, Captured
  <2>2. screen' = written'
    BY <2>1, <1>4, <1>5
  <2> QED BY <2>1, <2>2, <1>6 DEF StreamInv
<1>8. CASE ~Captured
  <2>1. /\ file = <<>> /\ held = <<>> /\ unflushed \in Seq(OutSet) /\ ~Captured'
        /\ Of(screen, {"out"}) \o unflushed = Of(written, {"out"})
        /\ Of(screen, Diagnostics) = Of(written, Diagnostics)
    BY <1>8 DEF StreamInv, Captured
  <2>2. Replayed = unflushed
    <3>1. Output = unflushed
      BY <1>1, <2>1 DEF Output
    <3> QED BY <1>1, <2>1, <3>1, ReplayOutput
  <2>4. PICK shown : shown = screen \o unflushed
    OBVIOUS
  <2>5. /\ shown \in Seq(EventSet)
        /\ Of(shown, {"out"}) = Of(written, {"out"})
        /\ Of(shown, Diagnostics) = Of(written, Diagnostics)
    BY <2>1, <2>4, <1>1, OutputsAdd
  <2>6. screen' = shown \o rest
    <3>1. (screen \o unflushed) \o rest = screen \o (unflushed \o rest)
      BY <1>1, <1>3, ConcatAssociative
    <3> QED BY <3>1, <2>2, <2>4, <1>5
  <2>7. /\ Of(screen', {"out"}) = Of(shown, {"out"})
        /\ Of(screen', Diagnostics) = Of(shown, Diagnostics) \o rest
    BY <2>5, <2>6, DiagnosticsAdd
  <2>8. /\ Of(written', {"out"}) = Of(written, {"out"})
        /\ Of(written', Diagnostics) = Of(written, Diagnostics) \o rest
    BY <1>1, DiagnosticsAdd
  <2>9. Of(screen', {"out"}) \o unflushed' = Of(screen', {"out"})
    <3>1. Event("out", 0) \in EventSet
      BY DEF Event, EventSet
    <3>2. Of(screen', {"out"}) \in Seq(EventSet)
      BY <1>5, <3>1, OfAppend
    <3> QED BY <3>2
  <2>10. unflushed' \in Seq(OutSet)
    BY EmptySeq
  <2> QED BY <2>1, <2>5, <2>7, <2>8, <2>9, <2>10, <1>6 DEF StreamInv
<1> QED BY <1>7, <1>8

\* A script that fails where embedded R is there shows nothing of its own, unless
\* it was not captured; then it shows the line it had kept.
LEMMA HandedToR ==
    ASSUME StreamTypes, StreamInv, phase = "run", phase' = "inR", mode' = mode,
           Shows(<<Event("R", 0)>> \o (IF Captured THEN <<>> ELSE unflushed)),
           unflushed' = <<>>, file' = <<>>, held' = <<>>, written' = written
    PROVE  StreamTypes' /\ StreamInv'
<1> DEFINE r == Event("R", 0)
<1>1. /\ screen \in Seq(EventSet) /\ written \in Seq(EventSet)
      /\ unflushed \in Seq(EventSet)
  BY DEF StreamTypes
<1>2. r \in EventSet /\ r[1] = "R"
  BY DEF Event, EventSet
<1> HIDE DEF r
<1>3. /\ <<>> \in Seq(EventSet) /\ <<>> \in Seq(Nat \X EventSet) /\ <<>> \in Seq(OutSet)
      /\ <<r>> \in Seq(EventSet)
  BY <1>2, EmptySeq
<1>4. CASE Captured
  <2>1. screen = <<>> /\ Captured'
    BY <1>4 DEF StreamInv, Captured
  <2>2. screen' = <<r>>
    BY <1>3, <1>4, <2>1 DEF Shows, r
  <2>3. StreamTypes'
    BY <1>1, <1>3, <2>2 DEF StreamTypes
  <2> QED BY <2>1, <2>2, <2>3 DEF StreamInv, r
<1>5. CASE ~Captured
  <2>1. /\ unflushed \in Seq(OutSet) /\ ~Captured'
        /\ Of(screen, {"out"}) \o unflushed = Of(written, {"out"})
        /\ Of(screen, Diagnostics) = Of(written, Diagnostics)
    BY <1>5 DEF StreamInv, Captured
  <2>2. PICK shown : shown = Append(screen, r)
    OBVIOUS
  <2>3. /\ shown \in Seq(EventSet)
        /\ Of(shown, {"out"}) = Of(screen, {"out"})
        /\ Of(shown, Diagnostics) = Of(screen, Diagnostics)
    BY <1>1, <1>2, <2>2, OneAdds
  <2>4. screen' = shown \o unflushed
    <3>1. screen' = screen \o (<<r>> \o unflushed)
      BY <1>5 DEF Shows, r
    <3>2. (screen \o <<r>>) \o unflushed = screen \o (<<r>> \o unflushed)
      BY <1>1, <1>3, ConcatAssociative
    <3>3. shown = screen \o <<r>>
      BY <1>1, <1>2, <2>2, AppendIsConcat
    <3> QED BY <3>1, <3>2, <3>3
  <2>6. /\ screen' \in Seq(EventSet)
        /\ Of(screen', {"out"}) = Of(written, {"out"})
        /\ Of(screen', Diagnostics) = Of(written, Diagnostics)
    BY <2>1, <2>3, <2>4, OutputsAdd
  <2>7. Of(screen', {"out"}) \o unflushed' = Of(screen', {"out"})
    <3>1. Of(screen', {"out"}) \in Seq(EventSet)
      BY <1>2, <2>6, OfAppend
    <3> QED BY <3>1
  <2>8. StreamTypes'
    BY <1>1, <1>3, <2>6 DEF StreamTypes
  <2> QED BY <1>3, <2>1, <2>6, <2>7, <2>8 DEF StreamInv
<1> QED BY <1>4, <1>5

\* A script's last warnings are reported at its end, after its error if it had one.
LEMMA EndAccounts ==
    ASSUME QueueInv, StreamTypes, AccountInv, phase' = "ended", mode' = mode,
           steps \in Nat, steps' = steps, NEW first \in Seq(EventSet),
           first = <<>> \/ \E e \in EventSet : e[1] # "warnings" /\ first = <<e>>,
           ShowsTheRest(first), queued' = <<>>, UNCHANGED <<raised, lost, failed>>
    PROVE  AccountInv'
<1>1. written \in Seq(EventSet) /\ Accounts(written, queued, lost, raised)
  BY DEF StreamTypes, AccountInv
<1>2. PICK wr : wr = written \o first
  OBVIOUS
<1>3. wr \in Seq(EventSet) /\ Accounts(wr, queued, lost, raised)
  <2>1. CASE first = <<>>
    BY <1>1, <1>2, <2>1
  <2>2. CASE \E e \in EventSet : e[1] # "warnings" /\ first = <<e>>
    <3>1. PICK e \in EventSet : e[1] # "warnings" /\ first = <<e>>
      BY <2>2
    <3>2. wr = Append(written, e)
      BY <1>1, <1>2, <3>1, AppendIsConcat
    <3> QED BY <1>1, <3>1, <3>2, AccountsOther
  <2> QED BY <2>1, <2>2
<1>4. Accounts(written', <<>>, lost, raised)
  <2>1. CASE Flushes
    <3>1. written' = written \o (first \o <<TheBatch>>)
      BY <2>1 DEF ShowsTheRest
    <3>2. /\ TheBatch \in EventSet /\ TheBatch[1] = "warnings" /\ TheBatch[2].for = queued
      BY <2>1, BatchReports DEF DiagnosticSet
    <3>3. written' = Append(wr, TheBatch)
      <4>1. PICK b : b = TheBatch
        OBVIOUS
      <4>2. <<b>> \in Seq(EventSet)
        BY <4>1, <3>2
      <4>3. (written \o first) \o <<b>> = written \o (first \o <<b>>)
        BY <4>2, <1>1, ConcatAssociative
      <4>4. Append(wr, b) = wr \o <<b>>
        BY <4>1, <3>2, <1>3, AppendIsConcat
      <4> QED BY <4>1, <4>3, <4>4, <1>2, <3>1
    <3>4. Accounts(Append(wr, TheBatch), <<>>, lost, raised)
      BY <1>3, <3>2, AccountsReported
    <3> QED BY <3>3, <3>4
  <2>2. CASE ~Flushes
    <3>1. written' = written \o (first \o <<>>) /\ queued = <<>>
      BY <2>2 DEF ShowsTheRest, Flushes, QueueInv
    <3>2. first \o <<>> = first
      OBVIOUS
    <3> QED BY <3>1, <3>2, <1>2, <1>3
  <2> QED BY <2>1, <2>2
<1>5. ToSet(queued') = {}
  BY DEF ToSet
<1> QED BY <1>4, <1>5 DEF AccountInv

-----------------------------------------------------------------------------
(* The steps *)

\* What the program's own events are.
LEMMA EventIs ==
    ASSUME NEW kind \in {"out", "warning", "error", "R"}, NEW n \in Nat
    PROVE  Event(kind, n) \in EventSet
BY DEF Event, EventSet

\* The invariant holds at the start.
LEMMA InitInv == Init => IInv
<1> SUFFICES ASSUME Init PROVE IInv
  OBVIOUS
<1>1. /\ closures = BodiesOf(1, 0, 0) /\ parked = [i \in {} |-> 0]
      /\ functions = {} /\ programs = 1 /\ mains = [p \in {1} |-> 0]
      /\ level = 0 /\ warnings = <<>> /\ warnCount = 0 /\ queued = <<>>
      /\ unflushed = <<>> /\ file = <<>> /\ held = <<>> /\ screen = <<>> /\ written = <<>>
      /\ raised = {} /\ lost = {} /\ failed = {}
      /\ phase = "run"
  BY DEF Init
<1>2. QueueInv
  <2>1. Capped(Len(queued)) = 0 /\ Len(queued) = 0 /\ queued \in Seq(Warning)
    BY <1>1, SessionAssumption DEF Capped
  <2>2. warnings = SubSeq(queued, 1, 0)
    BY <1>1
  <2> QED BY <1>1, <2>1, <2>2 DEF QueueInv
<1>3. StreamTypes
  BY <1>1 DEF StreamTypes
<1>4. StreamInv
  <2>1. Output = <<>>
    BY <1>1 DEF Output
  <2>2. Replayed = <<>>
    BY <1>1, <2>1, ReplayedIs, ReplayOutput, EmptySeq
  <2>3. Event("out", 0) \in EventSet
    BY DEF Event, EventSet
  <2>4. Of(<<>>, {"out"}) = <<>> /\ <<>> \in Seq(OutSet)
    BY <2>3, EmptySeq, OfAppend
  <2> QED BY <1>1, <2>2, <2>4 DEF StreamInv
<1>5. TableTypes /\ TableInv
  <2>1. /\ closures \in Seq(BodySet) /\ Len(closures) = 2
        /\ closures[1] = Body(1, 0, 0) /\ closures[2] = Body(1, 1, 0)
    BY <1>1, StartsAnew
  <2>2. mains[1] = 0 /\ DOMAIN mains = {1} /\ DOMAIN parked = {}
    BY <1>1
  <2>3. TableTypes
    BY <1>1, <2>1, <2>2 DEF TableTypes
  <2>4. ASSUME NEW b \in {0, 1}
        PROVE  0 + b + 1 \in 1..Len(closures) /\ closures[0 + b + 1] = Body(1, b, 0)
    BY <2>1
  <2>5. ASSUME NEW i \in 1..Len(closures)
        PROVE  closures[i].program \in {1} /\ i = 0 + closures[i].body + 1
    BY <2>1 DEF Body
  <2> QED BY <1>1, <2>2, <2>3, <2>4, <2>5 DEF TableInv
<1>6. AccountInv
  <2>1. <<>> \in Seq(raised) /\ ToSet(<<>>) = {} /\ IsInjective(<<>>)
    BY EmptySeq DEF ToSet, IsInjective
  <2>2. Accounts(<<>>, <<>>, {}, {})
    BY <2>1, <1>1 DEF Accounts
  <2> QED BY <1>1, <2>1, <2>2 DEF AccountInv
<1> QED BY <1>2, <1>3, <1>4, <1>5, <1>6 DEF IInv, Init

\* The parts of the state that every step of the program's code treats alike.
LEMMA StepTypes ==
    ASSUME IInv, Step
    PROVE  /\ phase = "run" /\ phase' = phase /\ mode' = mode /\ hasR' = hasR
           /\ mode' \in Modes /\ hasR' \in BOOLEAN
           /\ phase' \in {"run", "idle", "ended", "inR"}
           /\ steps \in Nat /\ steps' \in Nat /\ steps' = steps + 1 /\ steps <= steps'
           /\ statement \in Nat /\ statement + 1 \in Nat
<1>1. /\ phase = "run" /\ phase' = phase /\ mode' = mode /\ hasR' = hasR
      /\ mode \in Modes /\ hasR \in BOOLEAN /\ steps \in Nat /\ statement \in Nat
      /\ steps' = steps + 1
  BY DEF IInv, Step
<1> QED BY <1>1

\* So are those of the streams and the warnings, by a step that writes no batch,
\* queues nothing and stays in its statement.
LEMMA StepAccounts ==
    ASSUME IInv, Step, statement' = statement, UNCHANGED queues,
           \/ written' = written
           \/ \E e \in EventSet : e[1] # "warnings" /\ written' = Append(written, e)
    PROVE  AccountInv'
<1>1. /\ steps \in Nat /\ steps' \in Nat /\ steps <= steps'
      /\ mode' = mode /\ phase' = phase
  BY StepTypes
<1>2. UNCHANGED <<queued, raised, lost>> /\ failed \subseteq failed'
  BY DEF queues
<1> QED BY <1>1, <1>2, OtherAccounts DEF IInv

\* Output.
LEMMA WriteInv == ASSUME IInv, Write PROVE IInv'
<1>1. Step /\ Writes(Event("out", steps)) /\ statement' = statement
      /\ UNCHANGED warns /\ UNCHANGED bodies
  BY DEF Write
<1>2. Event("out", steps) \in OutSet
  BY <1>1, StepTypes DEF Event, OutSet
<1>3. StreamTypes' /\ StreamInv'
  BY <1>1, <1>2, StepTypes, WritesKeep DEF IInv
<1>4. QueueInv' /\ TableTypes' /\ TableInv'
  BY <1>1, WarningsUnchanged, TableUnchanged DEF IInv
<1>5. AccountInv'
  <2>1. PICK e : e = Event("out", steps)
    OBVIOUS
  <2>2. e \in EventSet /\ e[1] # "warnings" /\ written' = Append(written, e)
    BY <1>1, <1>2, <2>1 DEF Writes, OutSet, EventSet
  <2>3. UNCHANGED queues
    BY <1>1 DEF warns
  <2> QED BY <1>1, <2>2, <2>3, StepAccounts
<1> QED BY <1>1, <1>3, <1>4, <1>5, StepTypes DEF IInv

\* options(warn = ).
LEMMA SetLevelInv == ASSUME IInv, SetLevel PROVE IInv'
<1>1. Step /\ level' \in {-1, 0, 1, 2} /\ statement' = statement
      /\ UNCHANGED output /\ UNCHANGED queues /\ UNCHANGED bodies
  BY DEF SetLevel
<1>2. QueueInv'
  BY <1>1 DEF IInv, QueueInv, queues
<1>3. StreamTypes' /\ StreamInv' /\ TableTypes' /\ TableInv'
  BY <1>1, StepTypes, QuietKeeps, TableUnchanged DEF IInv
<1>4. AccountInv'
  BY <1>1, StepAccounts DEF output
<1> QED BY <1>1, <1>2, <1>3, <1>4, StepTypes DEF IInv

\* An error ends a script, or the line or the call that raised it.
LEMMA FailsInv == ASSUME IInv, phase = "run", Fails PROVE IInv'
<1>1. /\ mode \in Modes /\ hasR \in BOOLEAN /\ steps \in Nat /\ statement \in Nat
      /\ QueueInv /\ AccountInv /\ StreamTypes /\ StreamInv /\ TableTypes /\ TableInv
      /\ level \in {-1, 0, 1, 2}
  BY DEF IInv, QueueInv
<1>2. Halted \in DiagnosticSet /\ Halted \in EventSet /\ Halted[1] # "warnings"
  BY <1>1 DEF Halted, Event, DiagnosticSet, Diagnostics, EventSet
<1>3. CASE IsScript /\ hasR /\ Ends("inR")
           /\ Shows(<<Event("R", 0)>> \o (IF Captured THEN <<>> ELSE unflushed))
           /\ UNCHANGED <<written, warnings, warnCount, queued>>
  <2>1. StreamTypes' /\ StreamInv'
    BY <1>1, <1>3, HandedToR DEF Ends
  <2>2. QueueInv' /\ TableTypes' /\ TableInv'
    BY <1>1, <1>3, WarningsUnchanged, TableUnchanged DEF Ends, warns, queues
  <2>3. AccountInv'
    <3>1. /\ mode # "embedded" /\ phase' # "ended" /\ mode' = mode /\ steps' = steps
          /\ UNCHANGED <<queued, raised, lost>> /\ failed \subseteq failed' /\ written' = written
      BY <1>3 DEF IsScript, Ends
    <3>2. steps <= steps'
      BY <1>1, <3>1
    <3> QED BY <1>1, <3>1, <3>2, OtherAccounts
  <2> QED BY <1>1, <1>3, <2>1, <2>2, <2>3 DEF IInv, Ends
<1>4. CASE IsScript /\ ~hasR /\ Ends("ended") /\ ShowsTheRest(<<Halted>>)
           /\ Taken /\ queued' = <<>>
  <2> DEFINE rest == <<Halted>> \o (IF Flushes THEN <<TheBatch>> ELSE <<>>)
  <2>1. rest \in Seq(DiagnosticSet)
    BY <1>1, <1>2, BatchReports
  <2>2. Shows(Replayed \o rest) /\ written' = written \o rest
    BY <1>4 DEF ShowsTheRest
  <2> HIDE DEF rest
  <2>3. StreamTypes' /\ StreamInv'
    BY <1>1, <1>4, <2>1, <2>2, EndKeeps DEF Ends
  <2>4. QueueInv' /\ TableTypes' /\ TableInv'
    BY <1>1, <1>4, TakenKeeps, TableUnchanged DEF Ends
  <2>5. AccountInv'
    <3>1. PICK first : first = <<Halted>>
      OBVIOUS
    <3>2. first \in Seq(EventSet) /\ \E e \in EventSet : e[1] # "warnings" /\ first = <<e>>
      BY <1>2, <3>1
    <3>3. /\ phase' = "ended" /\ mode' = mode /\ steps' = steps
          /\ UNCHANGED <<raised, lost, failed>> /\ ShowsTheRest(first) /\ queued' = <<>>
      BY <1>4, <3>1 DEF Ends
    <3> QED BY <1>1, <3>2, <3>3, EndAccounts
  <2> QED BY <1>1, <1>4, <2>3, <2>4, <2>5 DEF IInv, Ends
<1>5. CASE LineFails
  <2>1. /\ ~Captured /\ mode' = mode /\ hasR' = hasR /\ phase' = "idle"
        /\ steps' = steps + 1 /\ statement' = statement /\ level' = level
        /\ UNCHANGED <<warnings, warnCount, queued, raised, lost>>
        /\ failed' = failed \cup {statement} /\ UNCHANGED bodies
        /\ Emit(Halted) \/ UNCHANGED output
    BY <1>5 DEF LineFails, IsScript, Captured
  <2>2. StreamTypes' /\ StreamInv'
    BY <1>1, <1>2, <2>1, EmitKeeps, QuietKeeps
  <2>3. QueueInv' /\ TableTypes' /\ TableInv'
    BY <1>1, <2>1, TableUnchanged DEF QueueInv
  <2>4. AccountInv'
    <3>1. written' = Append(written, Halted) \/ written' = written
      BY <2>1 DEF Emit, output
    <3>2. steps + 1 \in Nat /\ steps <= steps + 1
      BY <1>1
    <3> QED BY <1>1, <1>2, <2>1, <3>1, <3>2, OtherAccounts
  <2> QED BY <1>1, <2>1, <2>2, <2>3, <2>4 DEF IInv
<1> QED BY <1>3, <1>4, <1>5 DEF Fails, ScriptFails

\* A warning that is queued is one more that is to be reported.
LEMMA QueueAccounts ==
    ASSUME IInv, Step, statement' = statement, Queue(<<statement, steps>>),
           written' = written
    PROVE  AccountInv'
<1> DEFINE v == <<statement, steps>>
<1>1. /\ queued' = Append(queued, v) /\ raised' = raised \cup {v}
      /\ UNCHANGED <<lost, failed>>
  BY DEF Queue
<1>2. /\ phase = "run" /\ phase' = phase /\ mode' = mode /\ steps' = steps + 1
      /\ steps \in Nat /\ statement \in Nat /\ AccountInv
  BY StepTypes DEF IInv
<1>3. v \in Warning /\ v[1] = statement /\ v[2] = steps
  BY <1>2 DEF Warning
<1> HIDE DEF v
<1>4. \A w \in raised : w[2] < steps /\ w[2] \in Nat
  BY <1>2 DEF AccountInv, Accounts, Warning
<1>5. v \notin raised
  BY <1>2, <1>3, <1>4
<1>6. Accounts(written, queued, lost, raised)
  BY <1>2 DEF AccountInv
<1>7. Accounts(written, queued', lost', raised')
  <2>1. Accounts(written, Append(queued, v), lost, raised \cup {v})
    BY <1>3, <1>5, <1>6, AccountsQueued
  <2> QED BY <1>1, <2>1
<1>8. \A w \in raised' : w[2] < steps'
  BY <1>1, <1>2, <1>3, <1>4
<1>9. \A w \in ToSet(queued') : w \in ToSet(queued) \/ w = v
  <2>1. queued \in Seq(raised)
    BY <1>6 DEF Accounts
  <2>2. DOMAIN Append(queued, v) = 1..(Len(queued) + 1) /\ DOMAIN queued = 1..Len(queued)
    BY <2>1
  <2>3. \A i \in 1..(Len(queued) + 1) :
            \/ Append(queued, v)[i] = v
            \/ i \in 1..Len(queued) /\ Append(queued, v)[i] = queued[i]
    BY <2>1
  <2> QED BY <1>1, <2>2, <2>3 DEF ToSet
<1>10. mode' = "embedded" => \A w \in ToSet(queued') : w[1] = statement'
  BY <1>2, <1>3, <1>9 DEF AccountInv
<1>11. \A w \in lost' : mode' = "embedded" /\ w[1] \in failed'
  BY <1>1, <1>2 DEF AccountInv
<1> QED BY <1>2, <1>7, <1>8, <1>10, <1>11 DEF AccountInv

\* A warning is dropped, queued, shown, or an error.
LEMMA WarnInv == ASSUME IInv, Warn PROVE IInv'
<1>1. CASE Step /\ UNCHANGED <<level, statement, bodies>> /\ level = -1
           /\ UNCHANGED <<output, queues>>
  <2>1. QueueInv' /\ TableTypes' /\ TableInv'
    BY <1>1, WarningsUnchanged, TableUnchanged DEF IInv, warns
  <2>2. StreamTypes' /\ StreamInv'
    BY <1>1, StepTypes, QuietKeeps DEF IInv
  <2>3. AccountInv'
    BY <1>1, StepAccounts DEF output
  <2> QED BY <1>1, <2>1, <2>2, <2>3, StepTypes DEF IInv
<1>2. CASE Step /\ UNCHANGED <<level, statement, bodies>>
           /\ Queue(<<statement, steps>>) /\ UNCHANGED output
  <2>1. <<statement, steps>> \in Warning
    BY <1>2, StepTypes DEF Warning
  <2>2. QueueInv' /\ TableTypes' /\ TableInv'
    BY <1>2, <2>1, QueueKeeps, TableUnchanged DEF IInv
  <2>3. StreamTypes' /\ StreamInv'
    BY <1>2, StepTypes, QuietKeeps DEF IInv
  <2>4. AccountInv'
    BY <1>2, QueueAccounts DEF output
  <2> QED BY <1>2, <2>2, <2>3, <2>4, StepTypes DEF IInv
<1>3. CASE Step /\ UNCHANGED <<level, statement, bodies>> /\ Emit(Event("warning", steps))
           /\ UNCHANGED queues
  <2>1. PICK e : e = Event("warning", steps)
    OBVIOUS
  <2>2. e \in DiagnosticSet /\ e \in EventSet /\ e[1] # "warnings"
    BY <1>3, <2>1, StepTypes DEF Event, DiagnosticSet, Diagnostics, EventSet
  <2>3. QueueInv' /\ TableTypes' /\ TableInv'
    BY <1>3, WarningsUnchanged, TableUnchanged DEF IInv, warns
  <2>4. StreamTypes' /\ StreamInv'
    BY <1>3, <2>1, <2>2, StepTypes, EmitKeeps DEF IInv
  <2>5. AccountInv'
    BY <1>3, <2>1, <2>2, StepAccounts DEF Emit
  <2> QED BY <1>3, <2>3, <2>4, <2>5, StepTypes DEF IInv
<1>4. CASE phase = "run" /\ level = 2 /\ Fails
  BY <1>4, FailsInv
<1> QED BY <1>1, <1>2, <1>3, <1>4 DEF Warn

\* The end of a statement, of a line and of an embedder's program.
LEMMA EndStatementInv == ASSUME IInv, EndStatement \/ LineEnds PROVE IInv'
<1>1. CASE EndStatement
  <2>1. Step /\ Flush /\ statement' = statement + 1 /\ UNCHANGED bodies
    BY <1>1 DEF EndStatement
  <2>2. QueueInv' /\ StreamTypes' /\ StreamInv' /\ TableTypes' /\ TableInv'
    BY <2>1, StepTypes, FlushKeeps, TableUnchanged DEF IInv
  <2>3. AccountInv'
    BY <2>1, StepTypes, FlushAccounts DEF IInv
  <2> QED BY <2>1, <2>2, <2>3, StepTypes DEF IInv
<1>2. CASE LineEnds
  <2>1. /\ ~Captured /\ phase' = "idle" /\ Flush /\ UNCHANGED <<mode, hasR, steps, statement>>
        /\ UNCHANGED bodies
    BY <1>2 DEF LineEnds, IsScript, Captured
  <2>2. QueueInv' /\ StreamTypes' /\ StreamInv' /\ TableTypes' /\ TableInv'
    BY <2>1, FlushKeeps, TableUnchanged DEF IInv
  <2>3. AccountInv'
    <3>1. steps \in Nat /\ steps' \in Nat /\ steps <= steps'
      BY <2>1 DEF IInv
    <3> QED BY <2>1, <3>1, FlushAccounts DEF IInv
  <2> QED BY <2>1, <2>2, <2>3 DEF IInv
<1> QED BY <1>1, <1>2

\* Definitions and calls, which write nothing.
LEMMA FunctionInv == ASSUME IInv, Define \/ CallFunction PROVE IInv'
<1>1. /\ Step /\ statement' = statement /\ UNCHANGED output /\ UNCHANGED warns
  BY DEF Define, CallFunction
<1>2. QueueInv' /\ StreamTypes' /\ StreamInv'
  BY <1>1, StepTypes, QuietKeeps, WarningsUnchanged DEF IInv
<1>3. TableTypes' /\ TableInv'
  BY DefineKeeps, CallKeeps DEF IInv
<1>4. AccountInv'
  BY <1>1, StepAccounts DEF output, warns
<1> QED BY <1>1, <1>2, <1>3, <1>4, StepTypes DEF IInv

\* eval().
LEMMA EvalInv == ASSUME IInv, Eval PROVE IInv'
<1>1. Step /\ Compile /\ statement' = statement
  BY DEF Eval
<1>2. TableTypes' /\ TableInv'
  BY <1>1, CompileKeeps DEF IInv
<1>3. CASE Flush
  <2>1. QueueInv' /\ StreamTypes' /\ StreamInv'
    BY <1>1, <1>3, StepTypes, FlushKeeps DEF IInv
  <2>2. AccountInv'
    BY <1>1, <1>3, StepTypes, FlushAccounts DEF IInv
  <2> QED BY <1>1, <1>2, <2>1, <2>2, StepTypes DEF IInv
<1>4. CASE UNCHANGED output /\ UNCHANGED warns
  <2>1. QueueInv' /\ StreamTypes' /\ StreamInv'
    BY <1>1, <1>4, StepTypes, QuietKeeps, WarningsUnchanged DEF IInv
  <2>2. AccountInv'
    BY <1>1, <1>4, StepAccounts DEF output, warns
  <2> QED BY <1>1, <1>2, <2>1, <2>2, StepTypes DEF IInv
<1> QED BY <1>3, <1>4 DEF Eval

\* The lines of a REPL.
LEMMA LineInv == ASSUME IInv, Line PROVE IInv'
<1>1. /\ mode \in Modes /\ hasR \in BOOLEAN /\ steps \in Nat /\ statement \in Nat
      /\ QueueInv /\ AccountInv /\ StreamTypes /\ StreamInv /\ TableTypes /\ TableInv
  BY DEF IInv
<1>2. /\ mode = "repl" /\ mode' = mode /\ hasR' = hasR /\ ~Captured /\ phase = "idle"
      /\ UNCHANGED warns /\ statement' = statement + 1
  BY DEF Line, Captured
<1>3. Halted \in DiagnosticSet /\ Halted \in EventSet /\ Halted[1] # "warnings"
  BY <1>1 DEF Halted, Event, DiagnosticSet, Diagnostics, EventSet
<1>4. QueueInv' /\ statement + 1 \in Nat
  BY <1>1, <1>2, WarningsUnchanged
<1>5. UNCHANGED <<queued, raised, lost>> /\ failed \subseteq failed'
  BY <1>2 DEF warns, queues
<1>6. CASE Compile /\ phase' = "run" /\ UNCHANGED steps /\ UNCHANGED output
  <2>1. StreamTypes' /\ StreamInv' /\ TableTypes' /\ TableInv'
    BY <1>1, <1>2, <1>6, QuietKeeps, CompileKeeps
  <2>2. AccountInv'
    <3>1. steps' \in Nat /\ steps <= steps' /\ written' = written
      BY <1>1, <1>6 DEF output
    <3>2. mode # "embedded" /\ phase' # "ended"
      BY <1>2, <1>6
    <3> QED BY <1>1, <1>2, <1>5, <3>1, <3>2, OtherAccounts
  <2> QED BY <1>1, <1>2, <1>4, <1>6, <2>1, <2>2 DEF IInv
<1>7. CASE steps' = steps + 1 /\ Emit(Halted) /\ UNCHANGED <<phase, bodies>>
  <2>1. StreamTypes' /\ StreamInv' /\ TableTypes' /\ TableInv'
    BY <1>1, <1>2, <1>3, <1>7, EmitKeeps, TableUnchanged
  <2>2. AccountInv'
    <3>1. steps' \in Nat /\ steps <= steps' /\ written' = Append(written, Halted)
      BY <1>1, <1>7 DEF Emit
    <3>2. mode # "embedded" /\ phase' # "ended"
      BY <1>2, <1>7
    <3> QED BY <1>1, <1>2, <1>3, <1>5, <3>1, <3>2, OtherAccounts
  <2>3. steps + 1 \in Nat
    BY <1>1
  <2> QED BY <1>1, <1>2, <1>4, <1>7, <2>1, <2>2, <2>3 DEF IInv
<1> QED BY <1>6, <1>7 DEF Line

\* eval_str, again.
LEMMA ReloadInv == ASSUME IInv, Reload PROVE IInv'
<1>1. /\ mode \in Modes /\ hasR \in BOOLEAN /\ steps \in Nat /\ statement \in Nat
      /\ QueueInv /\ AccountInv /\ StreamTypes /\ StreamInv /\ TableTypes /\ TableInv
  BY DEF IInv
<1>2. /\ mode = "embedded" /\ phase = "idle" /\ mode' = mode /\ hasR' = hasR /\ ~Captured
      /\ Taken /\ queued' = <<>> /\ lost' = lost \cup ToSet(queued)
      /\ raised' = raised /\ failed' = failed /\ level' = level
      /\ statement' = statement + 1 /\ UNCHANGED output
  BY DEF Reload, Captured
<1>3. steps' \in Nat /\ steps <= steps' /\ phase' \in {"run", "idle"}
  <2>1. steps' \in {steps, steps + 1} /\ phase' \in {"run", phase}
    BY DEF Reload, Loaded, Refused
  <2> QED BY <1>1, <1>2, <2>1
<1>4. QueueInv' /\ statement + 1 \in Nat
  BY <1>1, <1>2, TakenKeeps DEF QueueInv
<1>5. StreamTypes' /\ StreamInv' /\ TableTypes' /\ TableInv'
  BY <1>1, <1>2, QuietKeeps, ReloadKeeps
<1>6. AccountInv'
  <2>1. Accounts(written, <<>>, lost \cup ToSet(queued), raised)
    BY <1>1, AccountsLost DEF AccountInv
  <2>2. Accounts(written', queued', lost', raised')
    BY <1>2, <2>1 DEF output
  <2>3. \A w \in raised' : w[2] < steps'
    <3>1. \A w \in raised : w[2] < steps /\ w[2] \in Nat
      BY <1>1 DEF AccountInv, Accounts, Warning
    <3> QED BY <1>1, <1>2, <1>3, <3>1
  <2>4. \A w \in lost' : mode' = "embedded" /\ w[1] \in failed'
    BY <1>1, <1>2 DEF AccountInv
  <2>5. ToSet(queued') = {}
    BY <1>2 DEF ToSet
  <2> QED BY <1>3, <2>2, <2>3, <2>4, <2>5 DEF AccountInv
<1> QED BY <1>1, <1>2, <1>3, <1>4, <1>5, <1>6 DEF IInv

\* The end of a script.
LEMMA EndInv == ASSUME IInv, Finish \/ AbortRestart PROVE IInv'
<1>1. /\ mode \in Modes /\ hasR \in BOOLEAN /\ steps \in Nat /\ statement \in Nat
      /\ QueueInv /\ AccountInv /\ StreamTypes /\ StreamInv /\ TableTypes /\ TableInv
      /\ level \in {-1, 0, 1, 2}
  BY DEF IInv, QueueInv
<1>2. CASE Finish
  <2>1. /\ phase = "run" /\ Ends("ended") /\ Shows(Replayed) /\ written' = written
        /\ UNCHANGED <<warnings, warnCount, queued>> /\ warnCount = 0
    BY <1>2 DEF Finish
  <2>2. /\ <<>> \in Seq(DiagnosticSet) /\ Replayed \in Seq(EventSet)
        /\ written \in Seq(EventSet)
    BY <1>1, StreamFacts, EmptySeq DEF StreamTypes
  <2>3. Replayed \o <<>> = Replayed /\ written \o <<>> = written
    BY <2>2
  <2>4. Shows(Replayed \o <<>>) /\ written' = written \o <<>>
    BY <2>1, <2>3
  <2>5. StreamTypes' /\ StreamInv'
    BY <1>1, <2>1, <2>2, <2>4, EndKeeps DEF Ends
  <2>6. QueueInv' /\ TableTypes' /\ TableInv'
    BY <1>1, <2>1, WarningsUnchanged, TableUnchanged DEF Ends, warns, queues
  <2>7. AccountInv'
    <3>0. queued \in Seq(Warning) /\ Len(queued) = 0
      BY <1>1, <2>1 DEF QueueInv
    <3>1. queued = <<>>
      BY <3>0
    <3> QED BY <1>1, <2>1, <3>1 DEF AccountInv, Ends
  <2> QED BY <1>1, <2>1, <2>5, <2>6, <2>7 DEF IInv, Ends
<1>3. CASE AbortRestart
  <2> DEFINE rest == <<>> \o (IF Flushes THEN <<TheBatch>> ELSE <<>>)
  <2>1. rest \in Seq(DiagnosticSet)
    BY <1>1, BatchReports
  <2>2. /\ phase = "run" /\ Ends("ended")
        /\ Shows(Replayed \o rest) /\ written' = written \o rest
        /\ Taken /\ queued' = <<>> /\ ShowsTheRest(<<>>)
    BY <1>3 DEF AbortRestart, ShowsTheRest
  <2> HIDE DEF rest
  <2>3. StreamTypes' /\ StreamInv'
    BY <1>1, <2>1, <2>2, EndKeeps DEF Ends
  <2>4. QueueInv' /\ TableTypes' /\ TableInv'
    BY <1>1, <2>2, TakenKeeps, TableUnchanged DEF Ends
  <2>5. AccountInv'
    <3>1. PICK first : first = <<>>
      OBVIOUS
    <3>2. first \in Seq(EventSet) /\ first = <<>>
      BY <3>1, EmptySeq
    <3>3. /\ phase' = "ended" /\ mode' = mode /\ steps' = steps
          /\ UNCHANGED <<raised, lost, failed>> /\ ShowsTheRest(first) /\ queued' = <<>>
      BY <2>2, <3>1 DEF Ends
    <3> QED BY <1>1, <3>2, <3>3, EndAccounts
  <2> QED BY <1>1, <2>2, <2>3, <2>4, <2>5 DEF IInv, Ends
<1> QED BY <1>2, <1>3

\* Every step keeps the invariant.
LEMMA NextInv == IInv /\ [Next]_vars => IInv'
<1> SUFFICES ASSUME IInv, [Next]_vars PROVE IInv'
  OBVIOUS
<1>1. CASE Next
  <2>1. CASE Write \/ SetLevel \/ Warn \/ EndStatement \/ LineEnds
    BY <2>1, WriteInv, SetLevelInv, WarnInv, EndStatementInv
  <2>2. CASE Define \/ CallFunction \/ Eval \/ Line \/ Reload
    BY <2>2, FunctionInv, EvalInv, LineInv, ReloadInv
  <2>3. CASE Finish \/ AbortRestart \/ Fail
    BY <2>3, EndInv, FailsInv DEF Fail
  <2> QED BY <1>1, <2>1, <2>2, <2>3 DEF Next
<1>2. CASE UNCHANGED vars
  <2>1. /\ UNCHANGED <<mode, hasR, phase, steps, statement>>
        /\ UNCHANGED output /\ UNCHANGED warns /\ UNCHANGED bodies
    BY <1>2 DEF vars
  <2>2. QueueInv' /\ StreamTypes' /\ StreamInv' /\ TableTypes' /\ TableInv'
    BY <2>1, QuietKeeps, WarningsUnchanged, TableUnchanged DEF IInv
  <2>3. AccountInv'
    BY <2>1 DEF IInv, AccountInv, output, warns, queues
  <2> QED BY <2>1, <2>2, <2>3 DEF IInv
<1> QED BY <1>1, <1>2

-----------------------------------------------------------------------------
(* What follows from it *)

\* Every state of a run has its type, whatever the caps and bounds.
THEOREM TypeCorrect == Spec => []TypeOK
<1>1. IInv => TypeOK
  <2> SUFFICES ASSUME IInv PROVE TypeOK
    OBVIOUS
  <2>1. /\ mode \in Modes /\ hasR \in BOOLEAN /\ phase \in {"run", "idle", "ended", "inR"}
        /\ QueueInv /\ StreamTypes /\ TableTypes /\ TableInv
    BY DEF IInv
  <2>2. Len(warnings) <= MaxWarnings /\ warnCount >= Len(warnings)
    <3>1. /\ Len(warnings) = Capped(Len(queued)) /\ warnCount = Len(queued)
          /\ Len(queued) \in Nat
      BY <2>1, QueueFacts DEF QueueInv
    <3> QED BY <3>1, SessionAssumption DEF Capped
  <2>3. \A f \in functions : f.id \in 0..(Len(closures) - 1)
    <3>1. ASSUME NEW f \in functions PROVE f.id \in 0..(Len(closures) - 1)
      <4>1. f.id \in Nat /\ f.id + 1 \in 1..Len(closures) /\ Len(closures) \in Nat
        BY <2>1, BodyIsTheTables DEF TableTypes, FunctionSet
      <4> QED BY <4>1
    <3> QED BY <3>1
  <2> QED BY <2>1, <2>2, <2>3 DEF TypeOK, QueueInv, StreamTypes, TableInv
<1> QED BY <1>1, InitInv, NextInv, PTL DEF Spec

\* Each warning that was to be reported is in one batch, or waits in the queue of a
\* program that has not ended, or was queued by a statement that failed in a program
\* of an embedder, which called eval_str again; for every cap and every length of
\* run (queue_warning, flush_warnings, run_main, reset_host).
THEOREM WarningsReportedOnce == Spec => []ReportedOnce
<1>1. IInv => ReportedOnce
  <2> SUFFICES ASSUME IInv PROVE ReportedOnce
    OBVIOUS
  <2>1. QueueInv /\ StreamTypes /\ AccountInv /\ Accounts(written, queued, lost, raised)
    BY DEF IInv, AccountInv
  <2>2. /\ warnCount = Len(queued)
        /\ warnings = SubSeq(queued, 1, IF warnCount < MaxWarnings THEN warnCount
                                                                  ELSE MaxWarnings)
    BY <2>1 DEF QueueInv, Capped
  <2>3. DOMAIN written = 1..Len(written)
    BY <2>1 DEF StreamTypes
  <2>4. ASSUME NEW i \in 1..Len(written), written[i][1] = "warnings"
        PROVE  Reports(written[i][2]) /\ IsInjective(written[i][2].for)
    <3>1. written[i] \in EventSet
      BY <2>1 DEF StreamTypes
    <3>2. written[i][2] \in BatchSet
      BY <3>1, <2>4 DEF EventSet
    <3>3. Reports(written[i][2])
      BY <3>2 DEF BatchSet
    <3> QED BY <3>3, <2>1, <2>4 DEF Accounts
  <2>5. \A b \in Batches : Reports(b) /\ IsInjective(b.for)
    BY <2>3, <2>4 DEF Batches
  <2>6. \A i \in DOMAIN written : \A w : ReportedAt(i, w) <=> InBatch(written, i, w)
    BY DEF ReportedAt, InBatch
  <2>7. ASSUME NEW w \in raised
        PROVE  /\ \/ \E i \in DOMAIN written : ReportedAt(i, w)
                  \/ w \in ToSet(queued) /\ phase # "ended"
                  \/ w \in lost /\ mode = "embedded" /\ w[1] \in failed
               /\ \A i \in DOMAIN written : ReportedAt(i, w) =>
                      /\ w \notin ToSet(queued) \cup lost
                      /\ \A j \in DOMAIN written : ReportedAt(j, w) => i = j
    <3>1. phase = "ended" => ToSet(queued) = {}
      BY <2>1 DEF AccountInv, ToSet
    <3>2. w \in lost => mode = "embedded" /\ w[1] \in failed
      BY <2>1 DEF AccountInv
    <3>3. \/ \E i \in DOMAIN written : ReportedAt(i, w)
          \/ w \in ToSet(queued) \/ w \in lost
      BY <2>1, <2>3, <2>6 DEF Accounts
    <3>4. \A i \in DOMAIN written : ReportedAt(i, w) =>
              /\ w \notin ToSet(queued) /\ w \notin lost
              /\ \A j \in DOMAIN written : ReportedAt(j, w) => i = j
      BY <2>1, <2>3, <2>6 DEF Accounts
    <3> QED BY <3>1, <3>2, <3>3, <3>4
  <2> QED BY <2>2, <2>5, <2>7 DEF ReportedOnce, Reports, Capped
<1> QED BY <1>1, InitInv, NextInv, PTL DEF Spec

\* A function value keeps naming the body it was made with, however many programs
\* are compiled, evaluated or loaded (shift_closure_ids, load_closures).
THEOREM FunctionsKeepBodies == Spec => []FunctionsKeepTheirBodies
<1>1. IInv => FunctionsKeepTheirBodies
  <2> SUFFICES ASSUME IInv PROVE FunctionsKeepTheirBodies
    OBVIOUS
  <2>1. TableTypes /\ TableInv
    BY DEF IInv
  <2>2. ASSUME NEW f \in functions
        PROVE  closures[f.id + 1].program = f.program /\ closures[f.id + 1].body = f.body
    <3>1. closures[f.id + 1] = Body(f.program, f.body, mains[f.program])
      BY <2>1, BodyIsTheTables
    <3> QED BY <3>1 DEF Body
  <2> QED BY <2>1, <2>2 DEF FunctionsKeepTheirBodies, TableInv
<1> QED BY <1>1, InitInv, NextInv, PTL DEF Spec

\* What the user of a captured script is shown at the end is what it wrote, each
\* thing once and where it wrote it, or what R shows of a script it took over; any
\* other user has been shown each of the two streams, once and in its order, but for
\* an incomplete line (replay, emit, emit_stderr).
THEOREM OutputInOrder == Spec => []ShownInOrder
<1>1. IInv => ShownInOrder
  BY DEF IInv, StreamInv, ShownInOrder
<1> QED BY <1>1, InitInv, NextInv, PTL DEF Spec
=============================================================================
