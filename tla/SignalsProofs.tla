---------------------------- MODULE SignalsProofs ----------------------------
(***************************************************************************)
(* Proofs about Signals, for every depth of the stack: the state keeps its *)
(* type, and code that runs sees the call of the function it is written    *)
(* in, however deep it is evaluated and however what it called was left.   *)
(***************************************************************************)
EXTENDS Signals, Lemmas

-----------------------------------------------------------------------------
(* The inductive invariant *)

Activation == ChunkSet \cup CallSet \cup TrySet \cup PrimitiveSet

\* How many contexts stand when the k-th activation starts.
B(s, k) == IF s[k].op = "primitive" THEN s[k - 1].base + 1 ELSE s[k].base

\* What the k-th activation owes to those below it: what may stand under it, how
\* many contexts it starts with, and which call its code runs for.
CallLink(s, k) ==
    /\ \/ IsChunk(s[k - 1]) \/ s[k - 1].op = "primitive"
       \/ s[k - 1].op = "tryCatch" /\ s[k - 1].phase = "handler"
    /\ s[k].base = B(s, k - 1) + 1 /\ s[k].fun = k
    /\ s[k].args # None => IsChunk(s[k - 1]) /\ s[k].args = s[k - 1].base
TryLink(s, k) == IsChunk(s[k - 1]) /\ s[k].base = s[k - 1].base + 1
PromiseLink(s, k) ==
    /\ \/ IsChunk(s[k - 1]) /\ s[k].base \in {s[k - 1].base, s[k - 1].base + 1}
       \/ s[k - 1].op = "primitive" /\ s[k].base = B(s, k - 1)
       \/ s[k - 1].op = "tryCatch" /\ s[k - 1].phase = "body"
              /\ s[k].base = s[k - 1].base + 1
       \/ s[k - 1].op = "tryCatch" /\ s[k - 1].phase = "finally"
              /\ s[k].base = s[k - 1].base
    /\ s[k].fun \in 1..(k - 1) /\ s[s[k].fun].op \in {"main", "call"}
CleanupLink(s, k) ==
    /\ s[k - 1].op = "call" /\ s[k - 1].phase = "on.exit"
    /\ s[k].base = s[k - 1].base /\ s[k].fun = k - 1
Link(s, k) ==
    /\ s[k].op = "main" <=> k = 1
    /\ s[k].op = "main"      => s[k].base = 0 /\ s[k].fun = 1
    /\ s[k].op = "call"      => CallLink(s, k)
    /\ s[k].op = "primitive" => IsChunk(s[k - 1])
    /\ s[k].op = "tryCatch"  => TryLink(s, k)
    /\ s[k].op = "promise"   => PromiseLink(s, k)
    /\ s[k].op = "cleanup"   => CleanupLink(s, k)
Links(s) == \A k \in 1..Len(s) : Link(s, k)

\* Code: what has a function it is written in.
IsCode(a) == a.op \in Chunks \cup {"call"}

\* Code above a promise runs for a call as deep as the promise's own, or for one
\* that the promise led to.
Nested(s) ==
    \A k \in 1..Len(s) : \A l \in 1..(k - 1) :
        IsCode(s[k]) /\ s[l].op = "promise" => s[k].fun <= s[l].fun \/ s[k].fun > l

\* The contexts that stand are those of the calls in progress; the one that a
\* chunk was opening when it read a promise is not entered.
Contexts(s, cs) ==
    /\ Len(cs) >= B(s, Len(s))
    /\ \A k \in 1..Len(s) :
        /\ s[k].op = "call" => cs[s[k].base] = Context(k)
        /\ s[k].op = "promise" /\ IsChunk(s[k - 1]) /\ s[k].base = s[k - 1].base + 1 =>
               ~cs[s[k].base].entered

\* The promises being forced hide contexts, at[r] being the one that record r is
\* of: none of the call its code is written in or further out, and all of those
\* between that one and its own.
Hides(s, hid, at) ==
    /\ at \in [1..Len(hid) -> 1..Len(s)]
    /\ \A q, r \in 1..Len(hid) : q < r => at[q] < at[r]
    /\ \A r \in 1..Len(hid) : s[at[r]].op = "promise"
    /\ \A k \in 1..Len(s) : s[k].op = "promise" => \E r \in 1..Len(hid) : at[r] = k
    /\ \A r \in 1..Len(hid) :
        hid[r][2] = s[at[r]].base /\ s[s[at[r]].fun].base <= hid[r][1]
Covers(s, hid, at) ==
    \A k \in 1..Len(s) : IsCode(s[k]) =>
        \A i \in (s[s[k].fun].base + 1)..s[k].base :
            \E r \in 1..Len(hid) : at[r] <= k /\ hid[r][1] < i /\ i <= hid[r][2]
Hiding(s, hid) == \E at : Hides(s, hid, at) /\ Covers(s, hid, at)

Shape(s, cs, hid) ==
    /\ s \in Seq(Activation) /\ Len(s) # 0
    /\ cs \in Seq([of : Indices, entered : BOOLEAN])
    /\ hid \in Seq(Nat \X Nat)
    /\ Links(s) /\ Nested(s) /\ Contexts(s, cs) /\ Hiding(s, hid)

\* How many contexts stand above those that the innermost activation started with.
Heights(s, cs) ==
    LET n == Len(s)
    IN  /\ IsChunk(s[n]) =>
               /\ Len(cs) \in {s[n].base, s[n].base + 1}
               /\ Len(cs) = s[n].base + 1 => ~cs[Len(cs)].entered /\ n < MaxStack
        /\ s[n].op = "primitive" => Len(cs) = B(s, n)
        /\ s[n].op = "call" /\ ~IsChunk(s[n]) =>
               s[n].phase = "left" /\ Len(cs) = s[n].base
        /\ s[n].op = "tryCatch" /\ s[n].phase = "finally" => Len(cs) = s[n].base

IInv ==
    /\ Here <= MaxStack /\ flow \in {"run", "ok", "err"} /\ signal \in SignalSet
    /\ Shape(stack, calls, hidden)
    /\ Heights(stack, calls)
    /\ flow = "run" => IsChunk(Top)

-----------------------------------------------------------------------------
(* Stacks *)

\* An activation is of the kind its op names.
LEMMA Kinds ==
    ASSUME NEW a \in Activation
    PROVE  /\ a.op \in {"main", "cleanup", "promise", "call", "tryCatch", "primitive"}
           /\ a.op \in Chunks => a \in ChunkSet
           /\ a.op = "call" => a \in CallSet
           /\ a.op = "tryCatch" => a \in TrySet
           /\ a.op = "primitive" => a \in PrimitiveSet
           /\ IsChunk(a) => IsCode(a)
           /\ IsCode(a) => a.base \in Nat /\ a.fun \in Indices
           /\ a.op = "tryCatch" => a.base \in Nat
BY DEF Activation, ChunkSet, CallSet, TrySet, PrimitiveSet, Chunks, IsChunk, IsCode

\* The program is at the bottom, and only there.
LEMMA MainFirst ==
    ASSUME NEW s \in Seq(Activation), Len(s) # 0, Links(s)
    PROVE  /\ Len(s) \in Nat \ {0} /\ s[1].op = "main"
           /\ \A k \in 1..Len(s) : s[k] \in Activation /\ (s[k].op = "main" <=> k = 1)
<1>1. Len(s) \in Nat \ {0} /\ \A k \in 1..Len(s) : s[k] \in Activation
  BY ElementOfSeq, LenProperties
<1>2. \A k \in 1..Len(s) : s[k].op = "main" <=> k = 1
  BY DEF Links, Link
<1> QED BY <1>1, <1>2

\* One more activation starts under no fewer contexts, and a call under more.
LEMMA BStep ==
    ASSUME NEW s \in Seq(Activation), Len(s) # 0, Links(s), NEW k \in 2..Len(s)
    PROVE  /\ B(s, k - 1) \in Nat /\ B(s, k) \in Nat /\ B(s, k - 1) <= B(s, k)
           /\ s[k].op = "call" => B(s, k - 1) < B(s, k)
<1>1. /\ k \in 1..Len(s) /\ k - 1 \in 1..Len(s) /\ k # 1 /\ k - 1 \in Nat
      /\ s[k] \in Activation /\ s[k - 1] \in Activation /\ Link(s, k) /\ Link(s, k - 1)
  BY MainFirst DEF Links
<1>2. ASSUME NEW j \in {k - 1, k}, s[j].op = "primitive"
      PROVE  /\ B(s, j) = s[j - 1].base + 1 /\ IsChunk(s[j - 1]) /\ s[j - 1].base \in Nat
             /\ s[j - 1].op # "primitive"
  <2>1. Link(s, j) /\ j \in 1..Len(s) /\ j # 1
    <3>1. j = k \/ j = k - 1
      OBVIOUS
    <3>2. j # 1
      BY <1>1, <1>2, <3>1 DEF Link
    <3> QED BY <1>1, <3>1, <3>2
  <2>2. IsChunk(s[j - 1]) /\ j - 1 \in 1..Len(s)
    BY <1>2, <2>1 DEF Link
  <2>3. s[j - 1] \in Activation
    BY <2>2, MainFirst
  <2> QED BY <1>2, <2>2, <2>3, Kinds DEF B, IsChunk, Chunks
<1>3. ASSUME NEW j \in {k - 1, k}, s[j].op # "primitive"
      PROVE  B(s, j) = s[j].base /\ s[j].base \in Nat
  <2>1. s[j] \in Activation
    BY <1>1
  <2> QED BY <1>3, <2>1, Kinds DEF B, IsCode, Chunks
<1>4. B(s, k - 1) \in Nat /\ B(s, k) \in Nat
  BY <1>2, <1>3
<1>5. IsChunk(s[k - 1]) => B(s, k - 1) = s[k - 1].base
  BY <1>3 DEF IsChunk, Chunks
<1>6. CASE s[k].op = "primitive"
  BY <1>1, <1>2, <1>4, <1>5, <1>6 DEF Link
<1>7. CASE s[k].op = "call"
  BY <1>1, <1>3, <1>4, <1>7 DEF Link, CallLink
<1>8. CASE s[k].op = "tryCatch"
  BY <1>1, <1>3, <1>4, <1>5, <1>8 DEF Link, TryLink
<1>9. CASE s[k].op = "promise"
  <2>1. B(s, k) = s[k].base
    BY <1>3, <1>9
  <2>2. s[k - 1].op = "tryCatch" => B(s, k - 1) = s[k - 1].base
    BY <1>3
  <2> QED BY <1>1, <1>4, <1>5, <1>9, <2>1, <2>2 DEF Link, PromiseLink
<1>10. CASE s[k].op = "cleanup"
  <2>1. B(s, k) = s[k].base
    BY <1>3, <1>10
  <2>2. s[k - 1].op = "call" => B(s, k - 1) = s[k - 1].base
    BY <1>3
  <2> QED BY <1>1, <1>4, <1>10, <2>1, <2>2 DEF Link, CleanupLink
<1> QED BY <1>1, <1>6, <1>7, <1>8, <1>9, <1>10, Kinds DEF Link

\* So it goes all the way up.
LEMMA BMono ==
    ASSUME NEW s \in Seq(Activation), Len(s) # 0, Links(s)
    PROVE  \A k \in 1..Len(s) : \A j \in 1..k :
               /\ B(s, j) \in Nat /\ B(s, k) \in Nat /\ B(s, j) <= B(s, k)
               /\ s[k].op = "call" /\ j # k => B(s, j) < B(s, k)
<1> DEFINE P(k) == \A j \in 1..k :
               /\ B(s, j) \in Nat /\ B(s, k) \in Nat /\ B(s, j) <= B(s, k)
               /\ s[k].op = "call" /\ j # k => B(s, j) < B(s, k)
           T == {k \in Nat : k \in 1..Len(s) => P(k)}
<1>1. 0 \in T
  OBVIOUS
<1>2. ASSUME NEW k \in Nat, k \in T PROVE k + 1 \in T
  <2> SUFFICES ASSUME k + 1 \in 1..Len(s) PROVE P(k + 1)
    OBVIOUS
  <2>1. CASE k = 0
    <3>1. s[1] \in Activation /\ s[1].op = "main" /\ 1 \in 1..Len(s)
      BY <2>1, MainFirst
    <3>2. B(s, 1) \in Nat
      BY <3>1, Kinds DEF B, IsCode, Chunks
    <3> QED BY <2>1, <3>2
  <2>2. CASE k # 0
    <3>1. k + 1 \in 2..Len(s) /\ k + 1 - 1 = k /\ k \in 1..Len(s) /\ Len(s) \in Nat
      BY <2>2, LenProperties
    <3>2. /\ B(s, k) \in Nat /\ B(s, k + 1) \in Nat /\ B(s, k) <= B(s, k + 1)
          /\ s[k + 1].op = "call" => B(s, k) < B(s, k + 1)
      BY <3>1, BStep
    <3>3. P(k)
      BY <1>2, <3>1
    <3>4. ASSUME NEW j \in 1..(k + 1)
          PROVE  /\ B(s, j) \in Nat /\ B(s, k + 1) \in Nat /\ B(s, j) <= B(s, k + 1)
                 /\ s[k + 1].op = "call" /\ j # k + 1 => B(s, j) < B(s, k + 1)
      <4>1. CASE j = k + 1
        BY <3>2, <4>1
      <4>2. CASE j # k + 1
        <5>1. j \in 1..k
          BY <4>2
        <5>2. B(s, j) \in Nat /\ B(s, j) <= B(s, k)
          BY <3>3, <5>1
        <5> QED BY <3>2, <5>2
      <4> QED BY <4>1, <4>2
    <3> QED BY <3>4
  <2> QED BY <2>1, <2>2
<1>3. Nat \subseteq T
  <2> HIDE DEF T
  <2> QED BY <1>1, <1>2, SetInduction
<1>4. ASSUME NEW k \in 1..Len(s) PROVE P(k)
  BY <1>3, LenProperties
<1> QED BY <1>4

\* What an activation owes is decided by those below it, and by what it is, where
\* it starts and whose code it runs.
Alike(a, b) ==
    /\ a.op = b.op
    /\ IsCode(a) => a.base = b.base /\ a.fun = b.fun
    /\ a.op = "tryCatch" => a.base = b.base
    /\ a.op = "call" => a.args = b.args

\* The base of an activation, in a stack that is alike as far as that.
LEMMA BSame ==
    ASSUME NEW s, NEW t, NEW k \in Nat \ {0}, s[k] \in Activation, Alike(s[k], t[k]),
           k # 1 => t[k - 1] = s[k - 1]
    PROVE  k # 1 \/ s[k].op # "primitive" => B(t, k) = B(s, k)
BY Kinds DEF B, Alike, IsCode, Chunks

\* The same of what it owes.
LEMMA LinkSame ==
    ASSUME NEW s, NEW t, NEW k \in Nat \ {0}, \A i \in 1..k : s[i] \in Activation,
           \A i \in 1..(k - 1) : t[i] = s[i], Alike(s[k], t[k]), Link(s, k),
           \A i \in 1..k : s[i].op = "main" <=> i = 1
    PROVE  Link(t, k)
<1>1. t[k].op = s[k].op /\ k \in 1..k /\ s[k] \in Activation
  BY DEF Alike
<1>2. CASE k = 1
  BY <1>1, <1>2 DEF Link, Alike, IsCode, Chunks
<1>3. CASE k # 1
  <2>1. k - 1 \in Nat \ {0} /\ k - 1 \in 1..(k - 1) /\ k - 1 \in 1..k
    BY <1>3
  <2>2. t[k - 1] = s[k - 1]
    BY <2>1
  <2>3. B(t, k - 1) = B(s, k - 1)
    <3>1. k - 1 # 1 => k - 1 - 1 \in 1..(k - 1) /\ t[k - 1 - 1] = s[k - 1 - 1]
      BY <2>1
    <3>2. k - 1 = 1 => s[k - 1].op = "main"
      BY <2>1
    <3> QED BY <2>2, <3>1, <3>2 DEF B
  <2>4. s[k].op = "call" => CallLink(t, k)
    BY <1>1, <2>2, <2>3 DEF Link, CallLink, Alike, IsCode
  <2>5. s[k].op = "tryCatch" => TryLink(t, k)
    BY <1>1, <2>2 DEF Link, TryLink, Alike
  <2>6. s[k].op = "promise" => PromiseLink(t, k)
    BY <1>1, <2>2, <2>3 DEF Link, PromiseLink, Alike, IsCode, Chunks
  <2>7. s[k].op = "cleanup" => CleanupLink(t, k)
    BY <1>1, <2>2 DEF Link, CleanupLink, Alike, IsCode, Chunks
  <2> QED BY <1>1, <1>3, <2>2, <2>4, <2>5, <2>6, <2>7 DEF Link
<1> QED BY <1>2, <1>3

\* Code runs for a call that is below it, or is itself.
LEMMA WriterIs ==
    ASSUME NEW s \in Seq(Activation), Len(s) # 0, Links(s), NEW k \in 1..Len(s),
           IsCode(s[k])
    PROVE  /\ s[k].fun \in 1..k /\ s[s[k].fun].op \in {"main", "call"}
           /\ s[k].fun \in 1..Len(s) /\ IsCode(s[s[k].fun])
           /\ s[k].op \in {"main", "call"} => s[k].fun = k
<1>1. Link(s, k) /\ k \in Nat \ {0} /\ Len(s) \in Nat
  BY LenProperties DEF Links
<1>2. s[k].op = "main" => s[k].fun = k
  BY <1>1 DEF Link
<1>3. s[k].op = "call" => s[k].fun = k
  BY <1>1 DEF Link, CallLink
<1>4. s[k].op = "promise" => s[k].fun \in 1..(k - 1) /\ s[s[k].fun].op \in {"main", "call"}
  BY <1>1 DEF Link, PromiseLink
<1>5. s[k].op = "cleanup" => s[k].fun = k - 1 /\ s[k - 1].op = "call" /\ k # 1
  BY <1>1 DEF Link, CleanupLink
<1>6. s[k].fun \in 1..k /\ s[s[k].fun].op \in {"main", "call"}
  BY <1>1, <1>2, <1>3, <1>4, <1>5 DEF IsCode, Chunks
<1>7. IsCode(s[s[k].fun])
  BY <1>6 DEF IsCode, Chunks
<1> QED BY <1>1, <1>2, <1>3, <1>6, <1>7

\* The front of a record of hidden contexts, or of contexts.
LEMMA FrontIs ==
    ASSUME NEW S, NEW q \in Seq(S), Len(q) # 0
    PROVE  /\ Front(q) \in Seq(S) /\ Len(Front(q)) = Len(q) - 1
           /\ \A i \in 1..(Len(q) - 1) : Front(q)[i] = q[i]
<1>1. Len(q) - 1 \in 0..Len(q)
  BY LenProperties
<1> QED BY <1>1, FirstPart DEF Front, Cut

\* What is hidden stays hidden while the promises stay, whatever else goes.
LEMMA HidingKeeps ==
    ASSUME NEW s \in Seq(Activation), Len(s) # 0, Links(s), NEW hid, Hiding(s, hid),
           NEW n \in 1..Len(s), NEW t, Len(t) = n, \A i \in 1..n : Alike(s[i], t[i]),
           Len(hid) \in Nat,
           \A k \in 1..Len(s) : s[k].op = "promise" => k \in 1..n
    PROVE  Hiding(t, hid)
<1>1. PICK at : Hides(s, hid, at) /\ Covers(s, hid, at)
  BY DEF Hiding
<1>2. Len(s) \in Nat /\ \A k \in 1..n : k \in 1..Len(s)
  BY LenProperties
<1>3. \A k \in 1..n : IsCode(s[k]) => /\ s[k].fun \in 1..n /\ t[k].fun = s[k].fun
                                      /\ t[k].base = s[k].base
                                      /\ t[s[k].fun].base = s[s[k].fun].base
  <2> SUFFICES ASSUME NEW k \in 1..n, IsCode(s[k])
               PROVE  /\ s[k].fun \in 1..n /\ t[k].fun = s[k].fun
                      /\ t[k].base = s[k].base
                      /\ t[s[k].fun].base = s[s[k].fun].base
    OBVIOUS
  <2>1. s[k].fun \in 1..k /\ IsCode(s[s[k].fun])
    BY <1>2, WriterIs
  <2>2. s[k].fun \in 1..n
    BY <2>1
  <2> QED BY <2>1, <2>2 DEF Alike
<1>4. \A k \in 1..n : (t[k].op = s[k].op) /\ (IsCode(t[k]) <=> IsCode(s[k]))
  BY DEF Alike, IsCode
<1>5. at \in [1..Len(hid) -> 1..n]
  BY <1>1 DEF Hides
<1>6. Hides(t, hid, at)
  <2>1. \A r \in 1..Len(hid) : s[at[r]].op = "promise" /\ at[r] \in 1..n /\ IsCode(s[at[r]])
    BY <1>1, <1>5 DEF Hides, IsCode, Chunks
  <2>2. \A r \in 1..Len(hid) : t[at[r]].op = "promise"
    BY <1>4, <2>1
  <2>3. \A k \in 1..n : t[k].op = "promise" => \E r \in 1..Len(hid) : at[r] = k
    BY <1>1, <1>2, <1>4 DEF Hides
  <2>4. ASSUME NEW r \in 1..Len(hid)
        PROVE  hid[r][2] = t[at[r]].base /\ t[t[at[r]].fun].base <= hid[r][1]
    <3>1. PICK k \in 1..n : k = at[r] /\ IsCode(s[k])
      BY <2>1
    <3>2. hid[r][2] = s[k].base /\ s[s[k].fun].base <= hid[r][1]
      BY <1>1, <3>1 DEF Hides
    <3>3. t[k].fun = s[k].fun /\ t[k].base = s[k].base /\ t[s[k].fun].base = s[s[k].fun].base
      BY <1>3, <3>1
    <3>4. t[t[k].fun].base = s[s[k].fun].base
      BY <3>3
    <3> QED BY <3>1, <3>2, <3>3, <3>4
  <2>5. \A q, r \in 1..Len(hid) : q < r => at[q] < at[r]
    BY <1>1 DEF Hides
  <2> QED BY <1>5, <2>2, <2>3, <2>4, <2>5 DEF Hides
<1>7. Covers(t, hid, at)
  <2> SUFFICES ASSUME NEW k \in 1..n, IsCode(t[k]), NEW i \in (t[t[k].fun].base + 1)..t[k].base
               PROVE  \E r \in 1..Len(hid) : at[r] <= k /\ hid[r][1] < i /\ i <= hid[r][2]
    BY DEF Covers
  <2>1. IsCode(s[k]) /\ k \in 1..Len(s) /\ i \in (s[s[k].fun].base + 1)..s[k].base
    BY <1>2, <1>3, <1>4
  <2> QED BY <1>1, <2>1 DEF Covers
<1> QED BY <1>6, <1>7 DEF Hiding

\* The last record is the innermost promise's.
LEMMA HidingPops ==
    ASSUME NEW s \in Seq(Activation), Len(s) # 0, Links(s), NEW hid \in Seq(Nat \X Nat),
           Hiding(s, hid), NEW n \in Nat \ {0}, Len(s) = n + 1, s[n + 1].op = "promise",
           NEW t, Len(t) = n, \A i \in 1..n : Alike(s[i], t[i])
    PROVE  Len(hid) # 0 /\ Hiding(t, Front(hid))
<1>1. PICK at : Hides(s, hid, at) /\ Covers(s, hid, at)
  BY DEF Hiding
<1>2. n + 1 \in 1..Len(s) /\ Len(hid) \in Nat
  BY LenProperties
<1>3. PICK r \in 1..Len(hid) : at[r] = n + 1
  BY <1>1, <1>2 DEF Hides
<1>4. Len(hid) # 0 /\ Len(hid) \in 1..Len(hid)
  BY <1>2, <1>3
<1>5. r = Len(hid)
  <2>1. r < Len(hid) => n + 1 < at[Len(hid)]
    BY <1>1, <1>3, <1>4 DEF Hides
  <2>2. at[Len(hid)] \in 1..(n + 1)
    BY <1>1, <1>4 DEF Hides
  <2> QED BY <1>2, <2>1, <2>2
<1>6. PICK m : m = Len(hid) - 1
  OBVIOUS
<1>7. m \in Nat /\ Len(hid) = m + 1 /\ \A q \in 1..m : q \in 1..Len(hid) /\ q # m + 1
  BY <1>2, <1>4, <1>6
<1>8. PICK h : h = Front(hid)
  OBVIOUS
<1>9. Len(h) = m /\ \A q \in 1..m : h[q] = hid[q]
  BY <1>4, <1>6, <1>8, FrontIs
<1>10. PICK p : p = [q \in 1..m |-> at[q]]
  OBVIOUS
<1>11. \A q \in 1..m : p[q] = at[q]
  BY <1>10
<1>12. \A q \in 1..m : at[q] \in 1..n
  <2>1. \A q \in 1..m : at[q] < at[m + 1] /\ at[q] \in 1..(n + 1)
    <3>1. \A q \in 1..m : q \in 1..Len(hid) /\ m + 1 \in 1..Len(hid) /\ q < m + 1
      BY <1>7
    <3> QED BY <1>1, <3>1 DEF Hides
  <2> QED BY <1>3, <1>5, <1>7, <2>1, SMTT(30)
<1>13. p \in [1..m -> 1..n]
  BY <1>10, <1>12
<1>14. \A k \in 1..n : k \in 1..Len(s)
  OBVIOUS
<1>15. \A k \in 1..n : IsCode(s[k]) => /\ s[k].fun \in 1..n /\ t[k].fun = s[k].fun
                                       /\ t[k].base = s[k].base
                                       /\ t[s[k].fun].base = s[s[k].fun].base
  <2> SUFFICES ASSUME NEW k \in 1..n, IsCode(s[k])
               PROVE  /\ s[k].fun \in 1..n /\ t[k].fun = s[k].fun
                      /\ t[k].base = s[k].base
                      /\ t[s[k].fun].base = s[s[k].fun].base
    OBVIOUS
  <2>1. s[k].fun \in 1..k /\ IsCode(s[s[k].fun])
    BY <1>14, WriterIs
  <2>2. s[k].fun \in 1..n
    BY <2>1, SMTT(30)
  <2> QED BY <2>1, <2>2 DEF Alike
<1>16. \A k \in 1..n : (t[k].op = s[k].op) /\ (IsCode(t[k]) <=> IsCode(s[k]))
  BY DEF Alike, IsCode
<1>17. Hides(t, h, p)
  <2>1. \A q \in 1..m : s[at[q]].op = "promise" /\ at[q] \in 1..n /\ IsCode(s[at[q]])
    BY <1>1, <1>7, <1>12 DEF Hides, IsCode, Chunks
  <2>2. \A q \in 1..m : t[p[q]].op = "promise"
    BY <1>11, <1>16, <2>1
  <2>3. ASSUME NEW k \in 1..n, t[k].op = "promise" PROVE \E q \in 1..m : p[q] = k
    <3>1. PICK q \in 1..Len(hid) : at[q] = k
      BY <1>1, <1>14, <1>16, <2>3 DEF Hides
    <3>2. q # m + 1
      BY <1>3, <1>5, <1>7, <3>1
    <3>3. q \in 1..m
      BY <1>7, <3>2
    <3> QED BY <1>11, <3>1, <3>3
  <2>4. ASSUME NEW q \in 1..m
        PROVE  h[q][2] = t[p[q]].base /\ t[t[p[q]].fun].base <= h[q][1]
    <3>1. PICK k \in 1..n : k = at[q] /\ IsCode(s[k])
      BY <2>1
    <3>2. hid[q][2] = s[k].base /\ s[s[k].fun].base <= hid[q][1]
      BY <1>1, <1>7, <3>1 DEF Hides
    <3>3. t[k].fun = s[k].fun /\ t[k].base = s[k].base /\ t[s[k].fun].base = s[s[k].fun].base
      BY <1>15, <3>1
    <3>4. t[t[k].fun].base = s[s[k].fun].base
      BY <3>3
    <3>5. h[q] = hid[q] /\ p[q] = k
      BY <1>9, <1>11, <3>1
    <3> QED BY <3>2, <3>3, <3>4, <3>5
  <2>5. \A q, u \in 1..m : q < u => p[q] < p[u]
    BY <1>1, <1>7, <1>11 DEF Hides
  <2> QED BY <1>9, <1>13, <2>2, <2>3, <2>4, <2>5 DEF Hides
<1>18. Covers(t, h, p)
  <2> SUFFICES ASSUME NEW k \in 1..n, IsCode(t[k]), NEW i \in (t[t[k].fun].base + 1)..t[k].base
               PROVE  \E q \in 1..m : p[q] <= k /\ h[q][1] < i /\ i <= h[q][2]
    BY <1>9 DEF Covers
  <2>1. IsCode(s[k]) /\ k \in 1..Len(s) /\ i \in (s[s[k].fun].base + 1)..s[k].base
    BY <1>14, <1>15, <1>16
  <2>2. PICK q \in 1..Len(hid) : at[q] <= k /\ hid[q][1] < i /\ i <= hid[q][2]
    BY <1>1, <2>1 DEF Covers
  <2>3. q # m + 1
    BY <1>3, <1>5, <1>7, <2>2
  <2>4. q \in 1..m
    BY <1>7, <2>3
  <2> QED BY <1>9, <1>11, <2>2, <2>4
<1> QED BY <1>4, <1>8, <1>17, <1>18 DEF Hiding

\* A promise hides what lies between it and the code that it is written in.
LEMMA HidingGrows ==
    ASSUME NEW s \in Seq(Activation), Len(s) # 0, Links(s), NEW hid \in Seq(Nat \X Nat),
           Hiding(s, hid), NEW n \in Nat \ {0}, Len(s) = n, NEW t, Len(t) = n + 1,
           \A i \in 1..n : t[i] = s[i], t[n + 1].op = "promise", t[n + 1].fun \in 1..n,
           NEW d \in Nat, s[t[n + 1].fun].base <= d,
           \A i \in (s[t[n + 1].fun].base + 1)..d :
               \E r \in 1..Len(hid) : hid[r][1] < i /\ i <= hid[r][2],
           t[n + 1].base \in Nat
    PROVE  Hiding(t, Append(hid, <<d, t[n + 1].base>>))
<1>1. PICK at : Hides(s, hid, at) /\ Covers(s, hid, at)
  BY DEF Hiding
<1>2. PICK m : m = Len(hid)
  OBVIOUS
<1>3. PICK b : b = t[n + 1].base
  OBVIOUS
<1>4. PICK h : h = Append(hid, <<d, b>>)
  OBVIOUS
<1>5. m \in Nat /\ \A q \in 1..m : q \in 1..(m + 1) /\ q # m + 1
  BY <1>2, LenProperties
<1>6. Len(h) = m + 1 /\ h[m + 1] = <<d, b>> /\ \A q \in 1..m : h[q] = hid[q]
  <2>1. PICK e \in Nat \X Nat : e = <<d, b>>
    BY <1>3
  <2>2. /\ Len(Append(hid, e)) = Len(hid) + 1 /\ Append(hid, e)[Len(hid) + 1] = e
        /\ \A q \in 1..Len(hid) : Append(hid, e)[q] = hid[q]
    BY AppendProperties
  <2> QED BY <1>2, <1>4, <2>1, <2>2
<1>7. PICK p : p = [q \in 1..(m + 1) |-> IF q = m + 1 THEN n + 1 ELSE at[q]]
  OBVIOUS
<1>8. p[m + 1] = n + 1 /\ \A q \in 1..m : p[q] = at[q] /\ at[q] \in 1..n
  <2>1. m + 1 \in 1..(m + 1)
    BY <1>5
  <2>2. \A q \in 1..m : at[q] \in 1..n
    BY <1>1, <1>2 DEF Hides
  <2> QED BY <1>5, <1>7, <2>1, <2>2
<1>9. p \in [1..(m + 1) -> 1..(n + 1)]
  <2>1. \A q \in 1..(m + 1) : (IF q = m + 1 THEN n + 1 ELSE at[q]) \in 1..(n + 1)
    <3>1. \A q \in 1..(m + 1) : q = m + 1 \/ q \in 1..m
      BY <1>5
    <3> QED BY <1>8, <3>1
  <2> QED BY <1>7, <2>1
<1>10. \A k \in 1..n : IsCode(s[k]) => /\ s[k].fun \in 1..n
                                       /\ t[s[k].fun].base = s[s[k].fun].base
  BY WriterIs
<1>11. \A q \in 1..(m + 1) : q = m + 1 \/ q \in 1..m
  BY <1>5
<1>12. \A k \in 1..(n + 1) : k = n + 1 \/ k \in 1..n
  OBVIOUS
<1>13. Hides(t, h, p)
  <2>1. \A q, r \in 1..(m + 1) : q < r => p[q] < p[r]
    <3> SUFFICES ASSUME NEW q \in 1..(m + 1), NEW r \in 1..(m + 1), q < r PROVE p[q] < p[r]
      OBVIOUS
    <3>1. q \in 1..m
      BY <1>5
    <3>2. CASE r = m + 1
      <4>1. p[q] \in 1..n
        BY <1>8, <3>1
      <4> QED BY <1>8, <3>2, <4>1
    <3>3. CASE r # m + 1
      <4>1. r \in 1..m
        BY <1>11, <3>3
      <4>2. at[q] < at[r]
        BY <1>1, <1>2, <3>1, <4>1 DEF Hides
      <4> QED BY <1>8, <3>1, <4>1, <4>2
    <3> QED BY <3>2, <3>3
  <2>2. ASSUME NEW q \in 1..(m + 1)
        PROVE  /\ t[p[q]].op = "promise"
               /\ h[q][2] = t[p[q]].base /\ t[t[p[q]].fun].base <= h[q][1]
    <3>1. CASE q = m + 1
      BY <1>3, <1>6, <1>8, <3>1, SMTT(30)
    <3>2. CASE q # m + 1
      <4>1. q \in 1..m
        BY <1>11, <3>2
      <4>2. PICK k \in 1..n : k = at[q] /\ t[k] = s[k] /\ p[q] = k
        BY <1>8, <4>1
      <4>3. s[k].op = "promise" /\ hid[q][2] = s[k].base /\ s[s[k].fun].base <= hid[q][1]
        BY <1>1, <1>2, <4>1, <4>2, SMTT(30) DEF Hides
      <4>4. t[s[k].fun].base = s[s[k].fun].base
        BY <1>10, <4>3 DEF IsCode, Chunks
      <4> QED BY <1>6, <4>1, <4>2, <4>3, <4>4
    <3> QED BY <3>1, <3>2
  <2>3. ASSUME NEW k \in 1..(n + 1), t[k].op = "promise"
        PROVE  \E q \in 1..(m + 1) : p[q] = k
    <3>1. CASE k = n + 1
      <4>1. m + 1 \in 1..(m + 1)
        BY <1>5
      <4> QED BY <1>8, <3>1, <4>1
    <3>2. CASE k # n + 1
      <4>1. k \in 1..n
        BY <1>12, <3>2
      <4>2. PICK q \in 1..m : at[q] = k
        BY <1>1, <1>2, <2>3, <4>1 DEF Hides
      <4> QED BY <1>5, <1>8, <4>2
    <3> QED BY <3>1, <3>2
  <2> QED BY <1>6, <1>9, <2>1, <2>2, <2>3 DEF Hides
<1>14. Covers(t, h, p)
  <2> SUFFICES ASSUME NEW k \in 1..(n + 1), IsCode(t[k]),
                      NEW i \in (t[t[k].fun].base + 1)..t[k].base
               PROVE  \E q \in 1..(m + 1) : p[q] <= k /\ h[q][1] < i /\ i <= h[q][2]
    BY <1>6 DEF Covers
  <2>1. CASE k = n + 1
    <3>1. t[t[k].fun].base = s[t[n + 1].fun].base
      BY <2>1
    <3>3. CASE i <= d
      <4>1. PICK q \in 1..m : hid[q][1] < i /\ i <= hid[q][2]
        BY <1>2, <2>1, <3>1, <3>3
      <4>2. p[q] \in 1..n /\ q \in 1..(m + 1) /\ h[q] = hid[q]
        BY <1>5, <1>6, <1>8
      <4>3. p[q] <= k
        BY <2>1, <4>2
      <4> QED BY <4>1, <4>2, <4>3
    <3>4. CASE ~(i <= d)
      <4>1. d < i /\ i <= b
        BY <1>3, <2>1, <3>4
      <4>2. m + 1 \in 1..(m + 1)
        BY <1>5
      <4>3. h[m + 1][1] = d /\ h[m + 1][2] = b /\ p[m + 1] <= k
        BY <1>6, <1>8, <2>1
      <4> QED BY <4>1, <4>2, <4>3
    <3> QED BY <3>3, <3>4
  <2>2. CASE k # n + 1
    <3>1. k \in 1..n /\ t[k] = s[k]
      BY <1>12, <2>2
    <3>2. i \in (s[s[k].fun].base + 1)..s[k].base
      BY <1>10, <3>1
    <3>3. PICK q \in 1..m : at[q] <= k /\ hid[q][1] < i /\ i <= hid[q][2]
      BY <1>1, <1>2, <3>1, <3>2 DEF Covers
    <3> QED BY <1>5, <1>6, <1>8, <3>3
  <2> QED BY <2>1, <2>2
<1> QED BY <1>3, <1>4, <1>13, <1>14 DEF Hiding

\* Another activation hides nothing, and sees what it starts with.
LEMMA HidingStays ==
    ASSUME NEW s \in Seq(Activation), Len(s) # 0, Links(s), NEW hid,
           Hiding(s, hid), NEW n \in Nat \ {0}, Len(s) = n, NEW t, Len(t) = n + 1,
           \A i \in 1..n : t[i] = s[i], t[n + 1].op # "promise", Len(hid) \in Nat,
           IsCode(t[n + 1]) => t[t[n + 1].fun].base = t[n + 1].base /\ t[n + 1].base \in Nat
    PROVE  Hiding(t, hid)
<1>1. PICK at : Hides(s, hid, at) /\ Covers(s, hid, at)
  BY DEF Hiding
<1>2. \A k \in 1..n : IsCode(s[k]) => /\ s[k].fun \in 1..n
                                      /\ t[s[k].fun].base = s[s[k].fun].base
  BY WriterIs
<1>3. \A k \in 1..(n + 1) : k = n + 1 \/ k \in 1..n
  OBVIOUS
<1>4. \A k \in 1..n : k \in 1..(n + 1)
  OBVIOUS
<1>5. Hides(t, hid, at)
  <2>1. at \in [1..Len(hid) -> 1..(n + 1)]
    BY <1>1, <1>4 DEF Hides
  <2>2. ASSUME NEW r \in 1..Len(hid)
        PROVE  /\ t[at[r]].op = "promise"
               /\ hid[r][2] = t[at[r]].base /\ t[t[at[r]].fun].base <= hid[r][1]
    <3>1. PICK k \in 1..n : k = at[r] /\ t[k] = s[k]
      BY <1>1 DEF Hides
    <3>2. s[k].op = "promise" /\ hid[r][2] = s[k].base /\ s[s[k].fun].base <= hid[r][1]
      BY <1>1, <3>1 DEF Hides
    <3>3. t[s[k].fun].base = s[s[k].fun].base
      BY <1>2, <3>2 DEF IsCode, Chunks
    <3> QED BY <3>1, <3>2, <3>3
  <2>3. \A k \in 1..(n + 1) : t[k].op = "promise" => \E r \in 1..Len(hid) : at[r] = k
    BY <1>1, <1>3 DEF Hides
  <2>4. \A q, r \in 1..Len(hid) : q < r => at[q] < at[r]
    BY <1>1 DEF Hides
  <2> QED BY <2>1, <2>2, <2>3, <2>4 DEF Hides
<1>6. Covers(t, hid, at)
  <2> SUFFICES ASSUME NEW k \in 1..(n + 1), IsCode(t[k]),
                      NEW i \in (t[t[k].fun].base + 1)..t[k].base
               PROVE  \E q \in 1..Len(hid) : at[q] <= k /\ hid[q][1] < i /\ i <= hid[q][2]
    BY DEF Covers
  <2>1. k # n + 1
    OBVIOUS
  <2>2. k \in 1..n /\ t[k] = s[k]
    BY <1>3, <2>1
  <2>3. i \in (s[s[k].fun].base + 1)..s[k].base
    BY <1>2, <2>2
  <2> QED BY <1>1, <2>2, <2>3 DEF Covers
<1> QED BY <1>5, <1>6 DEF Hiding

ContextSeq == Seq([of : Indices, entered : BOOLEAN])

\* The same activations, or all but the innermost; the contexts those stand on are
\* as they were.
LEMMA ShapeKeeps ==
    ASSUME NEW s, NEW cs, NEW hid, Shape(s, cs, hid), NEW n \in 1..Len(s),
           NEW t \in Seq(Activation), Len(t) = n, \A i \in 1..(n - 1) : t[i] = s[i],
           Alike(s[n], t[n]),
           NEW c \in ContextSeq, Len(c) >= B(s, n), \A i \in 1..B(s, n) : c[i] = cs[i],
           NEW h,
           \/ n = Len(s) /\ h = hid
           \/ Len(s) = n + 1 /\ s[n + 1].op # "promise" /\ h = hid
           \/ Len(s) = n + 1 /\ s[n + 1].op = "promise" /\ h = Front(hid)
    PROVE  Shape(t, c, h)
<1>1. /\ s \in Seq(Activation) /\ Len(s) # 0 /\ Links(s) /\ Len(s) \in Nat /\ n \in Nat \ {0}
      /\ hid \in Seq(Nat \X Nat) /\ Len(hid) \in Nat /\ Hiding(s, hid)
  BY LenProperties DEF Shape
<1>2. \A i \in 1..Len(s) : s[i] \in Activation /\ (s[i].op = "main" <=> i = 1)
  BY <1>1, MainFirst
<1>3. \A i \in 1..n : i \in 1..Len(s) /\ (i = n \/ i \in 1..(n - 1))
  BY <1>1
<1>4. \A i \in 1..n : Alike(s[i], t[i])
  BY <1>3 DEF Alike
<1>5. \A i \in 1..n : B(s, i) \in Nat /\ B(s, n) \in Nat /\ B(s, i) <= B(s, n)
  BY <1>1, <1>3, BMono
<1>6. Links(t)
  <2> SUFFICES ASSUME NEW k \in 1..n PROVE Link(t, k)
    BY DEF Links
  <2>1. k \in Nat \ {0} /\ \A i \in 1..k : i \in 1..n
    OBVIOUS
  <2>2. \A i \in 1..k : s[i] \in Activation /\ (s[i].op = "main" <=> i = 1)
    BY <1>2, <1>3, <2>1
  <2>3. \A i \in 1..(k - 1) : t[i] = s[i]
    <3>1. \A i \in 1..(k - 1) : i \in 1..(n - 1)
      OBVIOUS
    <3> QED BY <3>1
  <2>4. Link(s, k) /\ Alike(s[k], t[k])
    BY <1>1, <1>3, <1>4 DEF Links
  <2> QED BY <2>1, <2>2, <2>3, <2>4, LinkSame
<1>7. Nested(t)
  <2> SUFFICES ASSUME NEW k \in 1..n, NEW l \in 1..(k - 1), IsCode(t[k]), t[l].op = "promise"
               PROVE  t[k].fun <= t[l].fun \/ t[k].fun > l
    BY DEF Nested
  <2>1. t[l] = s[l] /\ k \in 1..Len(s) /\ l \in 1..(n - 1)
    BY <1>3
  <2>2. IsCode(s[k]) /\ t[k].fun = s[k].fun
    BY <1>4 DEF Alike, IsCode
  <2> QED BY <2>1, <2>2 DEF Shape, Nested
<1>8. B(t, n) = B(s, n)
  <2>1. n \in 1..n
    BY <1>1
  <2>2. n = 1 => s[n].op # "primitive"
    BY <1>2, <1>3
  <2>3. n # 1 => t[n - 1] = s[n - 1]
    BY <1>1
  <2> QED BY <1>1, <1>2, <1>3, <2>1, <2>2, <2>3, BSame
<1>9. Contexts(t, c)
  <2> SUFFICES ASSUME NEW k \in 1..n
               PROVE  /\ t[k].op = "call" => c[t[k].base] = Context(k)
                      /\ t[k].op = "promise" /\ IsChunk(t[k - 1])
                             /\ t[k].base = t[k - 1].base + 1 => ~c[t[k].base].entered
    BY <1>8 DEF Contexts
  <2>1. k \in 1..Len(s) /\ t[k].op = s[k].op /\ (IsCode(s[k]) => t[k].base = s[k].base)
    BY <1>3, <1>4 DEF Alike
  <2>2. ASSUME t[k].op = "call" PROVE c[t[k].base] = Context(k)
    <3>1. s[k].op = "call" /\ t[k].base = s[k].base /\ s[k].base = B(s, k)
      BY <2>1, <2>2 DEF IsCode, B
    <3>2. k # 1 /\ 1 \in 1..k
      BY <1>2, <2>1, <3>1
    <3>3. B(s, 1) \in Nat /\ B(s, 1) < B(s, k)
      BY <1>1, <2>1, <3>1, <3>2, BMono
    <3>4. s[k].base \in 1..B(s, n)
      BY <1>5, <3>1, <3>3
    <3>5. cs[s[k].base] = Context(k)
      BY <2>1, <3>1 DEF Shape, Contexts
    <3> QED BY <3>1, <3>4, <3>5
  <2>3. ASSUME t[k].op = "promise", IsChunk(t[k - 1]), t[k].base = t[k - 1].base + 1
        PROVE  ~c[t[k].base].entered
    <3>1. s[k].op = "promise" /\ t[k].base = s[k].base /\ s[k].base = B(s, k)
      BY <2>1, <2>3 DEF IsCode, B, Chunks
    <3>2. k # 1
      BY <1>2, <2>1, <3>1
    <3>3. k - 1 \in 1..(n - 1) /\ k - 1 \in 1..n
      BY <3>2
    <3>4. t[k - 1] = s[k - 1] /\ s[k - 1] \in Activation
      BY <1>2, <1>3, <3>3
    <3>5. s[k - 1].base \in Nat
      BY <2>3, <3>4, Kinds
    <3>6. s[k].base \in 1..B(s, n)
      BY <1>5, <2>3, <3>1, <3>4, <3>5
    <3>7. ~cs[s[k].base].entered
      BY <2>1, <2>3, <3>1, <3>4 DEF Shape, Contexts
    <3> QED BY <3>1, <3>6, <3>7
  <2> QED BY <2>2, <2>3
<1>10. h \in Seq(Nat \X Nat) /\ Hiding(t, h)
  <2>1. CASE n = Len(s) /\ h = hid
    <3>1. \A k \in 1..Len(s) : s[k].op = "promise" => k \in 1..n
      BY <2>1
    <3>2. Hiding(t, hid)
      BY <1>1, <1>4, <3>1, HidingKeeps
    <3> QED BY <1>1, <2>1, <3>2
  <2>2. CASE Len(s) = n + 1 /\ s[n + 1].op # "promise" /\ h = hid
    <3>1. \A k \in 1..Len(s) : s[k].op = "promise" => k \in 1..n
      <4>1. \A k \in 1..(n + 1) : k = n + 1 \/ k \in 1..n
        BY <1>1
      <4> QED BY <2>2, <4>1
    <3>2. Hiding(t, hid)
      BY <1>1, <1>4, <3>1, HidingKeeps
    <3> QED BY <1>1, <2>2, <3>2
  <2>3. CASE Len(s) = n + 1 /\ s[n + 1].op = "promise" /\ h = Front(hid)
    <3>1. Len(hid) # 0 /\ Hiding(t, Front(hid))
      BY <1>1, <1>4, <2>3, HidingPops
    <3> QED BY <1>1, <2>3, <3>1, FrontIs
  <2> QED BY <2>1, <2>2, <2>3
<1> QED BY <1>1, <1>6, <1>7, <1>9, <1>10 DEF Shape, ContextSeq

\* One more activation, linked to those below it.
LEMMA PushLinks ==
    ASSUME NEW s, NEW cs, NEW hid, Shape(s, cs, hid), NEW n, n = Len(s),
           NEW a \in Activation, Link(Append(s, a), n + 1),
           NEW c \in ContextSeq, Len(c) >= B(Append(s, a), n + 1),
           \A i \in 1..B(s, n) : c[i] = cs[i],
           a.op = "call" => c[a.base] = Context(n + 1),
           a.op = "promise" /\ IsChunk(s[n]) /\ a.base = s[n].base + 1 => ~c[a.base].entered
    PROVE  /\ Append(s, a) \in Seq(Activation) /\ Len(Append(s, a)) # 0
           /\ Links(Append(s, a)) /\ Contexts(Append(s, a), c)
<1>1. /\ s \in Seq(Activation) /\ Len(s) # 0 /\ Links(s) /\ Len(s) \in Nat /\ n \in Nat \ {0}
      /\ hid \in Seq(Nat \X Nat) /\ Len(hid) \in Nat /\ Hiding(s, hid)
  BY LenProperties DEF Shape
<1>2. \A i \in 1..n : s[i] \in Activation /\ (s[i].op = "main" <=> i = 1)
  BY <1>1, MainFirst
<1>3. PICK t : t = Append(s, a)
  OBVIOUS
<1>4. t \in Seq(Activation) /\ Len(t) = n + 1 /\ t[n + 1] = a /\ \A i \in 1..n : t[i] = s[i]
  BY <1>1, <1>3, AppendProperties
<1>5. \A k \in 1..(n + 1) : k = n + 1 \/ k \in 1..n
  BY <1>1
<1>6. Links(t)
  <2> SUFFICES ASSUME NEW k \in 1..(n + 1) PROVE Link(t, k)
    BY <1>4 DEF Links
  <2>1. CASE k = n + 1
    BY <1>3, <2>1
  <2>2. CASE k # n + 1
    <3>1. k \in 1..n /\ k \in Nat \ {0} /\ \A i \in 1..k : i \in 1..n
      BY <1>5, <2>2
    <3>2. Link(s, k) /\ Alike(s[k], t[k])
      BY <1>1, <1>4, <3>1 DEF Links, Alike
    <3>3. \A i \in 1..(k - 1) : t[i] = s[i]
      <4>1. \A i \in 1..(k - 1) : i \in 1..n
        BY <3>1
      <4> QED BY <1>4, <4>1
    <3> QED BY <1>2, <3>1, <3>2, <3>3, LinkSame
  <2> QED BY <2>1, <2>2
<1>7. Contexts(t, c)
  <2> SUFFICES ASSUME NEW k \in 1..(n + 1)
               PROVE  /\ t[k].op = "call" => c[t[k].base] = Context(k)
                      /\ t[k].op = "promise" /\ IsChunk(t[k - 1])
                             /\ t[k].base = t[k - 1].base + 1 => ~c[t[k].base].entered
    BY <1>3, <1>4 DEF Contexts
  <2>1. CASE k = n + 1
    <3>1. n + 1 - 1 = n /\ n \in 1..n
      BY <1>1
    <3> QED BY <1>4, <2>1, <3>1
  <2>2. CASE k # n + 1
    <3>1. k \in 1..n /\ t[k] = s[k] /\ k \in 1..Len(s) /\ n \in 1..Len(s)
      BY <1>1, <1>4, <1>5, <2>2
    <3>2. \A i \in 1..n : B(s, i) \in Nat /\ B(s, n) \in Nat /\ B(s, i) <= B(s, n)
      BY <1>1, <3>1, BMono
    <3>3. ASSUME t[k].op = "call" PROVE c[t[k].base] = Context(k)
      <4>1. s[k].op = "call" /\ s[k].base = B(s, k)
        BY <3>1, <3>3 DEF B
      <4>2. k # 1 /\ 1 \in 1..k
        BY <1>2, <3>1, <4>1
      <4>3. B(s, 1) \in Nat /\ B(s, 1) < B(s, k)
        BY <1>1, <3>1, <4>1, <4>2, BMono
      <4>4. s[k].base \in 1..B(s, n)
        BY <3>1, <3>2, <4>1, <4>3
      <4>5. cs[s[k].base] = Context(k)
        BY <3>1, <4>1 DEF Shape, Contexts
      <4> QED BY <3>1, <4>4, <4>5
    <3>4. ASSUME t[k].op = "promise", IsChunk(t[k - 1]), t[k].base = t[k - 1].base + 1
          PROVE  ~c[t[k].base].entered
      <4>1. s[k].op = "promise" /\ s[k].base = B(s, k)
        BY <3>1, <3>4 DEF B
      <4>2. k # 1
        BY <1>2, <3>1, <4>1
      <4>3. k - 1 \in 1..n
        BY <3>1, <4>2
      <4>4. t[k - 1] = s[k - 1] /\ s[k - 1] \in Activation
        BY <1>2, <1>4, <4>3
      <4>5. s[k - 1].base \in Nat
        BY <3>4, <4>4, Kinds
      <4>6. s[k].base \in 1..B(s, n)
        BY <3>1, <3>2, <3>4, <4>1, <4>4, <4>5
      <4>7. ~cs[s[k].base].entered
        BY <3>1, <3>4, <4>1, <4>4 DEF Shape, Contexts
      <4> QED BY <3>1, <4>6, <4>7
    <3> QED BY <3>3, <3>4
  <2> QED BY <2>1, <2>2
<1> QED BY <1>1, <1>3, <1>4, <1>6, <1>7

\* One more activation that is not a promise.
LEMMA PushPlain ==
    ASSUME NEW s, NEW cs, NEW hid, Shape(s, cs, hid), NEW n, n = Len(s),
           NEW a \in Activation, a.op \in {"call", "primitive", "tryCatch", "cleanup"},
           Link(Append(s, a), n + 1),
           NEW c \in ContextSeq, Len(c) >= B(Append(s, a), n + 1),
           \A i \in 1..B(s, n) : c[i] = cs[i],
           a.op = "call" => c[a.base] = Context(n + 1)
    PROVE  Shape(Append(s, a), c, hid)
<1>1. /\ s \in Seq(Activation) /\ Len(s) # 0 /\ Links(s) /\ Len(s) \in Nat /\ n \in Nat \ {0}
      /\ hid \in Seq(Nat \X Nat) /\ Len(hid) \in Nat /\ Hiding(s, hid)
  BY LenProperties DEF Shape
<1>2. \A i \in 1..n : s[i] \in Activation /\ (s[i].op = "main" <=> i = 1)
  BY <1>1, MainFirst
<1>3. PICK t : t = Append(s, a)
  OBVIOUS
<1>4. t \in Seq(Activation) /\ Len(t) = n + 1 /\ t[n + 1] = a /\ \A i \in 1..n : t[i] = s[i]
  BY <1>1, <1>3, AppendProperties
<1>5. \A k \in 1..(n + 1) : k = n + 1 \/ k \in 1..n
  BY <1>1, SMTT(30)
<1>6. t \in Seq(Activation) /\ Len(t) # 0 /\ Links(t) /\ Contexts(t, c)
  BY <1>3, PushLinks
<1>7. a.op = "cleanup" => a.fun = n /\ s[n].op = "call" /\ a.base = s[n].base
  <2>1. n + 1 - 1 = n /\ t[n] = s[n]
    BY <1>1, <1>4
  <2> QED BY <1>3, <1>4, <2>1 DEF Link, CleanupLink
<1>8. a.op = "call" => a.fun = n + 1
  BY <1>3, <1>4 DEF Link, CallLink
<1>9. IsCode(a) => a.op \in {"call", "cleanup"}
  BY DEF IsCode, Chunks
<1>10. Nested(t)
  <2> SUFFICES ASSUME NEW k \in 1..(n + 1), NEW l \in 1..(k - 1), IsCode(t[k]),
                      t[l].op = "promise"
               PROVE  t[k].fun <= t[l].fun \/ t[k].fun > l
    BY <1>4 DEF Nested
  <2>1. l \in 1..n /\ t[l] = s[l]
    BY <1>1, <1>4
  <2>2. CASE k = n + 1
    <3>1. l # n \/ a.op # "cleanup"
      BY <1>7, <2>1
    <3> QED BY <1>1, <1>4, <1>7, <1>8, <1>9, <2>1, <2>2, <3>1
  <2>3. CASE k # n + 1
    <3>1. k \in 1..n /\ t[k] = s[k]
      BY <1>4, <1>5, <2>3
    <3> QED BY <1>1, <2>1, <3>1 DEF Shape, Nested
  <2> QED BY <2>2, <2>3
<1>11. Hiding(t, hid)
  <2>1. IsCode(a) => t[a.fun].base = a.base
    <3>1. n \in 1..n
      BY <1>1
    <3> QED BY <1>4, <1>7, <1>8, <1>9, <3>1
  <2>2. IsCode(a) => a.base \in Nat
    BY Kinds
  <2> QED BY <1>1, <1>4, <2>1, <2>2, HidingStays
<1> QED BY <1>1, <1>3, <1>6, <1>10, <1>11 DEF Shape, ContextSeq

\* One more promise: it hides what the promises below it leave between the call
\* its code is written in and the depth it was created at, and all from there on.
LEMMA PushPromise ==
    ASSUME NEW s, NEW cs, NEW hid, Shape(s, cs, hid), NEW n, n = Len(s),
           NEW a \in Activation, a.op = "promise", Link(Append(s, a), n + 1),
           \A l \in 1..n : s[l].op = "promise" => a.fun <= s[l].fun \/ a.fun > l,
           NEW c \in ContextSeq, Len(c) >= a.base, \A i \in 1..B(s, n) : c[i] = cs[i],
           IsChunk(s[n]) /\ a.base = s[n].base + 1 => ~c[a.base].entered,
           NEW d \in Nat, s[a.fun].base <= d,
           \A i \in (s[a.fun].base + 1)..d :
               \E r \in 1..Len(hid) : hid[r][1] < i /\ i <= hid[r][2]
    PROVE  Shape(Append(s, a), c, Append(hid, <<d, a.base>>))
<1>1. /\ s \in Seq(Activation) /\ Len(s) # 0 /\ Links(s) /\ Len(s) \in Nat /\ n \in Nat \ {0}
      /\ hid \in Seq(Nat \X Nat) /\ Len(hid) \in Nat /\ Hiding(s, hid)
  BY LenProperties DEF Shape
<1>2. \A i \in 1..n : s[i] \in Activation /\ (s[i].op = "main" <=> i = 1)
  BY <1>1, MainFirst
<1>3. PICK t : t = Append(s, a)
  OBVIOUS
<1>4. t \in Seq(Activation) /\ Len(t) = n + 1 /\ t[n + 1] = a /\ \A i \in 1..n : t[i] = s[i]
  BY <1>1, <1>3, AppendProperties
<1>5. \A k \in 1..(n + 1) : k = n + 1 \/ k \in 1..n
  BY <1>1
<1>6. t \in Seq(Activation) /\ Len(t) # 0 /\ Links(t) /\ Contexts(t, c)
  <2>1. Len(c) >= B(Append(s, a), n + 1)
    BY <1>3, <1>4 DEF B
  <2> QED BY <1>3, <2>1, PushLinks
<1>7. Nested(t)
  <2> SUFFICES ASSUME NEW k \in 1..(n + 1), NEW l \in 1..(k - 1), IsCode(t[k]),
                      t[l].op = "promise"
               PROVE  t[k].fun <= t[l].fun \/ t[k].fun > l
    BY <1>4 DEF Nested
  <2>1. l \in 1..n /\ t[l] = s[l]
    BY <1>1, <1>4
  <2>2. CASE k = n + 1
    BY <1>4, <2>1, <2>2
  <2>3. CASE k # n + 1
    <3>1. k \in 1..n /\ t[k] = s[k]
      BY <1>4, <1>5, <2>3
    <3> QED BY <1>1, <2>1, <3>1 DEF Shape, Nested
  <2> QED BY <2>2, <2>3
<1>8. a.fun \in 1..n /\ a.base \in Nat
  <2>1. n + 1 - 1 = n
    BY <1>1
  <2>2. a.fun \in 1..n
    BY <1>3, <1>4, <2>1 DEF Link, PromiseLink
  <2> QED BY <2>2, Kinds DEF IsCode, Chunks
<1>9. PICK b : b = a.base
  OBVIOUS
<1>10. Hiding(t, Append(hid, <<d, t[n + 1].base>>))
  <2>1. t[n + 1].op = "promise" /\ t[n + 1].fun \in 1..n /\ t[n + 1].base \in Nat
    BY <1>4, <1>8
  <2>2. /\ s[t[n + 1].fun].base <= d
        /\ \A i \in (s[t[n + 1].fun].base + 1)..d :
               \E r \in 1..Len(hid) : hid[r][1] < i /\ i <= hid[r][2]
    BY <1>4
  <2> QED BY <1>1, <1>4, <2>1, <2>2, HidingGrows
<1>11. Append(hid, <<d, a.base>>) \in Seq(Nat \X Nat)
  <2>1. PICK e \in Nat \X Nat : e = <<d, b>>
    BY <1>8, <1>9
  <2>2. Append(hid, e) \in Seq(Nat \X Nat)
    BY <1>1, AppendProperties
  <2> QED BY <1>9, <2>1, <2>2
<1> QED BY <1>3, <1>4, <1>6, <1>7, <1>10, <1>11 DEF Shape, ContextSeq

-----------------------------------------------------------------------------
(* What the invariant gives a step *)

\* Where a step starts.
LEMMA Standing ==
    ASSUME IInv
    PROVE  /\ stack \in Seq(Activation) /\ Here \in Nat \ {0} /\ Here <= MaxStack
           /\ Here \in 1..Here /\ Top \in Activation /\ Here = Len(stack)
           /\ Len(stack) # 0 /\ Links(stack) /\ Link(stack, Here)
           /\ \A k \in 1..Here : stack[k] \in Activation /\ (stack[k].op = "main" <=> k = 1)
           /\ calls \in ContextSeq /\ Len(calls) \in Nat
           /\ hidden \in Seq(Nat \X Nat)
           /\ B(stack, Here) \in Nat /\ Len(calls) >= B(stack, Here)
           /\ Top = stack[Here]
<1>1. stack \in Seq(Activation) /\ Len(stack) # 0 /\ Links(stack)
  BY DEF IInv, Shape
<1>2. Here \in Nat \ {0} /\ Here \in 1..Here /\ Here = Len(stack)
  BY <1>1, LenProperties DEF Here
<1>3. \A k \in 1..Here : stack[k] \in Activation /\ (stack[k].op = "main" <=> k = 1)
  BY <1>1, <1>2, MainFirst
<1>4. B(stack, Here) \in Nat
  BY <1>1, <1>2, BMono
<1>5. calls \in ContextSeq /\ Len(calls) \in Nat
  BY LenProperties DEF IInv, Shape, ContextSeq
<1>6. Link(stack, Here)
  BY <1>1, <1>2 DEF Links
<1>7. Len(calls) >= B(stack, Here)
  BY <1>2 DEF IInv, Shape, Contexts
<1>8. hidden \in Seq(Nat \X Nat) /\ Here <= MaxStack
  BY DEF IInv, Shape
<1> QED BY <1>1, <1>2, <1>3, <1>4, <1>5, <1>6, <1>7, <1>8 DEF Top

\* Where it must end.
LEMMA Ends ==
    ASSUME Shape(stack', calls', hidden'), Heights(stack', calls'), Len(stack') <= MaxStack,
           flow' \in {"run", "ok", "err"}, signal' \in SignalSet,
           flow' = "run" => IsChunk(stack'[Len(stack')])
    PROVE  IInv'
BY DEF IInv, Here, Top

\* An activation that is not a promise, a chunk, or the program has one below it.
LEMMA Below ==
    ASSUME IInv, Top.op # "main"
    PROVE  /\ Here - 1 \in 1..Here /\ Here - 1 \in Nat \ {0} /\ Here \in 2..Here
           /\ stack[Here - 1] \in Activation
           /\ B(stack, Here - 1) \in Nat /\ B(stack, Here - 1) <= B(stack, Here)
           /\ IsChunk(stack[Here - 1]) =>
                  B(stack, Here - 1) = stack[Here - 1].base /\ stack[Here - 1].base \in Nat
<1>1. Here # 1
  BY Standing
<1>2. Here - 1 \in 1..Here /\ Here - 1 \in Nat \ {0} /\ Here \in 2..Here
  BY <1>1, Standing
<1>3. stack[Here - 1] \in Activation
  BY <1>2, Standing
<1>4. B(stack, Here - 1) \in Nat /\ B(stack, Here - 1) <= B(stack, Here)
  BY <1>2, Standing, BMono
<1>5. IsChunk(stack[Here - 1]) => stack[Here - 1].op # "primitive"
  BY DEF IsChunk, Chunks
<1> QED BY <1>2, <1>3, <1>4, <1>5 DEF B

\* Contexts cut back.
LEMMA CutIs ==
    ASSUME NEW cs \in ContextSeq, NEW n \in Nat, n <= Len(cs)
    PROVE  /\ Cut(cs, n) \in ContextSeq /\ Len(Cut(cs, n)) = n
           /\ \A i \in 1..n : Cut(cs, n)[i] = cs[i]
<1>1. n \in 0..Len(cs)
  BY LenProperties DEF ContextSeq
<1> QED BY <1>1, FirstPart DEF Cut, ContextSeq

\* One more context.
LEMMA PlusContext ==
    ASSUME NEW cs \in ContextSeq, NEW k \in Indices
    PROVE  /\ Append(cs, Context(k)) \in ContextSeq
           /\ Len(Append(cs, Context(k))) = Len(cs) + 1
           /\ Append(cs, Context(k))[Len(cs) + 1] = Context(k)
           /\ \A i \in 1..Len(cs) : Append(cs, Context(k))[i] = cs[i]
<1>1. PICK c \in [of : Indices, entered : BOOLEAN] : c = Context(k)
  BY DEF Context
<1>2. /\ Append(cs, c) \in ContextSeq
      /\ Len(Append(cs, c)) = Len(cs) + 1
      /\ Append(cs, c)[Len(cs) + 1] = c
      /\ \A i \in 1..Len(cs) : Append(cs, c)[i] = cs[i]
  BY AppendProperties DEF ContextSeq
<1> QED BY <1>1, <1>2

\* Running code.
LEMMA Running ==
    ASSUME IInv, Runs
    PROVE  /\ IsChunk(Top) /\ IsCode(Top) /\ Top.base \in Nat /\ B(stack, Here) = Top.base
           /\ Top.fun \in 1..Here /\ Top.fun \in Indices
           /\ Len(calls) \in {Top.base, Top.base + 1}
           /\ Opened <=> Len(calls) = Top.base + 1
           /\ Opened => ~calls[Len(calls)].entered /\ Here < MaxStack
           /\ Top.loop \in BOOLEAN /\ Top.arg \in BOOLEAN /\ Top.loopAt \in 0..MaxStack
           /\ MaxStack \in Nat
<1>1. IsChunk(Top) /\ Top \in Activation
  BY Standing DEF Runs
<1>2. IsCode(Top) /\ Top.base \in Nat /\ Top.fun \in Indices
  BY <1>1, Kinds
<1>3. B(stack, Here) = Top.base
  BY <1>1, Standing DEF B, IsChunk, Chunks
<1>4. /\ Len(calls) \in {Top.base, Top.base + 1}
      /\ Len(calls) = Top.base + 1 => ~calls[Len(calls)].entered /\ Here < MaxStack
  BY <1>1, Standing DEF IInv, Heights, Top
<1>5. Top.fun \in 1..Here
  BY <1>2, Standing, WriterIs
<1>6. MaxStack \in Nat
  BY SignalsAssumption
<1>7. Top \in ChunkSet \/ Top \in CallSet
  BY <1>1, Kinds DEF IsChunk
<1>8. Top.loop \in BOOLEAN /\ Top.arg \in BOOLEAN /\ Top.loopAt \in 0..MaxStack
  <2>1. CASE Top \in ChunkSet
    BY <2>1 DEF ChunkSet
  <2>2. CASE Top \in CallSet
    <3>1. Top.loop \in BOOLEAN /\ Top.arg \in {FALSE} /\ Top.loopAt \in {0}
      BY <2>2 DEF CallSet
    <3>2. Top.loopAt \in 0..MaxStack
      BY <1>6, <3>1
    <3>3. Top.arg \in BOOLEAN
      BY <3>1, Zenon
    <3> QED BY <3>1, <3>2, <3>3
  <2> QED BY <1>7, <2>1, <2>2
<1> QED BY <1>1, <1>2, <1>3, <1>4, <1>5, <1>6, <1>8 DEF Opened

\* A context being opened is entered.
LEMMA EnteredIs ==
    ASSUME IInv, Runs, Opened
    PROVE  /\ Entered \in ContextSeq /\ Len(Entered) = Top.base + 1
           /\ \A i \in 1..Top.base : Entered[i] = calls[i]
           /\ Entered[Top.base + 1] = Context(Here + 1)
           /\ EnteredDepth = Top.base /\ Len(calls) = Top.base + 1 /\ Here + 1 \in Indices
<1>1. Len(calls) = Top.base + 1 /\ Top.base \in Nat /\ Here < MaxStack /\ MaxStack \in Nat
  BY Running
<1>2. Here + 1 \in Indices
  BY <1>1, Standing DEF Indices
<1>3. PICK f : f = Front(calls)
  OBVIOUS
<1>4. f \in ContextSeq /\ Len(f) = Top.base /\ \A i \in 1..Top.base : f[i] = calls[i]
  <2>1. Len(calls) - 1 = Top.base /\ Top.base <= Len(calls)
    BY <1>1
  <2> QED BY <1>1, <1>3, <2>1, Standing, CutIs DEF Front
<1>5. Entered = Append(f, Context(Here + 1))
  BY <1>3 DEF Entered
<1>6. EnteredDepth = Top.base
  BY <1>1 DEF EnteredDepth
<1> QED BY <1>1, <1>2, <1>4, <1>5, <1>6, PlusContext

-----------------------------------------------------------------------------
(* What a program may do *)

\* The contexts change above those that the activations stand on.
LEMMA StackStays ==
    ASSUME IInv, NEW c \in ContextSeq, Len(c) >= B(stack, Here),
           \A i \in 1..B(stack, Here) : c[i] = calls[i]
    PROVE  Shape(stack, c, hidden)
<1>1. PICK n : n = Here
  OBVIOUS
<1>2. /\ n \in 1..Len(stack) /\ n = Len(stack) /\ stack \in Seq(Activation)
      /\ Shape(stack, calls, hidden)
  BY <1>1, Standing DEF IInv
<1>3. (\A i \in 1..(n - 1) : stack[i] = stack[i]) /\ Alike(stack[n], stack[n])
  BY DEF Alike
<1>4. Len(c) >= B(stack, n) /\ \A i \in 1..B(stack, n) : c[i] = calls[i]
  BY <1>1
<1> QED BY <1>2, <1>3, <1>4, ShapeKeeps

\* Opening a call adds a context that is not entered.
LEMMA OpenCallInv == ASSUME IInv, OpenCall PROVE IInv'
<1>1. /\ Runs /\ ~Opened /\ Here < MaxStack /\ Here \in Nat /\ MaxStack \in Nat
      /\ UNCHANGED <<stack, flow, signal, hidden>> /\ IsChunk(Top)
  BY Standing, Running DEF OpenCall
<1>2. PICK e : e = [of |-> Here + 1, entered |-> FALSE]
  OBVIOUS
<1>3. e \in [of : Indices, entered : BOOLEAN] /\ ~e.entered
  <2>1. Here + 1 \in Indices
    BY <1>1 DEF Indices
  <2> QED BY <1>2, <2>1
<1>4. PICK c : c = Append(calls, e)
  OBVIOUS
<1>5. /\ c \in ContextSeq /\ Len(c) = Len(calls) + 1 /\ c[Len(calls) + 1] = e
      /\ \A i \in 1..Len(calls) : c[i] = calls[i]
  BY <1>3, <1>4, Standing, AppendProperties DEF ContextSeq
<1>6. calls' = c
  BY <1>2, <1>4 DEF OpenCall
<1>7. Len(calls) = Top.base /\ B(stack, Here) = Top.base /\ Top.base \in Nat
  BY <1>1, Running
<1>8. Shape(stack, c, hidden)
  <2>1. Len(c) >= B(stack, Here) /\ \A i \in 1..B(stack, Here) : c[i] = calls[i]
    BY <1>5, <1>7
  <2> QED BY <1>5, <2>1, StackStays
<1>9. Heights(stack, c)
  <2>1. Len(c) = Top.base + 1 /\ ~c[Len(c)].entered
    BY <1>3, <1>5, <1>7
  <2>2. stack[Len(stack)] = Top /\ Len(stack) < MaxStack
    BY <1>1, Standing
  <2>3. Top.op # "primitive" /\ Top.op # "tryCatch"
    BY <1>1 DEF IsChunk, Chunks
  <2> QED BY <1>1, <2>1, <2>2, <2>3 DEF Heights
<1> QED BY <1>1, <1>6, <1>8, <1>9 DEF IInv, Here, Top

\* A chunk that halts leaves everything where it is.
LEMMA HaltInv ==
    ASSUME IInv, UNCHANGED <<stack, calls, hidden>>, flow' \in {"ok", "err"},
           signal' \in SignalSet
    PROVE  IInv'
<1>1. Shape(stack', calls', hidden') /\ Heights(stack', calls') /\ Len(stack') <= MaxStack
  BY DEF IInv, Here
<1> QED BY <1>1, Ends

\* A signal names an activation that stands.
LEMMA SignalIs ==
    ASSUME NEW k \in Indices
    PROVE  Return(k) \in SignalSet /\ Jump(k) \in SignalSet
BY DEF Return, Jump, SignalSet

\* return().
LEMMA DoReturnInv == ASSUME IInv, DoReturn PROVE IInv'
<1>1. Runs /\ signal' = Return(Top.fun) /\ flow' = "ok" /\ UNCHANGED <<stack, calls, hidden>>
  BY DEF DoReturn
<1>2. signal' \in SignalSet
  BY <1>1, Running, SignalIs
<1> QED BY <1>1, <1>2, HaltInv

\* break and next in a lazy body.
LEMMA LoopSignalInv == ASSUME IInv, LoopSignal PROVE IInv'
<1>1. /\ Runs /\ Top.loopAt # 0 /\ signal' = Jump(Top.loopAt) /\ flow' = "ok"
      /\ UNCHANGED <<stack, calls, hidden>>
  BY DEF LoopSignal
<1>2. Top.loopAt \in Indices
  BY <1>1, Running DEF Indices
<1>3. signal' \in SignalSet
  BY <1>1, <1>2, SignalIs
<1> QED BY <1>1, <1>3, HaltInv

\* The end of a chunk.
LEMMA EndInv == ASSUME IInv, End PROVE IInv'
BY HaltInv DEF End, IInv

\* An error.
LEMMA FailInv == ASSUME IInv, Fail PROVE IInv'
BY HaltInv DEF Fail, IInv

\* A loop begins or ends in running code.
LEMMA LoopInv == ASSUME IInv, Loop PROVE IInv'
<1>1. /\ Runs /\ ~Opened /\ stack' = [stack EXCEPT ![Here] = [Top EXCEPT !.loop = ~@]]
      /\ UNCHANGED <<flow, signal, calls, hidden>>
  BY DEF Loop, Becomes
<1>2. /\ IsChunk(Top) /\ Top.loop \in BOOLEAN /\ B(stack, Here) = Top.base /\ Top.base \in Nat
      /\ Len(calls) = Top.base
  BY <1>1, Running
<1>3. PICK a : a = [Top EXCEPT !.loop = ~@]
  OBVIOUS
<1>4. /\ a \in Activation /\ Alike(Top, a) /\ IsChunk(a) /\ a.base = Top.base
      /\ a.op # "primitive" /\ a.op # "tryCatch"
  <2>1. Top \in ChunkSet \/ Top \in CallSet
    BY <1>2, Standing, Kinds DEF IsChunk
  <2>2. CASE Top \in ChunkSet
    <3>1. a \in ChunkSet
      BY <1>3, <2>2 DEF ChunkSet
    <3>2. a.op = Top.op /\ a.base = Top.base /\ a.fun = Top.fun /\ Top.op \in Chunks
      BY <1>3, <2>2 DEF ChunkSet
    <3> QED BY <3>1, <3>2 DEF Activation, Alike, IsChunk, Chunks
  <2>3. CASE Top \in CallSet
    <3>1. a \in CallSet
      BY <1>3, <2>3 DEF CallSet
    <3>2. /\ a.op = Top.op /\ a.base = Top.base /\ a.fun = Top.fun /\ Top.op = "call"
          /\ a.args = Top.args /\ a.phase = Top.phase
      BY <1>3, <2>3 DEF CallSet
    <3> QED BY <1>2, <3>1, <3>2 DEF Activation, Alike, IsChunk, Chunks
  <2> QED BY <2>1, <2>2, <2>3
<1>5. PICK n : n = Here
  OBVIOUS
<1>6. PICK t : t = stack'
  OBVIOUS
<1>7. /\ t \in Seq(Activation) /\ Len(t) = n /\ t[n] = a
      /\ \A i \in 1..(n - 1) : t[i] = stack[i]
  BY <1>1, <1>3, <1>4, <1>5, <1>6, Standing, ExceptSeq
<1>8. Shape(t, calls, hidden)
  <2>1. n \in 1..Len(stack) /\ n = Len(stack) /\ Shape(stack, calls, hidden)
    BY <1>5, Standing DEF IInv
  <2>2. Alike(stack[n], t[n])
    BY <1>4, <1>5, <1>7, Standing
  <2>3. calls \in ContextSeq /\ Len(calls) >= B(stack, n)
    BY <1>5, Standing
  <2> QED BY <1>7, <2>1, <2>2, <2>3, ShapeKeeps
<1>9. Heights(t, calls)
  BY <1>2, <1>4, <1>7 DEF Heights
<1>10. n <= MaxStack
  BY <1>5, Standing
<1>11. flow' \in {"run", "ok", "err"} /\ signal' \in SignalSet
  BY <1>1 DEF IInv
<1> QED BY <1>1, <1>4, <1>6, <1>7, <1>8, <1>9, <1>10, <1>11, Ends

\* A closure call is an activation.
LEMMA ClosureCallIs ==
    ASSUME NEW n \in Indices, NEW base \in Nat, NEW depth \in Nat \cup {None},
           NEW exit \in BOOLEAN, NEW a, a = ClosureCall(n, base, depth, exit)
    PROVE  /\ a \in Activation /\ IsChunk(a) /\ a.op = "call"
           /\ a.fun = n /\ a.base = base /\ a.args = depth
BY DEF ClosureCall, Activation, CallSet, SignalSet, IsChunk

\* A lazily evaluated body or argument is an activation.
LEMMA PromiseIs ==
    ASSUME NEW f \in Indices, NEW base \in Nat, NEW l \in 0..MaxStack, NEW g \in BOOLEAN,
           NEW a, a = Chunk("promise", f, base, l, g)
    PROVE  /\ a \in Activation /\ IsChunk(a) /\ a.op = "promise"
           /\ a.fun = f /\ a.base = base
BY DEF Chunk, Activation, ChunkSet, IsChunk, Chunks

\* A closure is called, under the context that was opened for it.
LEMMA CallInv == ASSUME IInv, NEW args \in BOOLEAN, NEW exit \in BOOLEAN, Call(args, exit) PROVE IInv'
<1>1. Runs /\ Opened /\ calls' = Entered /\ UNCHANGED <<flow, signal, hidden>>
  BY DEF Call
<1>2. PICK d : d = IF args THEN EnteredDepth ELSE None
  OBVIOUS
<1>3. PICK a : a = ClosureCall(Here + 1, Len(calls), d, exit)
  OBVIOUS
<1>4. stack' = Append(stack, a)
  BY <1>2, <1>3 DEF Call
<1>5. /\ Entered \in ContextSeq /\ Len(Entered) = Top.base + 1
      /\ \A i \in 1..Top.base : Entered[i] = calls[i]
      /\ Entered[Top.base + 1] = Context(Here + 1)
      /\ EnteredDepth = Top.base /\ Len(calls) = Top.base + 1 /\ Here + 1 \in Indices
  BY <1>1, EnteredIs
<1>6. Top.base \in Nat /\ B(stack, Here) = Top.base /\ IsChunk(Top) /\ Here < MaxStack
  BY <1>1, Running
<1>7. d \in Nat \cup {None} /\ (d # None => d = Top.base)
  BY <1>2, <1>5, <1>6
<1>8. /\ a \in Activation /\ IsChunk(a) /\ a.op = "call"
      /\ a.fun = Here + 1 /\ a.base = Top.base + 1 /\ a.args = d
  <2>1. Len(calls) \in Nat /\ exit \in BOOLEAN
    BY Standing
  <2> QED BY <1>3, <1>5, <1>7, <2>1, ClosureCallIs
<1>9. PICK n : n = Here
  OBVIOUS
<1>10. PICK t : t = Append(stack, a)
  OBVIOUS
<1>11. /\ t \in Seq(Activation) /\ Len(t) = n + 1 /\ t[n + 1] = a
       /\ \A i \in 1..n : t[i] = stack[i]
  BY <1>8, <1>9, <1>10, Standing, AppendProperties
<1>12. n + 1 - 1 = n /\ t[n] = Top /\ n \in Nat \ {0} /\ n + 1 # 1
  BY <1>9, <1>11, Standing
<1>13. B(t, n) = Top.base /\ B(t, n + 1) = a.base
  BY <1>6, <1>8, <1>11, <1>12 DEF B, IsChunk, Chunks
<1>14. Link(t, n + 1)
  <2>1. CallLink(t, n + 1)
    BY <1>6, <1>7, <1>8, <1>9, <1>11, <1>12, <1>13 DEF CallLink
  <2> QED BY <1>8, <1>11, <1>12, <2>1 DEF Link
<1>15. Shape(t, Entered, hidden)
  <2>1. Shape(stack, calls, hidden) /\ n = Len(stack)
    BY <1>9, Standing DEF IInv
  <2>2. Len(Entered) >= B(Append(stack, a), n + 1) /\ Link(Append(stack, a), n + 1)
    BY <1>5, <1>6, <1>8, <1>10, <1>13, <1>14
  <2>3. \A i \in 1..B(stack, n) : Entered[i] = calls[i]
    BY <1>5, <1>6, <1>9
  <2>4. Entered[a.base] = Context(n + 1)
    BY <1>5, <1>8, <1>9
  <2> QED BY <1>5, <1>8, <1>10, <2>1, <2>2, <2>3, <2>4, PushPlain
<1>16. Heights(t, Entered)
  <2>1. Len(Entered) = a.base /\ a.base # a.base + 1
    BY <1>5, <1>6, <1>8
  <2> QED BY <1>8, <1>11, <2>1 DEF Heights
<1>17. Len(t) <= MaxStack
  BY <1>6, <1>9, <1>11, Standing, SignalsAssumption
<1>18. flow' \in {"run", "ok", "err"} /\ signal' \in SignalSet
  BY <1>1 DEF IInv
<1> QED BY <1>1, <1>4, <1>8, <1>10, <1>11, <1>15, <1>16, <1>17, <1>18, Ends

\* Code sees the call it is written in, the contexts between being hidden.
LEMMA Covered ==
    ASSUME NEW s, NEW cs, NEW hid, Shape(s, cs, hid), NEW k \in 1..Len(s), IsCode(s[k])
    PROVE  /\ s[k].fun \in 1..k /\ s[s[k].fun].op \in {"main", "call"}
           /\ s[k].base \in Nat /\ s[s[k].fun].base \in Nat
           /\ s[s[k].fun].base <= s[k].base
           /\ \A i \in (s[s[k].fun].base + 1)..s[k].base :
                  \E r \in 1..Len(hid) : hid[r][1] < i /\ i <= hid[r][2]
           /\ \A l \in 1..(k - 1) : s[l].op = "promise" =>
                  s[k].fun <= s[l].fun \/ s[k].fun > l
<1>1. s \in Seq(Activation) /\ Len(s) # 0 /\ Links(s)
  BY DEF Shape
<1>2. /\ s[k].fun \in 1..k /\ s[s[k].fun].op \in {"main", "call"} /\ s[k].fun \in 1..Len(s)
      /\ IsCode(s[s[k].fun])
  BY <1>1, WriterIs
<1>3. PICK f : f = s[k].fun
  OBVIOUS
<1>4. B(s, f) \in Nat /\ B(s, k) \in Nat /\ B(s, f) <= B(s, k)
  BY <1>1, <1>2, <1>3, BMono
<1>5. B(s, f) = s[f].base /\ B(s, k) = s[k].base
  BY <1>2, <1>3 DEF B, IsCode, Chunks
<1>6. \A i \in (s[s[k].fun].base + 1)..s[k].base :
          \E r \in 1..Len(hid) : hid[r][1] < i /\ i <= hid[r][2]
  BY DEF Shape, Hiding, Covers
<1>7. \A l \in 1..(k - 1) : s[l].op = "promise" => s[k].fun <= s[l].fun \/ s[k].fun > l
  BY DEF Shape, Nested
<1> QED BY <1>2, <1>3, <1>4, <1>5, <1>6, <1>7

\* A builtin starts a promise of the code that called it.
LEMMA LazyShape ==
    ASSUME NEW s, NEW cs, NEW hid, Shape(s, cs, hid), NEW k \in Nat \ {0}, Len(s) = k + 1,
           IsCode(s[k]),
           NEW a \in Activation, a.op = "promise", a.fun = s[k].fun, Len(cs) = a.base,
           \/ s[k + 1].op = "primitive" /\ a.base = B(s, k + 1)
           \/ s[k + 1].op = "tryCatch" /\ s[k + 1].phase = "body"
                  /\ a.base = s[k + 1].base + 1
           \/ s[k + 1].op = "tryCatch" /\ s[k + 1].phase = "finally"
                  /\ a.base = s[k + 1].base
    PROVE  /\ Shape(Append(s, a), cs, Append(hid, <<s[k].base, a.base>>))
           /\ Heights(Append(s, a), cs)
<1>1. /\ s \in Seq(Activation) /\ Len(s) # 0 /\ Links(s) /\ cs \in ContextSeq
      /\ Len(cs) >= B(s, k + 1) /\ k \in 1..Len(s) /\ k + 1 \in Nat \ {0}
  BY DEF Shape, Contexts, ContextSeq
<1>2. PICK n : n = k + 1
  OBVIOUS
<1>3. PICK t : t = Append(s, a)
  OBVIOUS
<1>4. t \in Seq(Activation) /\ Len(t) = n + 1 /\ t[n + 1] = a /\ \A i \in 1..n : t[i] = s[i]
  BY <1>1, <1>2, <1>3, AppendProperties
<1>5. n + 1 - 1 = n /\ t[n] = s[n] /\ n + 1 # 1 /\ n = Len(s) /\ t[k] = s[k]
  <2>1. n \in 1..n /\ k \in 1..n /\ n + 1 - 1 = n /\ n + 1 # 1
    BY <1>1, <1>2
  <2> QED BY <1>2, <1>4, <2>1
<1>6. /\ s[k].fun \in 1..k /\ s[s[k].fun].op \in {"main", "call"}
      /\ s[k].base \in Nat /\ s[s[k].fun].base <= s[k].base
      /\ \A i \in (s[s[k].fun].base + 1)..s[k].base :
             \E r \in 1..Len(hid) : hid[r][1] < i /\ i <= hid[r][2]
      /\ \A l \in 1..(k - 1) : s[l].op = "promise" => s[k].fun <= s[l].fun \/ s[k].fun > l
  BY <1>1, Covered
<1>7. B(t, n) = B(s, n)
  <2>1. n - 1 = k /\ t[n - 1] = s[n - 1]
    BY <1>1, <1>2, <1>5
  <2> QED BY <1>5, <2>1 DEF B
<1>8. s[n].op = "promise" => FALSE
  BY <1>2
<1>9. ~IsChunk(s[n])
  BY <1>2 DEF IsChunk, Chunks
<1>10. Link(t, n + 1)
  <2>1. a.fun \in 1..n /\ t[a.fun].op \in {"main", "call"}
    BY <1>1, <1>2, <1>4, <1>6
  <2>2. PromiseLink(t, n + 1)
    BY <1>2, <1>4, <1>5, <1>7, <2>1 DEF PromiseLink
  <2> QED BY <1>4, <1>5, <2>2 DEF Link
<1>11. \A l \in 1..n : s[l].op = "promise" => a.fun <= s[l].fun \/ a.fun > l
  <2> SUFFICES ASSUME NEW l \in 1..n, s[l].op = "promise"
               PROVE  a.fun <= s[l].fun \/ a.fun > l
    OBVIOUS
  <2>1. l \in 1..k
    BY <1>2, <1>8
  <2>2. CASE l = k
    <3>1. s[k].fun \in Nat
      BY <1>6
    <3> QED BY <2>2, <3>1
  <2>3. CASE l # k
    <3>1. l \in 1..(k - 1)
      BY <2>1, <2>3
    <3> QED BY <1>6, <3>1
  <2> QED BY <2>2, <2>3
<1>12. Shape(t, cs, Append(hid, <<s[k].base, a.base>>))
  <2>1. Len(cs) >= a.base /\ \A i \in 1..B(s, n) : cs[i] = cs[i]
    BY Kinds DEF IsCode, Chunks
  <2>2. Link(Append(s, a), n + 1)
    BY <1>3, <1>10
  <2>3. /\ s[a.fun].base <= s[k].base
        /\ \A i \in (s[a.fun].base + 1)..s[k].base :
               \E r \in 1..Len(hid) : hid[r][1] < i /\ i <= hid[r][2]
    BY <1>6
  <2>4. Shape(Append(s, a), cs, Append(hid, <<s[k].base, a.base>>))
    BY <1>1, <1>5, <1>6, <1>9, <1>11, <2>1, <2>2, <2>3, PushPromise
  <2> QED BY <1>3, <2>4
<1>13. Heights(t, cs)
  <2>1. a.base \in Nat
    BY Kinds DEF IsCode, Chunks
  <2>2. Len(cs) # a.base + 1
    BY <2>1
  <2> QED BY <1>4, <2>2 DEF Heights
<1> QED BY <1>3, <1>12, <1>13

\* A builtin forces its argument.
LEMMA CallPrimitiveInv == ASSUME IInv, NEW back \in BOOLEAN, CallPrimitive(back) PROVE IInv'
<1>1. Runs /\ Opened /\ Here + 1 < MaxStack /\ calls' = Entered /\ UNCHANGED <<flow, signal>>
  BY DEF CallPrimitive
<1>2. PICK p : p = [op |-> "primitive", back |-> back]
  OBVIOUS
<1>3. PICK g \in BOOLEAN : g = (Top.arg \/ back)
  OBVIOUS
<1>4. PICK a : a = Argument(Here, calls, g)
  OBVIOUS
<1>5. stack' = stack \o <<p, a>> /\ hidden' = Append(hidden, <<EnteredDepth, Len(calls)>>)
  BY <1>2, <1>3, <1>4 DEF CallPrimitive, Hide
<1>6. /\ Entered \in ContextSeq /\ Len(Entered) = Top.base + 1
      /\ \A i \in 1..Top.base : Entered[i] = calls[i]
      /\ EnteredDepth = Top.base /\ Len(calls) = Top.base + 1
  BY <1>1, EnteredIs
<1>7. /\ Top.base \in Nat /\ B(stack, Here) = Top.base /\ IsChunk(Top) /\ IsCode(Top)
      /\ Top.fun \in Indices /\ MaxStack \in Nat
  BY <1>1, Running
<1>8. p \in Activation /\ p.op = "primitive"
  BY <1>2 DEF Activation, PrimitiveSet
<1>9. /\ a \in Activation /\ IsChunk(a) /\ a.op = "promise"
      /\ a.fun = Top.fun /\ a.base = Top.base + 1
  <2>1. PICK z \in 0..MaxStack : z = 0
    BY <1>7
  <2>2. a = Chunk("promise", Top.fun, Len(calls), z, g)
    BY <1>4, <2>1, Standing DEF Argument
  <2>3. Len(calls) \in Nat
    BY Standing
  <2> QED BY <1>6, <1>7, <2>2, <2>3, PromiseIs
<1>10. PICK n : n = Here
  OBVIOUS
<1>11. PICK t : t = Append(stack, p)
  OBVIOUS
<1>12. /\ t \in Seq(Activation) /\ Len(t) = n + 1 /\ t[n + 1] = p
       /\ \A i \in 1..n : t[i] = stack[i]
  BY <1>8, <1>10, <1>11, Standing, AppendProperties
<1>13. n + 1 - 1 = n /\ t[n] = Top /\ n \in Nat \ {0} /\ n + 1 # 1
  BY <1>10, <1>12, Standing
<1>14. B(t, n + 1) = Top.base + 1
  BY <1>8, <1>12, <1>13 DEF B
<1>15. Link(t, n + 1)
  BY <1>7, <1>8, <1>12, <1>13 DEF Link
<1>16. Shape(t, Entered, hidden)
  <2>1. Shape(stack, calls, hidden) /\ n = Len(stack)
    BY <1>10, Standing DEF IInv
  <2>2. Len(Entered) >= B(Append(stack, p), n + 1) /\ Link(Append(stack, p), n + 1)
    BY <1>6, <1>7, <1>11, <1>14, <1>15
  <2>3. \A i \in 1..B(stack, n) : Entered[i] = calls[i]
    BY <1>6, <1>7, <1>10
  <2> QED BY <1>6, <1>8, <1>11, <2>1, <2>2, <2>3, PushPlain
<1>17. PICK u : u = Append(t, a)
  OBVIOUS
<1>18. /\ Shape(u, Entered, Append(hidden, <<t[n].base, a.base>>)) /\ Heights(u, Entered)
  <2>1. IsCode(t[n]) /\ a.fun = t[n].fun /\ Len(Entered) = a.base
    BY <1>6, <1>7, <1>9, <1>13
  <2>2. t[n + 1].op = "primitive" /\ a.base = B(t, n + 1)
    BY <1>8, <1>9, <1>12, <1>14
  <2> QED BY <1>9, <1>12, <1>13, <1>16, <1>17, <2>1, <2>2, LazyShape
<1>19. stack' = u /\ hidden' = Append(hidden, <<t[n].base, a.base>>)
  <2>1. stack \o <<p, a>> = Append(Append(stack, p), a)
    BY <1>8, <1>9, Standing, TwoMore
  <2>2. EnteredDepth = t[n].base /\ Len(calls) = a.base
    BY <1>6, <1>9, <1>13
  <2> QED BY <1>5, <1>11, <1>17, <2>1, <2>2
<1>20. Len(u) = n + 2 /\ u[n + 2] = a
  <2>1. Len(u) = Len(t) + 1 /\ u[Len(t) + 1] = a
    BY <1>9, <1>12, <1>17, AppendProperties
  <2> QED BY <1>12, <1>13, <2>1
<1>21. Len(u) <= MaxStack
  BY <1>1, <1>7, <1>10, <1>13, <1>20
<1>22. flow' \in {"run", "ok", "err"} /\ signal' \in SignalSet
  BY <1>1 DEF IInv
<1> QED BY <1>1, <1>9, <1>18, <1>19, <1>20, <1>21, <1>22, Ends

\* A lazily evaluated body of the code in chunk k is an activation.
LEMMA LazyBodyIs ==
    ASSUME NEW k, stack[k] \in Activation, IsChunk(stack[k]), k \in 0..MaxStack, NEW cs \in ContextSeq
    PROVE  /\ LazyBody(k, cs) \in Activation /\ IsChunk(LazyBody(k, cs))
           /\ LazyBody(k, cs).op = "promise" /\ LazyBody(k, cs).fun = stack[k].fun
           /\ LazyBody(k, cs).base = Len(cs)
<1>1. Len(cs) \in Nat /\ stack[k].fun \in Indices
  BY Kinds, LenProperties DEF ContextSeq
<1>2. stack[k] \in ChunkSet \/ stack[k] \in CallSet
  BY Kinds DEF IsChunk
<1>3. stack[k].arg \in BOOLEAN /\ stack[k].loopAt \in 0..MaxStack
  <2>1. CASE stack[k] \in ChunkSet
    BY <2>1 DEF ChunkSet
  <2>2. CASE stack[k] \in CallSet
    <3>1. stack[k].arg \in {FALSE} /\ stack[k].loopAt \in {0}
      BY <2>2 DEF CallSet
    <3>2. stack[k].loopAt \in 0..MaxStack
      BY <3>1, SignalsAssumption
    <3>3. stack[k].arg \in BOOLEAN
      BY <3>1, Zenon
    <3> QED BY <3>2, <3>3
  <2> QED BY <1>2, <2>1, <2>2
<1>4. LoopAt(k) \in 0..MaxStack
  BY <1>3 DEF LoopAt
<1>5. PICK a : a = LazyBody(k, cs)
  OBVIOUS
<1>6. a = Chunk("promise", stack[k].fun, Len(cs), LoopAt(k), stack[k].arg)
  BY <1>5 DEF LazyBody
<1>7. /\ a \in Activation /\ IsChunk(a) /\ a.op = "promise"
      /\ a.fun = stack[k].fun /\ a.base = Len(cs)
  BY <1>1, <1>3, <1>4, <1>6, PromiseIs
<1> QED BY <1>5, <1>7

\* tryCatch evaluates its body.
LEMMA TryCatchInv ==
    ASSUME IInv, NEW catches \in BOOLEAN, NEW finally \in BOOLEAN, TryCatch(catches, finally)
    PROVE  IInv'
<1>1. Runs /\ Opened /\ Here + 1 < MaxStack /\ UNCHANGED <<flow, signal>>
  BY DEF TryCatch
<1>2. PICK p : p = [op |-> "tryCatch", phase |-> "body", base |-> Len(calls),
                    catches |-> catches, finally |-> finally, out |-> "ok",
                    pending |-> None]
  OBVIOUS
<1>3. PICK c : c = Append(Entered, Context(Here + 1))
  OBVIOUS
<1>4. PICK a : a = LazyBody(Here, c)
  OBVIOUS
<1>5. /\ stack' = stack \o <<p, a>> /\ calls' = c
      /\ hidden' = Append(hidden, <<Len(calls) - 1, Len(c)>>)
  BY <1>2, <1>3, <1>4 DEF TryCatch, Hide
<1>6. /\ Entered \in ContextSeq /\ Len(Entered) = Top.base + 1
      /\ \A i \in 1..Top.base : Entered[i] = calls[i]
      /\ Len(calls) = Top.base + 1 /\ Here + 1 \in Indices
  BY <1>1, EnteredIs
<1>7. /\ Top.base \in Nat /\ B(stack, Here) = Top.base /\ IsChunk(Top) /\ IsCode(Top)
      /\ MaxStack \in Nat
  BY <1>1, Running
<1>8. c \in ContextSeq /\ Len(c) = Top.base + 2 /\ \A i \in 1..Top.base : c[i] = calls[i]
  <2>1. /\ c \in ContextSeq /\ Len(c) = Len(Entered) + 1
        /\ \A i \in 1..Len(Entered) : c[i] = Entered[i]
    BY <1>3, <1>6, PlusContext
  <2> QED BY <1>6, <1>7, <2>1
<1>9. p \in Activation /\ p.op = "tryCatch" /\ p.phase = "body" /\ p.base = Top.base + 1
  <2>1. Len(calls) \in Nat
    BY Standing
  <2>2. p \in TrySet
    BY <1>2, <2>1 DEF TrySet, SignalSet
  <2> QED BY <1>2, <1>6, <2>2 DEF Activation
<1>10. /\ a \in Activation /\ IsChunk(a) /\ a.op = "promise"
       /\ a.fun = Top.fun /\ a.base = Top.base + 2
  <2>1. Here \in 0..MaxStack /\ stack[Here] = Top
    BY <1>7, Standing
  <2> QED BY <1>4, <1>7, <1>8, <2>1, Standing, LazyBodyIs
<1>11. PICK n : n = Here
  OBVIOUS
<1>12. PICK t : t = Append(stack, p)
  OBVIOUS
<1>13. /\ t \in Seq(Activation) /\ Len(t) = n + 1 /\ t[n + 1] = p
       /\ \A i \in 1..n : t[i] = stack[i]
  BY <1>9, <1>11, <1>12, Standing, AppendProperties
<1>14. n + 1 - 1 = n /\ t[n] = Top /\ n \in Nat \ {0} /\ n + 1 # 1
  BY <1>11, <1>13, Standing
<1>15. B(t, n + 1) = Top.base + 1
  BY <1>9, <1>13 DEF B
<1>16. Link(t, n + 1)
  BY <1>7, <1>9, <1>13, <1>14 DEF Link, TryLink
<1>17. Shape(t, c, hidden)
  <2>1. Shape(stack, calls, hidden) /\ n = Len(stack)
    BY <1>11, Standing DEF IInv
  <2>2. Len(c) >= B(Append(stack, p), n + 1) /\ Link(Append(stack, p), n + 1)
    BY <1>7, <1>8, <1>12, <1>15, <1>16
  <2>3. \A i \in 1..B(stack, n) : c[i] = calls[i]
    BY <1>7, <1>8, <1>11
  <2> QED BY <1>8, <1>9, <1>12, <2>1, <2>2, <2>3, PushPlain
<1>18. PICK u : u = Append(t, a)
  OBVIOUS
<1>19. /\ Shape(u, c, Append(hidden, <<t[n].base, a.base>>)) /\ Heights(u, c)
  <2>1. IsCode(t[n]) /\ a.fun = t[n].fun /\ Len(c) = a.base
    BY <1>7, <1>8, <1>10, <1>14
  <2>2. t[n + 1].op = "tryCatch" /\ t[n + 1].phase = "body" /\ a.base = t[n + 1].base + 1
    BY <1>7, <1>9, <1>10, <1>13
  <2> QED BY <1>10, <1>13, <1>14, <1>17, <1>18, <2>1, <2>2, LazyShape
<1>20. stack' = u /\ hidden' = Append(hidden, <<t[n].base, a.base>>)
  <2>1. stack \o <<p, a>> = Append(Append(stack, p), a)
    BY <1>9, <1>10, Standing, TwoMore
  <2>2. Len(calls) - 1 = t[n].base /\ Len(c) = a.base
    BY <1>6, <1>7, <1>8, <1>10, <1>14
  <2> QED BY <1>5, <1>12, <1>18, <2>1, <2>2
<1>21. Len(u) = n + 2 /\ u[n + 2] = a
  <2>1. Len(u) = Len(t) + 1 /\ u[Len(t) + 1] = a
    BY <1>10, <1>13, <1>18, AppendProperties
  <2> QED BY <1>13, <1>14, <2>1
<1>22. Len(u) <= MaxStack
  BY <1>1, <1>7, <1>11, <1>14, <1>21
<1>23. flow' \in {"run", "ok", "err"} /\ signal' \in SignalSet
  BY <1>1 DEF IInv
<1> QED BY <1>1, <1>5, <1>10, <1>19, <1>20, <1>21, <1>22, <1>23, Ends

\* Code forces a promise that was passed to the function it runs for: the promise
\* sees the call of the code that passed it.
LEMMA ForceArgumentInv == ASSUME IInv, ForceArgument PROVE IInv'
<1>1. /\ Runs /\ Here < MaxStack /\ UNCHANGED <<flow, signal, calls>>
      /\ stack[Top.fun].op = "call" /\ stack[Top.fun].args # None
  BY DEF ForceArgument
<1>2. PICK f : f = Top.fun
  OBVIOUS
<1>3. PICK a : a = Argument(f - 1, calls, TRUE)
  OBVIOUS
<1>4. /\ stack' = Append(stack, a)
      /\ hidden' = Append(hidden, <<stack[f].args, Len(calls)>>)
  BY <1>2, <1>3 DEF ForceArgument, Hide
<1>5. /\ IsChunk(Top) /\ IsCode(Top) /\ Top.base \in Nat /\ B(stack, Here) = Top.base
      /\ f \in 1..Here /\ Len(calls) \in {Top.base, Top.base + 1} /\ MaxStack \in Nat
      /\ Opened <=> Len(calls) = Top.base + 1
      /\ Opened => ~calls[Len(calls)].entered
  BY <1>1, <1>2, Running
<1>6. /\ IsChunk(stack[f - 1]) /\ stack[f].args = stack[f - 1].base
      /\ f - 1 \in 1..Here /\ f \in Nat
  <2>1. Link(stack, f) /\ f # 1
    BY <1>1, <1>2, <1>5, Standing DEF Links
  <2>2. IsChunk(stack[f - 1]) /\ stack[f].args = stack[f - 1].base
    BY <1>1, <1>2, <2>1 DEF Link, CallLink
  <2>3. Here \in Nat /\ f \in 1..Here /\ f # 1
    BY <1>5, <2>1, Standing
  <2>4. f - 1 \in 1..Here /\ f \in Nat
    BY <2>3
  <2> QED BY <2>2, <2>4
<1>7. PICK k : k = f - 1
  OBVIOUS
<1>8. k \in 1..Here /\ stack[k] \in Activation /\ IsChunk(stack[k]) /\ IsCode(stack[k])
      /\ stack[k].fun \in Indices /\ stack[k].base \in Nat
  <2>1. k \in 1..Here /\ stack[k] \in Activation /\ IsChunk(stack[k])
    BY <1>6, <1>7, Standing
  <2> QED BY <2>1, Kinds
<1>9. /\ a \in Activation /\ IsChunk(a) /\ a.op = "promise"
      /\ a.fun = stack[k].fun /\ a.base = Len(calls)
  <2>1. PICK z \in 0..MaxStack : z = 0
    BY <1>5
  <2>2. PICK g \in BOOLEAN : g = TRUE
    OBVIOUS
  <2>3. a = Chunk("promise", stack[k].fun, Len(calls), z, g)
    BY <1>3, <1>7, <2>1, <2>2 DEF Argument
  <2>4. Len(calls) \in Nat
    BY Standing
  <2> QED BY <1>8, <2>3, <2>4, PromiseIs
<1>10. Shape(stack, calls, hidden) /\ k \in 1..Len(stack) /\ Here \in 1..Len(stack)
  BY <1>8, Standing DEF IInv
<1>11. /\ stack[k].fun \in 1..k /\ stack[stack[k].fun].op \in {"main", "call"}
       /\ stack[stack[k].fun].base \in Nat /\ stack[stack[k].fun].base <= stack[k].base
       /\ \A i \in (stack[stack[k].fun].base + 1)..stack[k].base :
              \E r \in 1..Len(hidden) : hidden[r][1] < i /\ i <= hidden[r][2]
       /\ \A l \in 1..(k - 1) : stack[l].op = "promise" =>
              stack[k].fun <= stack[l].fun \/ stack[k].fun > l
  BY <1>8, <1>10, Covered
<1>12. \A l \in 1..(Here - 1) : stack[l].op = "promise" => f <= stack[l].fun \/ f > l
  BY <1>2, <1>5, <1>10, Covered, Standing
<1>13. \A l \in 1..Here : stack[l].op = "promise" =>
           stack[k].fun <= stack[l].fun \/ stack[k].fun > l
  <2> SUFFICES ASSUME NEW l \in 1..Here, stack[l].op = "promise"
               PROVE  stack[k].fun <= stack[l].fun \/ stack[k].fun > l
    OBVIOUS
  <2>1. /\ stack[k].fun \in Nat /\ stack[k].fun <= k /\ f = k + 1 /\ k \in Nat /\ l \in Nat
        /\ Here \in Nat /\ f \in Nat
    BY <1>6, <1>7, <1>11, Standing
  <2>2. stack[l].fun \in Nat
    <3>1. stack[l] \in Activation /\ IsCode(stack[l])
      BY Standing DEF IsCode, Chunks
    <3> QED BY <3>1, Kinds DEF Indices
  <2>3. CASE l < k
    <3>1. l \in 1..(k - 1)
      BY <2>1, <2>3
    <3> QED BY <1>11, <3>1
  <2>4. CASE l = k
    BY <2>1, <2>2, <2>4
  <2>5. CASE l > k
    <3>1. l # f
      BY <1>1, <1>2
    <3>2. f < l
      BY <2>1, <2>5, <3>1
    <3>3. f <= stack[l].fun
      <4>1. CASE l = Here
        <5>1. stack[l] = Top
          BY <4>1, Standing
        <5>2. stack[l].fun = f
          BY <1>2, <5>1
        <5>3. f <= f
          BY <2>1
        <5> QED BY <5>2, <5>3
      <4>2. CASE l # Here
        <5>1. l \in 1..(Here - 1)
          BY <2>1, <4>2
        <5> QED BY <1>12, <2>1, <3>2, <5>1
      <4> QED BY <4>1, <4>2
    <3> QED BY <2>1, <2>2, <3>3
  <2> QED BY <2>1, <2>3, <2>4, <2>5
<1>14. PICK n : n = Here
  OBVIOUS
<1>15. PICK t : t = Append(stack, a)
  OBVIOUS
<1>16. /\ t \in Seq(Activation) /\ Len(t) = n + 1 /\ t[n + 1] = a
       /\ \A i \in 1..n : t[i] = stack[i]
  BY <1>9, <1>14, <1>15, Standing, AppendProperties
<1>17. n + 1 - 1 = n /\ t[n] = Top /\ n \in Nat \ {0} /\ n + 1 # 1 /\ n = Len(stack)
  BY <1>14, <1>16, Standing
<1>18. Link(t, n + 1)
  <2>1. a.fun \in 1..n /\ t[a.fun].op \in {"main", "call"}
    <3>1. a.fun \in 1..n
      <4>1. n \in Nat /\ k \in 1..n /\ a.fun \in 1..k
        BY <1>8, <1>9, <1>11, <1>14, <1>17
      <4> QED BY <4>1
    <3> QED BY <1>9, <1>11, <1>16, <3>1
  <2>2. PromiseLink(t, n + 1)
    BY <1>5, <1>9, <1>16, <1>17, <2>1 DEF PromiseLink
  <2> QED BY <1>9, <1>16, <1>17, <2>2 DEF Link
<1>19. Shape(t, calls, Append(hidden, <<stack[k].base, a.base>>))
  <2>1. Link(Append(stack, a), n + 1)
    BY <1>15, <1>18
  <2>2. \A l \in 1..n : stack[l].op = "promise" => a.fun <= stack[l].fun \/ a.fun > l
    BY <1>9, <1>13, <1>14
  <2>3. calls \in ContextSeq /\ Len(calls) >= a.base /\ \A i \in 1..B(stack, n) : calls[i] = calls[i]
    BY <1>9, Standing
  <2>4. IsChunk(stack[n]) /\ a.base = stack[n].base + 1 => ~calls[a.base].entered
    BY <1>5, <1>9, <1>14, Standing
  <2>5. /\ stack[a.fun].base <= stack[k].base
        /\ \A i \in (stack[a.fun].base + 1)..stack[k].base :
               \E r \in 1..Len(hidden) : hidden[r][1] < i /\ i <= hidden[r][2]
    BY <1>9, <1>11
  <2> QED BY <1>8, <1>9, <1>10, <1>15, <1>17, <2>1, <2>2, <2>3, <2>4, <2>5, PushPromise
<1>20. Heights(t, calls)
  <2>1. Len(calls) = a.base /\ a.base # a.base + 1
    BY <1>9, Standing
  <2> QED BY <1>9, <1>16, <2>1 DEF Heights
<1>21. stack' = t /\ hidden' = Append(hidden, <<stack[k].base, a.base>>)
  BY <1>4, <1>6, <1>7, <1>9, <1>15
<1>22. Len(t) <= MaxStack
  BY <1>1, <1>5, <1>14, <1>16, <1>17
<1>23. flow' \in {"run", "ok", "err"} /\ signal' \in SignalSet
  BY <1>1 DEF IInv
<1> QED BY <1>1, <1>9, <1>16, <1>19, <1>20, <1>21, <1>22, <1>23, Ends

-----------------------------------------------------------------------------
(* The way out *)

\* The innermost activation goes; what stands below it is as it was, but for a
\* change that the others do not depend on.
LEMMA PopShape ==
    ASSUME IInv, Top.op # "main", NEW t \in Seq(Activation), Len(t) = Here - 1,
           \A i \in 1..(Here - 2) : t[i] = stack[i], Alike(stack[Here - 1], t[Here - 1]),
           NEW c \in ContextSeq, Len(c) >= B(stack, Here - 1),
           \A i \in 1..B(stack, Here - 1) : c[i] = calls[i],
           NEW h, h = IF Top.op = "promise" THEN Front(hidden) ELSE hidden
    PROVE  Shape(t, c, h)
<1>1. PICK n : n = Here - 1
  OBVIOUS
<1>2. n \in 1..Len(stack) /\ Len(stack) = n + 1 /\ stack[n + 1] = Top
  BY <1>1, Below, Standing
<1>3. /\ Len(t) = n /\ Alike(stack[n], t[n]) /\ Len(c) >= B(stack, n)
      /\ \A i \in 1..B(stack, n) : c[i] = calls[i]
  BY <1>1
<1>4. \A i \in 1..(n - 1) : t[i] = stack[i]
  <2>1. Here - 2 = n - 1
    BY <1>1, Standing
  <2> QED BY <2>1
<1>5. Shape(stack, calls, hidden)
  BY DEF IInv
<1>6. CASE Top.op = "promise"
  BY <1>2, <1>3, <1>4, <1>5, <1>6, ShapeKeeps
<1>7. CASE Top.op # "promise"
  BY <1>2, <1>3, <1>4, <1>5, <1>7, ShapeKeeps
<1> QED BY <1>6, <1>7

\* What is left when it goes.
LEMMA FrontOfStack ==
    ASSUME IInv, Top.op # "main"
    PROVE  /\ Front(stack) \in Seq(Activation) /\ Len(Front(stack)) = Here - 1
           /\ \A i \in 1..(Here - 1) : Front(stack)[i] = stack[i]
           /\ \A i \in 1..(Here - 2) : Front(stack)[i] = stack[i]
           /\ Front(stack)[Here - 1] = stack[Here - 1]
           /\ Alike(stack[Here - 1], Front(stack)[Here - 1])
           /\ B(Front(stack), Here - 1) = B(stack, Here - 1)
<1>1. PICK t : t = Front(stack)
  OBVIOUS
<1>2. /\ t \in Seq(Activation) /\ Len(t) = Here - 1
      /\ \A i \in 1..(Here - 1) : t[i] = stack[i]
  BY <1>1, Standing, FrontIs
<1>3. /\ Here - 1 \in 1..(Here - 1) /\ \A i \in 1..(Here - 2) : i \in 1..(Here - 1)
  BY Below, Standing
<1>4. Alike(stack[Here - 1], t[Here - 1])
  BY <1>2, <1>3 DEF Alike
<1>5. B(t, Here - 1) = B(stack, Here - 1)
  <2>1. CASE Here - 1 = 1
    <3>1. stack[1].op = "main" /\ t[1] = stack[1] /\ t[Here - 1] = stack[Here - 1]
      BY <1>2, <1>3, <2>1, Standing
    <3> QED BY <2>1, <3>1 DEF B
  <2>2. CASE Here - 1 # 1
    <3>1. Here - 1 - 1 \in 1..(Here - 1)
      BY <1>3, <2>2, Below
    <3>2. t[Here - 1] = stack[Here - 1] /\ t[Here - 1 - 1] = stack[Here - 1 - 1]
      BY <1>2, <1>3, <3>1
    <3> QED BY <3>2 DEF B
  <2> QED BY <2>1, <2>2
<1> QED BY <1>1, <1>2, <1>3, <1>4, <1>5

\* A promise is left: the code that read it, or the builtin that started it, goes on
\* under the contexts it had.
LEMMA LeavePromiseInv == ASSUME IInv, LeavePromise PROVE IInv'
<1>1. /\ flow # "run" /\ Top.op = "promise" /\ stack' = Front(stack)
      /\ calls' = Cut(calls, Top.base) /\ hidden' = Front(hidden) /\ UNCHANGED signal
      /\ flow' = IF flow = "ok" /\ IsChunk(stack[Here - 1]) THEN "run" ELSE flow
  BY DEF LeavePromise, Over, Unwound
<1>2. IsCode(Top) /\ Top.base \in Nat /\ Top.op # "main" /\ B(stack, Here) = Top.base
  <2>1. IsCode(Top)
    BY <1>1 DEF IsCode, Chunks
  <2>2. B(stack, Here) = Top.base
    BY <1>1, Standing DEF B
  <2> QED BY <1>1, <2>1, <2>2, Standing, Kinds
<1>3. /\ calls' \in ContextSeq /\ Len(calls') = Top.base
      /\ \A i \in 1..Top.base : calls'[i] = calls[i]
  <2>1. Top.base <= Len(calls)
    BY <1>2, Standing
  <2> QED BY <1>1, <1>2, <2>1, Standing, CutIs
<1>4. PICK n : n = Here - 1
  OBVIOUS
<1>5. /\ n \in Nat \ {0} /\ Here = n + 1 /\ stack[n] \in Activation
      /\ B(stack, n) \in Nat /\ B(stack, n) <= Top.base
      /\ IsChunk(stack[n]) => B(stack, n) = stack[n].base /\ stack[n].base \in Nat
  BY <1>2, <1>4, Below, Standing
<1>6. PICK t : t = Front(stack)
  OBVIOUS
<1>7. t \in Seq(Activation) /\ Len(t) = n /\ t[n] = stack[n] /\ B(t, n) = B(stack, n)
  BY <1>2, <1>4, <1>6, FrontOfStack
<1>8. Shape(t, calls', hidden')
  <2>1. /\ t \in Seq(Activation) /\ Len(t) = Here - 1
        /\ \A i \in 1..(Here - 2) : t[i] = stack[i]
        /\ Alike(stack[Here - 1], t[Here - 1])
    BY <1>2, <1>6, FrontOfStack
  <2>2. Len(calls') >= B(stack, Here - 1)
    BY <1>3, <1>4, <1>5, <1>2
  <2>3. \A i \in 1..B(stack, Here - 1) : calls'[i] = calls[i]
    BY <1>3, <1>4, <1>5, <1>2
  <2>4. hidden' = IF Top.op = "promise" THEN Front(hidden) ELSE hidden
    BY <1>1
  <2> QED BY <1>2, <1>3, <2>1, <2>2, <2>3, <2>4, PopShape
<1>9. PromiseLink(stack, Here) /\ Here - 1 = n
  BY <1>1, <1>4, Standing DEF Link
<1>10. Heights(t, calls')
  <2>1. ASSUME IsChunk(stack[n])
        PROVE  /\ Len(calls') \in {stack[n].base, stack[n].base + 1}
               /\ Len(calls') = stack[n].base + 1 => ~calls'[Len(calls')].entered /\ n < MaxStack
    <3>1. Top.base \in {stack[n].base, stack[n].base + 1}
      BY <1>5, <1>9, <2>1, Standing DEF PromiseLink, IsChunk, Chunks
    <3>2. Top.base = stack[n].base + 1 => ~calls[Top.base].entered
      <4>1. Shape(stack, calls, hidden) /\ Here \in 1..Len(stack)
        BY Standing DEF IInv
      <4> QED BY <1>1, <1>9, <2>1, <4>1, Standing DEF Shape, Contexts
    <3>3. Top.base = stack[n].base + 1 => ~calls'[Top.base].entered
      <4>1. Top.base = stack[n].base + 1 => Top.base \in 1..Top.base
        BY <1>5, <2>1
      <4> QED BY <1>3, <3>2, <4>1
    <3>4. n < MaxStack
      BY <1>5, Standing, SignalsAssumption
    <3> QED BY <1>3, <3>1, <3>3, <3>4
  <2>2. stack[n].op = "primitive" => Len(calls') = B(stack, n)
    BY <1>3, <1>9, Standing DEF PromiseLink, IsChunk, Chunks
  <2>3. stack[n].op = "call" => IsChunk(stack[n])
    BY <1>9, Standing DEF PromiseLink
  <2>4. stack[n].op = "tryCatch" /\ stack[n].phase = "finally" => Len(calls') = stack[n].base
    BY <1>3, <1>9, Standing DEF PromiseLink, IsChunk, Chunks
  <2> QED BY <1>7, <2>1, <2>2, <2>3, <2>4 DEF Heights
<1>11. n <= MaxStack
  BY <1>5, Standing, SignalsAssumption
<1>12. flow' \in {"run", "ok", "err"} /\ signal' \in SignalSet
  BY <1>1 DEF IInv
<1>13. flow' = "run" => IsChunk(t[n])
  BY <1>1, <1>4, <1>7
<1> QED BY <1>1, <1>6, <1>7, <1>8, <1>10, <1>11, <1>12, <1>13, Ends

\* A call, or a builtin, answers the code that called it, its own context gone.
LEMMA AnswerInv ==
    ASSUME IInv, Top.op \in {"call", "primitive", "tryCatch"}, IsChunk(stack[Here - 1]),
           NEW cs \in ContextSeq, Len(cs) = stack[Here - 1].base + 1,
           \A i \in 1..stack[Here - 1].base : cs[i] = calls[i],
           NEW t \in Seq(Activation), Len(t) = Here - 1,
           \A i \in 1..(Here - 2) : t[i] = stack[i], Alike(stack[Here - 1], t[Here - 1]),
           IsChunk(t[Here - 1]),
           stack' = t, calls' = Front(cs), UNCHANGED hidden,
           signal' \in SignalSet, flow' \in {"run", "ok", "err"}
    PROVE  IInv'
<1>1. Top.op # "main" /\ Top.op # "promise"
  OBVIOUS
<1>2. PICK n : n = Here - 1
  OBVIOUS
<1>3. /\ n \in Nat \ {0} /\ Here = n + 1 /\ stack[n] \in Activation
      /\ B(stack, n) = stack[n].base /\ stack[n].base \in Nat
  BY <1>1, <1>2, Below, Standing
<1>4. /\ calls' \in ContextSeq /\ Len(calls') = stack[n].base
      /\ \A i \in 1..stack[n].base : calls'[i] = calls[i]
  <2>1. Len(cs) - 1 = stack[n].base /\ stack[n].base <= Len(cs)
    BY <1>2, <1>3
  <2>2. /\ Cut(cs, stack[n].base) \in ContextSeq
        /\ Len(Cut(cs, stack[n].base)) = stack[n].base
        /\ \A i \in 1..stack[n].base : Cut(cs, stack[n].base)[i] = cs[i]
    BY <1>3, <2>1, CutIs
  <2>3. calls' = Cut(cs, stack[n].base)
    BY <2>1 DEF Front
  <2> QED BY <1>2, <2>2, <2>3
<1>5. Shape(t, calls', hidden')
  <2>1. Len(calls') >= B(stack, Here - 1)
    <3>1. stack[n].base >= stack[n].base
      BY <1>3
    <3> QED BY <1>2, <1>3, <1>4, <3>1
  <2>2. \A i \in 1..B(stack, Here - 1) : calls'[i] = calls[i]
    BY <1>2, <1>3, <1>4
  <2>3. hidden' = IF Top.op = "promise" THEN Front(hidden) ELSE hidden
    BY <1>1
  <2> QED BY <1>1, <1>4, <2>1, <2>2, <2>3, PopShape
<1>6. t[n].base = stack[n].base /\ t[n].op # "primitive" /\ t[n].op # "tryCatch" /\ IsChunk(t[n])
  <2>1. IsCode(stack[n])
    BY <1>2, <1>3, Kinds
  <2> QED BY <1>2, <2>1 DEF Alike, IsChunk, Chunks
<1>7. Heights(t, calls')
  <2>1. Len(t) = n /\ Len(calls') = t[n].base /\ t[n].base # t[n].base + 1
    BY <1>2, <1>3, <1>4, <1>6
  <2> QED BY <1>6, <2>1 DEF Heights
<1>8. Len(stack') <= MaxStack
  BY <1>2, <1>3, Standing, SignalsAssumption
<1>9. IsChunk(stack'[Len(stack')])
  BY <1>2, <1>6
<1> QED BY <1>5, <1>7, <1>8, <1>9, Ends

\* Answer, whatever it says.
LEMMA PlainAnswer ==
    ASSUME IInv, Top.op \in {"call", "primitive", "tryCatch"}, IsChunk(stack[Here - 1]),
           NEW cs \in ContextSeq, Len(cs) = stack[Here - 1].base + 1,
           \A i \in 1..stack[Here - 1].base : cs[i] = calls[i],
           NEW out \in {"ok", "err"}, NEW sig \in SignalSet, Answer(out, sig, cs),
           UNCHANGED hidden
    PROVE  IInv'
<1>1. Top.op # "main"
  OBVIOUS
<1>2. PICK t : t = Front(stack)
  OBVIOUS
<1>3. /\ t \in Seq(Activation) /\ Len(t) = Here - 1
      /\ \A i \in 1..(Here - 2) : t[i] = stack[i]
      /\ t[Here - 1] = stack[Here - 1] /\ Alike(stack[Here - 1], t[Here - 1])
  BY <1>1, <1>2, FrontOfStack
<1>4. stack' = t /\ calls' = Front(cs) /\ signal' \in SignalSet /\ flow' \in {"run", "ok", "err"}
  BY <1>2 DEF Answer
<1>5. IsChunk(t[Here - 1])
  BY <1>3
<1> QED BY <1>3, <1>4, <1>5, AnswerInv

\* The same where the answer may be for a loop of the code that called.
LEMMA LazyAnswerInv ==
    ASSUME IInv, Top.op = "tryCatch",
           NEW cs \in ContextSeq, Len(cs) = Top.base,
           \A i \in 1..Top.base : cs[i] = calls[i],
           NEW out \in {"ok", "err"}, NEW sig \in SignalSet, LazyAnswer(out, sig, cs),
           UNCHANGED hidden
    PROVE  IInv'
<1>1. Top.op # "main" /\ Top.op \in {"call", "primitive", "tryCatch"}
  OBVIOUS
<1>2. PICK n : n = Here - 1
  OBVIOUS
<1>3. /\ IsChunk(stack[n]) /\ Top.base = stack[n].base + 1 /\ stack[n].base \in Nat
      /\ stack[n] \in Activation /\ n \in Nat \ {0}
  <2>1. TryLink(stack, Here)
    BY Standing DEF Link
  <2>2. IsChunk(stack[n]) /\ Top.base = stack[n].base + 1
    BY <1>2, <2>1, Standing DEF TryLink
  <2> QED BY <1>1, <1>2, <2>2, Below
<1>4. /\ cs \in ContextSeq /\ Len(cs) = stack[n].base + 1
      /\ \A i \in 1..stack[n].base : cs[i] = calls[i]
  BY <1>3
<1>5. CASE ~Jumps(out, sig)
  <2>1. Answer(out, sig, cs)
    BY <1>5 DEF LazyAnswer
  <2> QED BY <1>1, <1>2, <1>3, <1>4, <2>1, PlainAnswer
<1>6. CASE Jumps(out, sig)
  <2>1. PICK t : t = Front(stack)
    OBVIOUS
  <2>2. /\ t \in Seq(Activation) /\ Len(t) = n
        /\ \A i \in 1..(Here - 2) : t[i] = stack[i]
        /\ t[n] = stack[n] /\ Alike(stack[n], t[n])
    BY <1>1, <1>2, <2>1, FrontOfStack
  <2>3. calls' = Front(cs)
    BY <1>6 DEF LazyAnswer
  <2>4. CASE stack[n].loop
    <3>1. PICK again \in BOOLEAN : stack' = [t EXCEPT ![n].loop = again]
      BY <1>2, <1>6, <2>1, <2>4 DEF LazyAnswer
    <3>2. signal' = None /\ flow' = "run"
      BY <1>2, <1>6, <2>4 DEF LazyAnswer
    <3>3. PICK a : a = [stack[n] EXCEPT !.loop = again]
      OBVIOUS
    <3>4. a \in Activation /\ Alike(stack[n], a) /\ IsChunk(a)
      <4>1. stack[n] \in ChunkSet \/ stack[n] \in CallSet
        BY <1>3, Kinds DEF IsChunk
      <4>2. CASE stack[n] \in ChunkSet
        <5>1. a \in ChunkSet
          BY <3>3, <4>2 DEF ChunkSet
        <5>2. /\ a.op = stack[n].op /\ a.base = stack[n].base /\ a.fun = stack[n].fun
              /\ stack[n].op \in Chunks
          BY <3>3, <4>2 DEF ChunkSet
        <5> QED BY <5>1, <5>2 DEF Activation, Alike, IsChunk, Chunks
      <4>3. CASE stack[n] \in CallSet
        <5>1. a \in CallSet
          BY <3>3, <4>3 DEF CallSet
        <5>2. /\ a.op = stack[n].op /\ a.base = stack[n].base /\ a.fun = stack[n].fun
              /\ stack[n].op = "call" /\ a.args = stack[n].args /\ a.phase = stack[n].phase
          BY <3>3, <4>3 DEF CallSet
        <5> QED BY <1>3, <5>1, <5>2 DEF Activation, Alike, IsChunk, Chunks
      <4> QED BY <4>1, <4>2, <4>3
    <3>5. PICK u : u = stack'
      OBVIOUS
    <3>6. n \in 1..Len(t)
      BY <1>3, <2>2
    <3>7. u = [t EXCEPT ![n] = a]
      BY <2>2, <3>1, <3>3, <3>5
    <3>8. /\ u \in Seq(Activation) /\ Len(u) = n
          /\ \A i \in 1..n : u[i] = IF i = n THEN a ELSE t[i]
      BY <2>2, <3>4, <3>6, <3>7, ExceptSeq
    <3>9. u[n] = a /\ \A i \in 1..(Here - 2) : u[i] = stack[i]
      <4>1. \A i \in 1..(Here - 2) : i \in 1..n /\ i # n
        BY <1>2, <1>3, Standing
      <4> QED BY <2>2, <3>6, <3>8, <4>1
    <3>10. Alike(stack[n], u[n]) /\ IsChunk(u[n])
      BY <3>4, <3>9
    <3>11. signal' \in SignalSet /\ flow' \in {"run", "ok", "err"}
      BY <3>2 DEF SignalSet
    <3> QED BY <1>1, <1>2, <1>3, <1>4, <2>3, <3>5, <3>8, <3>9, <3>10, <3>11, AnswerInv
  <2>5. CASE ~stack[n].loop
    <3>1. stack' = t /\ signal' = sig /\ flow' = "ok"
      BY <1>2, <1>6, <2>1, <2>5 DEF LazyAnswer
    <3>2. IsChunk(t[n])
      BY <1>3, <2>2
    <3>3. signal' \in SignalSet /\ flow' \in {"run", "ok", "err"}
      BY <3>1
    <3> QED BY <1>1, <1>2, <1>3, <1>4, <2>2, <2>3, <3>1, <3>2, <3>3, AnswerInv
  <2> QED BY <2>4, <2>5
<1> QED BY <1>5, <1>6

\* A builtin ends.
LEMMA LeavePrimitiveInv == ASSUME IInv, LeavePrimitive PROVE IInv'
<1>1. flow # "run" /\ Top.op = "primitive" /\ Answer(flow, signal, calls) /\ UNCHANGED hidden
  BY DEF LeavePrimitive
<1>2. IsChunk(stack[Here - 1])
  BY <1>1, Standing DEF Link
<1>3. Len(calls) = B(stack, Here) /\ B(stack, Here) = stack[Here - 1].base + 1
  BY <1>1, Standing DEF IInv, Heights, B
<1>4. flow \in {"ok", "err"} /\ signal \in SignalSet /\ calls \in ContextSeq
  BY <1>1, Standing DEF IInv
<1>5. \A i \in 1..stack[Here - 1].base : calls[i] = calls[i]
  OBVIOUS
<1> QED BY <1>1, <1>2, <1>3, <1>4, <1>5, PlainAnswer

\* A call ends, and whoever called it goes on.
LEMMA LeaveFrameInv ==
    ASSUME IInv, Top.op = "call", NEW cs \in ContextSeq, Len(cs) = Top.base,
           \A i \in 1..Top.base : cs[i] = calls[i],
           NEW out \in {"ok", "err"}, LeaveFrame(out, cs)
    PROVE  IInv'
<1>1. Top.op # "main" /\ Top.op # "promise" /\ Top.op \in {"call", "primitive", "tryCatch"}
  OBVIOUS
<1>2. PICK n : n = Here - 1
  OBVIOUS
<1>3. /\ n \in Nat \ {0} /\ Here = n + 1 /\ stack[n] \in Activation /\ B(stack, n) \in Nat
      /\ IsChunk(stack[n]) => B(stack, n) = stack[n].base
  BY <1>1, <1>2, Below, Standing
<1>4. /\ \/ IsChunk(stack[n]) \/ stack[n].op = "primitive"
         \/ stack[n].op = "tryCatch" /\ stack[n].phase = "handler"
      /\ Top.base = B(stack, n) + 1
  <2>1. CallLink(stack, Here)
    BY Standing DEF Link
  <2> QED BY <1>2, <2>1, Standing DEF CallLink
<1>5. PICK sig : sig = Taken(out, signal)
  OBVIOUS
<1>6. sig \in SignalSet
  BY <1>5 DEF Taken, IInv, SignalSet
<1>7. UNCHANGED hidden
  BY DEF LeaveFrame
<1>8. CASE IsChunk(stack[n])
  <2>1. Answer(out, sig, cs)
    BY <1>2, <1>5, <1>8 DEF LeaveFrame
  <2>2. Len(cs) = stack[n].base + 1 /\ \A i \in 1..stack[n].base : cs[i] = calls[i]
    BY <1>3, <1>4, <1>8
  <2> QED BY <1>1, <1>2, <1>6, <1>7, <1>8, <2>1, <2>2, PlainAnswer
<1>9. CASE ~IsChunk(stack[n])
  <2>1. PICK t : t = Front(stack)
    OBVIOUS
  <2>2. /\ t \in Seq(Activation) /\ Len(t) = n
        /\ \A i \in 1..(Here - 2) : t[i] = stack[i]
        /\ t[n] = stack[n] /\ Alike(stack[n], t[n]) /\ B(t, n) = B(stack, n)
    BY <1>1, <1>2, <2>1, FrontOfStack
  <2>3. /\ stack' = t /\ signal' = sig /\ flow' = out
        /\ calls' = IF stack[n].op = "primitive" THEN Front(cs) ELSE cs
    BY <1>2, <1>5, <1>9, <2>1 DEF LeaveFrame
  <2>4. /\ Front(cs) \in ContextSeq /\ Len(Front(cs)) = B(stack, n)
        /\ \A i \in 1..B(stack, n) : Front(cs)[i] = cs[i]
    <3>1. Len(cs) - 1 = B(stack, n) /\ B(stack, n) <= Len(cs)
      BY <1>3, <1>4
    <3> QED BY <1>3, <3>1, CutIs DEF Front
  <2>5. /\ calls' \in ContextSeq /\ Len(calls') >= B(stack, n)
        /\ \A i \in 1..B(stack, n) : calls'[i] = calls[i]
    <3>1. \A i \in 1..B(stack, n) : cs[i] = calls[i]
      BY <1>3, <1>4
    <3>2. CASE stack[n].op = "primitive"
      <4>1. B(stack, n) >= B(stack, n)
        BY <1>3
      <4> QED BY <2>3, <2>4, <3>1, <3>2, <4>1
    <3>3. CASE stack[n].op # "primitive"
      <4>1. calls' = cs /\ Len(cs) >= B(stack, n)
        BY <1>3, <1>4, <2>3, <3>3
      <4> QED BY <3>1, <4>1
    <3> QED BY <3>2, <3>3
  <2>6. Shape(t, calls', hidden')
    <3>1. hidden' = IF Top.op = "promise" THEN Front(hidden) ELSE hidden
      BY <1>1, <1>7
    <3> QED BY <1>1, <1>2, <2>2, <2>5, <3>1, PopShape
  <2>7. Heights(t, calls')
    <3>1. stack[n].op = "primitive" => Len(calls') = B(t, n)
      BY <2>2, <2>3, <2>4
    <3>2. stack[n].op = "tryCatch" => stack[n].phase # "finally"
      BY <1>4, <1>9
    <3>3. stack[n].op # "call"
      BY <1>4, <1>9
    <3> QED BY <1>9, <2>2, <3>1, <3>2, <3>3 DEF Heights
  <2>8. Len(stack') <= MaxStack
    BY <1>3, <2>2, <2>3, Standing, SignalsAssumption
  <2>9. signal' \in SignalSet /\ flow' \in {"run", "ok", "err"} /\ flow' # "run"
    BY <1>6, <2>3
  <2> QED BY <2>3, <2>6, <2>7, <2>8, <2>9, Ends
<1> QED BY <1>8, <1>9

\* A call ends without on.exit.
LEMMA LeaveBodyInv == ASSUME IInv, LeaveBody PROVE IInv'
<1>1. flow # "run" /\ Top.op = "call" /\ LeaveFrame(flow, Cut(calls, Top.base))
  BY DEF LeaveBody, Over, Unwound
<1>2. Top.base \in Nat /\ Top.base <= Len(calls)
  <2>1. B(stack, Here) = Top.base
    BY <1>1, Standing DEF B
  <2> QED BY <2>1, Standing
<1>3. /\ Cut(calls, Top.base) \in ContextSeq /\ Len(Cut(calls, Top.base)) = Top.base
      /\ \A i \in 1..Top.base : Cut(calls, Top.base)[i] = calls[i]
  BY <1>2, Standing, CutIs
<1>4. flow \in {"ok", "err"}
  BY <1>1 DEF IInv
<1> QED BY <1>1, <1>3, <1>4, LeaveFrameInv

\* A call ends after on.exit.
LEMMA LeaveAfterOnExitInv == ASSUME IInv, LeaveAfterOnExit PROVE IInv'
<1>1. flow # "run" /\ Top.op = "call" /\ Top.phase = "left" /\ LeaveFrame(flow, calls)
  BY DEF LeaveAfterOnExit
<1>2. Len(calls) = Top.base
  BY <1>1, Standing DEF IInv, Heights, IsChunk, Chunks
<1>3. flow \in {"ok", "err"} /\ calls \in ContextSeq
  BY <1>1, Standing DEF IInv
<1> QED BY <1>1, <1>2, <1>3, LeaveFrameInv

\* A closure is called by a builtin, or by tryCatch for a handler, under a context
\* of its own.
LEMMA PushCalled ==
    ASSUME NEW s, NEW cs, NEW hid, Shape(s, cs, hid), NEW n \in Nat \ {0}, n = Len(s),
           n < MaxStack, NEW b \in Nat, b = B(s, n), Len(cs) = b,
           s[n].op = "primitive" \/ (s[n].op = "tryCatch" /\ s[n].phase = "handler"),
           NEW e \in BOOLEAN, NEW a, a = ClosureCall(n + 1, b + 1, None, e)
    PROVE  /\ Shape(Append(s, a), Append(cs, Context(n + 1)), hid)
           /\ Heights(Append(s, a), Append(cs, Context(n + 1)))
           /\ Len(Append(s, a)) <= MaxStack
           /\ IsChunk(Append(s, a)[Len(Append(s, a))])
<1>1. n + 1 \in Indices /\ s \in Seq(Activation) /\ cs \in ContextSeq
  BY SignalsAssumption DEF Indices, Shape, ContextSeq
<1>2. /\ a \in Activation /\ IsChunk(a) /\ a.op = "call"
      /\ a.fun = n + 1 /\ a.base = b + 1 /\ a.args = None
  <2>1. PICK m \in Nat : m = b + 1
    OBVIOUS
  <2>2. PICK d \in Nat \cup {None} : d = None
    OBVIOUS
  <2>3. a = ClosureCall(n + 1, m, d, e)
    BY <2>1, <2>2
  <2>4. /\ a \in Activation /\ IsChunk(a) /\ a.op = "call"
        /\ a.fun = n + 1 /\ a.base = m /\ a.args = d
    BY <1>1, <2>3, ClosureCallIs
  <2> QED BY <2>1, <2>2, <2>4
<1>3. PICK c : c = Append(cs, Context(n + 1))
  OBVIOUS
<1>4. /\ c \in ContextSeq /\ Len(c) = b + 1 /\ c[b + 1] = Context(n + 1)
      /\ \A i \in 1..b : c[i] = cs[i]
  BY <1>1, <1>3, PlusContext
<1>5. PICK t : t = Append(s, a)
  OBVIOUS
<1>6. t \in Seq(Activation) /\ Len(t) = n + 1 /\ t[n + 1] = a /\ \A i \in 1..n : t[i] = s[i]
  BY <1>1, <1>2, <1>5, AppendProperties
<1>7. n + 1 - 1 = n /\ n + 1 # 1 /\ t[n] = s[n]
  <2>1. n \in 1..n
    OBVIOUS
  <2> QED BY <1>6, <2>1
<1>8. B(t, n) = b
  <2>1. CASE n = 1
    <3>1. s[1].op = "main"
      BY MainFirst DEF Shape
    <3> QED BY <1>7, <2>1, <3>1 DEF B
  <2>2. CASE n # 1
    <3>1. n - 1 \in 1..n
      BY <2>2
    <3>2. t[n - 1] = s[n - 1]
      BY <1>6, <3>1
    <3> QED BY <1>7, <3>2 DEF B
  <2> QED BY <2>1, <2>2
<1>9. Link(t, n + 1)
  <2>1. CallLink(t, n + 1)
    BY <1>2, <1>6, <1>7, <1>8 DEF CallLink
  <2> QED BY <1>2, <1>6, <1>7, <2>1 DEF Link
<1>10. B(t, n + 1) = b + 1
  BY <1>2, <1>6 DEF B
<1>11. Shape(t, c, hid)
  <2>1. Link(Append(s, a), n + 1)
    BY <1>5, <1>9
  <2>2. Len(c) >= B(Append(s, a), n + 1)
    BY <1>4, <1>5, <1>10
  <2>3. c[a.base] = Context(n + 1)
    BY <1>2, <1>4
  <2> QED BY <1>2, <1>4, <1>5, <2>1, <2>2, <2>3, PushPlain, SMTT(30)
<1>12. Heights(t, c)
  <2>1. Len(c) = a.base /\ a.base # a.base + 1
    BY <1>2, <1>4
  <2> QED BY <1>2, <1>6, <2>1 DEF Heights
<1>13. Len(t) <= MaxStack
  BY <1>6, SignalsAssumption
<1> QED BY <1>2, <1>3, <1>5, <1>6, <1>11, <1>12, <1>13

\* lapply calls its function.
LEMMA CallBackInv == ASSUME IInv, CallBack PROVE IInv'
<1>0. PICK e \in BOOLEAN : e = FALSE
  OBVIOUS
<1>1. /\ Top.op = "primitive" /\ Here < MaxStack /\ flow' = "run"
      /\ stack' = Append(stack, ClosureCall(Here + 1, Len(calls) + 1, None, e))
      /\ calls' = Append(calls, Context(Here + 1)) /\ UNCHANGED <<signal, hidden>>
  BY <1>0 DEF CallBack
<1>2. Len(calls) = B(stack, Here)
  BY <1>1, Standing DEF IInv, Heights
<1>3. Shape(stack, calls, hidden)
  BY DEF IInv
<1>4. PICK n, b : n = Here /\ b = Len(calls)
  OBVIOUS
<1>5. /\ n \in Nat \ {0} /\ n = Len(stack) /\ n < MaxStack /\ b \in Nat
      /\ Len(calls) = b /\ b = B(stack, n) /\ stack[n].op = "primitive"
  BY <1>1, <1>2, <1>4, Standing
<1>6. PICK a : a = ClosureCall(n + 1, b + 1, None, e)
  OBVIOUS
<1>7. stack' = Append(stack, a) /\ calls' = Append(calls, Context(n + 1))
  BY <1>1, <1>4, <1>6
<1>8. /\ Shape(Append(stack, a), Append(calls, Context(n + 1)), hidden)
      /\ Heights(Append(stack, a), Append(calls, Context(n + 1)))
      /\ Len(Append(stack, a)) <= MaxStack
      /\ IsChunk(Append(stack, a)[Len(Append(stack, a))])
  BY <1>3, <1>5, <1>6, PushCalled
<1>9. flow' \in {"run", "ok", "err"} /\ signal' \in SignalSet
  BY <1>1 DEF IInv
<1> QED BY <1>1, <1>7, <1>8, <1>9, Ends

\* The innermost activation changes, and the contexts above it go.
LEMMA TopChanges ==
    ASSUME IInv, NEW a \in Activation, Alike(Top, a), NEW t, t = [stack EXCEPT ![Here] = a],
           NEW c \in ContextSeq, Len(c) >= B(stack, Here),
           \A i \in 1..B(stack, Here) : c[i] = calls[i]
    PROVE  /\ Shape(t, c, hidden) /\ t \in Seq(Activation) /\ Len(t) = Here /\ t[Here] = a
           /\ \A i \in 1..Here : i # Here => t[i] = stack[i]
           /\ B(t, Here) = B(stack, Here)
<1>1. PICK n : n = Here
  OBVIOUS
<1>2. /\ t \in Seq(Activation) /\ Len(t) = n
      /\ \A i \in 1..n : t[i] = IF i = n THEN a ELSE stack[i]
  BY <1>1, Standing, ExceptSeq
<1>3. t[n] = a /\ (\A i \in 1..n : i # n => t[i] = stack[i]) /\ n \in 1..Len(stack) /\ n = Len(stack)
      /\ n \in Nat \ {0} /\ Top = stack[n]
  BY <1>1, <1>2, Standing
<1>4. \A i \in 1..(n - 1) : t[i] = stack[i]
  <2>1. \A i \in 1..(n - 1) : i \in 1..n /\ i # n
    BY <1>3
  <2> QED BY <1>3, <2>1
<1>5. Shape(t, c, hidden)
  <2>1. Shape(stack, calls, hidden) /\ Len(c) >= B(stack, n)
        /\ \A i \in 1..B(stack, n) : c[i] = calls[i]
    BY <1>1 DEF IInv
  <2>2. Alike(stack[n], t[n]) /\ Len(t) = n /\ n \in 1..Len(stack) /\ t \in Seq(Activation)
    BY <1>2, <1>3
  <2>3. n = Len(stack) /\ hidden = hidden
    BY <1>3
  <2> QED BY <1>4, <2>1, <2>2, <2>3, ShapeKeeps, ZenonT(60)
<1>6. B(t, n) = B(stack, n)
  <2>1. stack[n] \in Activation /\ Alike(stack[n], t[n])
    BY <1>1, <1>3, Standing
  <2>2. n # 1 => t[n - 1] = stack[n - 1]
    <3>1. n # 1 => n - 1 \in 1..(n - 1)
      BY <1>3
    <3> QED BY <1>4, <3>1
  <2>3. (n # 1 \/ stack[n].op # "primitive") /\ n \in Nat \ {0}
    BY <1>1, <1>3, Standing
  <2>4. n # 1 \/ stack[n].op # "primitive" => B(t, n) = B(stack, n)
    BY <2>1, <2>2, <2>3, BSame
  <2> QED BY <2>3, <2>4
<1> QED BY <1>1, <1>2, <1>3, <1>5, <1>6

\* on.exit runs, clear of the signal.
LEMMA BeginOnExitInv == ASSUME IInv, BeginOnExit PROVE IInv'
<1>1. /\ flow # "run" /\ Top.op = "call" /\ Here < MaxStack /\ calls' = Cut(calls, Top.base)
      /\ signal' = None /\ flow' = "run" /\ UNCHANGED hidden
  BY DEF BeginOnExit, OnExitUnder, Over, Unwound
<1>2. PICK a : a = [Top EXCEPT !.phase = "on.exit", !.out = flow, !.saved = signal]
  OBVIOUS
<1>3. Top \in CallSet /\ Top.base \in Nat /\ B(stack, Here) = Top.base
  <2>1. Top \in CallSet
    BY <1>1, Standing, Kinds
  <2>2. Top.base \in Nat
    BY <2>1 DEF CallSet
  <2>3. B(stack, Here) = Top.base
    BY <1>1, Standing DEF B
  <2> QED BY <2>1, <2>2, <2>3
<1>4. /\ a \in Activation /\ Alike(Top, a) /\ a.op = "call" /\ a.phase = "on.exit"
      /\ a.base = Top.base
  <2>1. flow \in {"ok", "err"} /\ signal \in SignalSet
    BY <1>1 DEF IInv
  <2>2. a \in CallSet
    BY <1>2, <1>3, <2>1 DEF CallSet
  <2>3. /\ a.op = Top.op /\ a.phase = "on.exit" /\ a.base = Top.base /\ a.fun = Top.fun
        /\ a.args = Top.args
    BY <1>2, <1>3 DEF CallSet
  <2> QED BY <1>1, <2>2, <2>3 DEF Activation, Alike
<1>5. PICK n : n = Here
  OBVIOUS
<1>6. PICK t : t = [stack EXCEPT ![n] = a]
  OBVIOUS
<1>7. PICK b : b = Chunk("cleanup", n, Top.base, 0, FALSE)
  OBVIOUS
<1>8. stack' = Append(t, b)
  <2>1. stack' = Append([stack EXCEPT ![Here].phase = "on.exit", ![Here].out = flow,
                                      ![Here].saved = signal],
                        Chunk("cleanup", Here, Top.base, 0, FALSE))
    BY DEF BeginOnExit, OnExitUnder
  <2>2. [stack EXCEPT ![Here].phase = "on.exit", ![Here].out = flow, ![Here].saved = signal]
            = [stack EXCEPT ![Here] = [Top EXCEPT !.phase = "on.exit", !.out = flow,
                                                  !.saved = signal]]
    BY Standing
  <2> QED BY <1>2, <1>5, <1>6, <1>7, <2>1, <2>2
<1>9. PICK c : c = Cut(calls, Top.base)
  OBVIOUS
<1>10. c \in ContextSeq /\ Len(c) = Top.base /\ \A i \in 1..Top.base : c[i] = calls[i]
  <2>1. Top.base <= Len(calls)
    BY <1>3, Standing
  <2> QED BY <1>3, <1>9, <2>1, Standing, CutIs
<1>11. /\ Shape(t, c, hidden) /\ t \in Seq(Activation) /\ Len(t) = n /\ t[n] = a
       /\ B(t, n) = Top.base
  <2>1. Len(c) >= B(stack, Here) /\ \A i \in 1..B(stack, Here) : c[i] = calls[i]
    BY <1>3, <1>10
  <2>2. t = [stack EXCEPT ![Here] = a]
    BY <1>5, <1>6
  <2> QED BY <1>3, <1>4, <1>5, <1>10, <2>1, <2>2, TopChanges, ZenonT(60)
<1>12. n \in Nat \ {0} /\ n < MaxStack /\ n \in Indices
  BY <1>1, <1>5, Standing, SignalsAssumption DEF Indices
<1>13. b \in Activation /\ IsChunk(b) /\ b.op = "cleanup" /\ b.fun = n /\ b.base = Top.base
  <2>1. PICK z \in 0..MaxStack : z = 0
    BY SignalsAssumption
  <2>2. PICK g \in BOOLEAN : g = FALSE
    OBVIOUS
  <2>3. b = Chunk("cleanup", n, Top.base, z, g)
    BY <1>7, <2>1, <2>2
  <2> QED BY <1>3, <1>12, <2>3 DEF Chunk, Activation, ChunkSet, IsChunk, Chunks
<1>14. PICK u : u = Append(t, b)
  OBVIOUS
<1>15. u \in Seq(Activation) /\ Len(u) = n + 1 /\ u[n + 1] = b /\ \A i \in 1..n : u[i] = t[i]
  BY <1>11, <1>13, <1>14, AppendProperties
<1>16. n + 1 - 1 = n /\ n + 1 # 1 /\ u[n] = a
  BY <1>11, <1>12, <1>15
<1>17. Link(u, n + 1)
  <2>1. CleanupLink(u, n + 1)
    BY <1>4, <1>12, <1>13, <1>15, <1>16 DEF CleanupLink
  <2> QED BY <1>13, <1>15, <1>16, <2>1 DEF Link
<1>18. B(u, n + 1) = Top.base
  BY <1>13, <1>15 DEF B
<1>19. Shape(u, c, hidden)
  <2>1. Link(Append(t, b), n + 1) /\ Len(c) >= B(Append(t, b), n + 1)
    BY <1>3, <1>10, <1>14, <1>17, <1>18
  <2>2. \A i \in 1..B(t, n) : c[i] = c[i]
    OBVIOUS
  <2> QED BY <1>10, <1>11, <1>13, <1>14, <2>1, <2>2, PushPlain
<1>20. Heights(u, c)
  <2>1. Len(c) = b.base /\ b.base # b.base + 1
    BY <1>3, <1>10, <1>13
  <2> QED BY <1>13, <1>15, <2>1 DEF Heights
<1>21. Len(u) <= MaxStack
  BY <1>12, <1>15, SignalsAssumption
<1>22. flow' \in {"run", "ok", "err"} /\ signal' \in SignalSet
  BY <1>1 DEF SignalSet
<1> QED BY <1>1, <1>8, <1>9, <1>13, <1>14, <1>15, <1>19, <1>20, <1>21, <1>22, Ends

\* on.exit is over, and the call gets its signal back.
LEMMA EndOnExitInv == ASSUME IInv, EndOnExit PROVE IInv'
<1>1. /\ flow # "run" /\ Top.op = "cleanup" /\ calls' = Cut(calls, Top.base)
      /\ stack' = [Front(stack) EXCEPT ![Here - 1].phase = "left"]
      /\ signal' = stack[Here - 1].saved /\ UNCHANGED hidden
      /\ flow' = IF stack[Here - 1].out = "ok" THEN flow ELSE "err"
  BY DEF EndOnExit, Over, Unwound
<1>2. Top.op # "main" /\ Top.op # "promise"
  BY <1>1
<1>3. PICK n : n = Here - 1
  OBVIOUS
<1>4. /\ n \in Nat \ {0} /\ Here = n + 1 /\ stack[n] \in Activation
      /\ B(stack, n) \in Nat /\ B(stack, n) <= B(stack, Here)
  BY <1>2, <1>3, Below, Standing
<1>5. stack[n].op = "call" /\ Top.base = stack[n].base
  <2>1. CleanupLink(stack, Here)
    BY <1>1, Standing DEF Link
  <2> QED BY <1>3, <2>1, Standing DEF CleanupLink
<1>6. stack[n] \in CallSet /\ B(stack, n) = stack[n].base /\ Top.base \in Nat
  BY <1>4, <1>5, Kinds DEF B
<1>7. PICK c : c = Cut(calls, Top.base)
  OBVIOUS
<1>8. c \in ContextSeq /\ Len(c) = stack[n].base /\ \A i \in 1..stack[n].base : c[i] = calls[i]
  <2>1. Top.base <= Len(calls)
    <3>1. B(stack, Here) = Top.base
      BY <1>1, Standing DEF B
    <3> QED BY <3>1, Standing
  <2> QED BY <1>5, <1>6, <1>7, <2>1, Standing, CutIs
<1>9. PICK a : a = [stack[n] EXCEPT !.phase = "left"]
  OBVIOUS
<1>10. /\ a \in Activation /\ Alike(stack[n], a) /\ a.op = "call" /\ a.phase = "left"
       /\ a.base = stack[n].base
  <2>1. a \in CallSet
    BY <1>6, <1>9 DEF CallSet
  <2>2. /\ a.op = stack[n].op /\ a.phase = "left" /\ a.base = stack[n].base
        /\ a.fun = stack[n].fun /\ a.args = stack[n].args
    BY <1>6, <1>9 DEF CallSet
  <2> QED BY <1>5, <2>1, <2>2 DEF Activation, Alike
<1>11. PICK t : t = Front(stack)
  OBVIOUS
<1>12. /\ t \in Seq(Activation) /\ Len(t) = n /\ t[n] = stack[n]
       /\ \A i \in 1..(Here - 2) : t[i] = stack[i]
  BY <1>2, <1>3, <1>11, FrontOfStack
<1>13. PICK u : u = [t EXCEPT ![n] = a]
  OBVIOUS
<1>14. n \in 1..Len(t)
  BY <1>4, <1>12
<1>15. /\ u \in Seq(Activation) /\ Len(u) = n
       /\ \A i \in 1..n : u[i] = IF i = n THEN a ELSE t[i]
  BY <1>10, <1>12, <1>13, <1>14, ExceptSeq
<1>16. u[n] = a /\ \A i \in 1..(Here - 2) : u[i] = stack[i]
  <2>1. \A i \in 1..(Here - 2) : i \in 1..n /\ i # n
    BY <1>3, <1>4, Standing
  <2> QED BY <1>12, <1>14, <1>15, <2>1
<1>17. stack' = u
  BY <1>1, <1>3, <1>9, <1>11, <1>12, <1>13
<1>18. Shape(u, c, hidden)
  <2>1. /\ Len(u) = Here - 1 /\ Alike(stack[Here - 1], u[Here - 1])
        /\ Len(c) >= B(stack, Here - 1) /\ \A i \in 1..B(stack, Here - 1) : c[i] = calls[i]
    BY <1>3, <1>6, <1>8, <1>10, <1>15, <1>16, <1>5
  <2>2. hidden = IF Top.op = "promise" THEN Front(hidden) ELSE hidden
    BY <1>2
  <2> QED BY <1>2, <1>8, <1>15, <1>16, <2>1, <2>2, PopShape
<1>19. Heights(u, c)
  BY <1>8, <1>10, <1>15, <1>16 DEF Heights, IsChunk, Chunks
<1>20. Len(u) <= MaxStack
  BY <1>4, <1>15, Standing, SignalsAssumption
<1>21. flow' \in {"run", "ok", "err"} /\ flow' # "run" /\ signal' \in SignalSet
  <2>1. stack[n].saved \in SignalSet
    BY <1>6 DEF CallSet
  <2> QED BY <1>1, <1>3, <2>1 DEF IInv
<1> QED BY <1>1, <1>7, <1>17, <1>18, <1>19, <1>20, <1>21, Ends

\* Contexts cut back to where tryCatch was called.
LEMMA TryStands ==
    ASSUME IInv, Top.op = "tryCatch"
    PROVE  /\ Top \in TrySet /\ Top.base \in Nat /\ B(stack, Here) = Top.base
           /\ Cut(calls, Top.base) \in ContextSeq /\ Len(Cut(calls, Top.base)) = Top.base
           /\ \A i \in 1..Top.base : Cut(calls, Top.base)[i] = calls[i]
           /\ IsChunk(stack[Here - 1]) /\ IsCode(stack[Here - 1])
           /\ Top.base = stack[Here - 1].base + 1
           /\ stack[Here - 1] \in Activation /\ Here - 1 \in Nat \ {0} /\ Here - 1 \in 1..Here
<1>1. Top \in TrySet /\ Top.base \in Nat /\ Top.op # "main"
  BY Standing, Kinds
<1>2. B(stack, Here) = Top.base
  BY Standing DEF B
<1>3. Top.base <= Len(calls)
  BY <1>1, <1>2, Standing
<1>4. TryLink(stack, Here)
  BY Standing DEF Link
<1>5. IsChunk(stack[Here - 1]) /\ Top.base = stack[Here - 1].base + 1
  BY <1>4, Standing DEF TryLink
<1>6. stack[Here - 1] \in Activation /\ Here - 1 \in Nat \ {0} /\ Here - 1 \in 1..Here
  BY <1>1, Below
<1>7. IsCode(stack[Here - 1])
  BY <1>5, <1>6, Kinds
<1>8. /\ Cut(calls, Top.base) \in ContextSeq /\ Len(Cut(calls, Top.base)) = Top.base
      /\ \A i \in 1..Top.base : Cut(calls, Top.base)[i] = calls[i]
  BY <1>1, <1>3, Standing, CutIs
<1> QED BY <1>1, <1>2, <1>5, <1>6, <1>7, <1>8

\* tryCatch has its result: finally runs, or the result leaves.
LEMMA SettleInv ==
    ASSUME IInv, Top.op = "tryCatch", NEW out \in {"ok", "err"}, NEW sig \in SignalSet,
           NEW pending \in SignalSet, Settle(out, sig, pending)
    PROVE  IInv'
<1>1. PICK c : c = Cut(calls, Top.base)
  OBVIOUS
<1>2. /\ Top \in TrySet /\ Top.base \in Nat /\ B(stack, Here) = Top.base
      /\ c \in ContextSeq /\ Len(c) = Top.base /\ \A i \in 1..Top.base : c[i] = calls[i]
      /\ IsChunk(stack[Here - 1]) /\ IsCode(stack[Here - 1])
      /\ Top.base = stack[Here - 1].base + 1 /\ stack[Here - 1] \in Activation
      /\ Here - 1 \in Nat \ {0} /\ Here - 1 \in 1..Here
  BY <1>1, TryStands
<1>3. CASE ~Top.finally
  <2>1. LazyAnswer(out, Put(sig, pending), c) /\ UNCHANGED hidden
    BY <1>1, <1>3 DEF Settle
  <2>2. PICK g : g = Put(sig, pending)
    OBVIOUS
  <2>3. g \in SignalSet
    BY <2>2 DEF Put
  <2> QED BY <1>2, <2>1, <2>2, <2>3, LazyAnswerInv
<1>4. CASE Top.finally
  <2>1. /\ Here < MaxStack /\ calls' = c /\ signal' = sig /\ flow' = "run"
        /\ hidden' = Append(hidden, <<Top.base - 1, Top.base>>)
        /\ stack' = [stack EXCEPT ![Here].phase = "finally", ![Here].out = out,
                                  ![Here].pending = pending]
                    \o <<LazyBody(Here - 1, c)>>
    BY <1>1, <1>4 DEF Settle
  <2>2. PICK a : a = [Top EXCEPT !.phase = "finally", !.out = out, !.pending = pending]
    OBVIOUS
  <2>3. /\ a \in Activation /\ Alike(Top, a) /\ a.op = "tryCatch" /\ a.phase = "finally"
        /\ a.base = Top.base
    <3>1. a \in TrySet
      BY <1>2, <2>2 DEF TrySet
    <3>2. a.op = Top.op /\ a.phase = "finally" /\ a.base = Top.base
      BY <1>2, <2>2 DEF TrySet
    <3> QED BY <3>1, <3>2 DEF Activation, Alike, IsCode, Chunks
  <2>4. PICK k : k = Here - 1
    OBVIOUS
  <2>5. PICK t : t = [stack EXCEPT ![Here] = a]
    OBVIOUS
  <2>6. PICK b : b = LazyBody(k, c)
    OBVIOUS
  <2>7. stack' = t \o <<b>>
    <3>1. [stack EXCEPT ![Here].phase = "finally", ![Here].out = out, ![Here].pending = pending]
              = [stack EXCEPT ![Here] = [Top EXCEPT !.phase = "finally", !.out = out,
                                                    !.pending = pending]]
      BY Standing
    <3> QED BY <2>1, <2>2, <2>4, <2>5, <2>6, <3>1
  <2>8. k \in Nat \ {0} /\ Here = k + 1 /\ k \in 0..MaxStack /\ k + 1 < MaxStack
        /\ stack[k] \in Activation /\ IsChunk(stack[k]) /\ IsCode(stack[k])
    BY <1>2, <2>1, <2>4, Standing, SignalsAssumption
  <2>9. b \in Activation /\ IsChunk(b) /\ b.op = "promise" /\ b.fun = stack[k].fun
        /\ b.base = Top.base
    BY <1>2, <2>6, <2>8, LazyBodyIs
  <2>10. /\ Shape(t, c, hidden) /\ t \in Seq(Activation) /\ Len(t) = k + 1 /\ t[k + 1] = a
         /\ t[k] = stack[k]
    <3>1. Len(c) >= B(stack, Here) /\ \A i \in 1..B(stack, Here) : c[i] = calls[i]
      BY <1>2
    <3>2. k \in 1..Here /\ k # Here
      BY <1>2, <2>4, Standing
    <3>3. /\ Shape(t, c, hidden) /\ t \in Seq(Activation) /\ Len(t) = Here /\ t[Here] = a
      <4>1. a \in Activation /\ Alike(Top, a) /\ c \in ContextSeq
        BY <1>2, <2>3
      <4> QED BY <2>5, <3>1, <4>1, TopChanges
    <3>4. t[k] = stack[k]
      BY <2>5, <3>2, Standing
    <3> QED BY <2>8, <3>3, <3>4
  <2>11. PICK u : u = Append(t, b)
    OBVIOUS
  <2>12. stack' = u
    BY <2>7, <2>9, <2>10, <2>11, AppendIsConcat
  <2>13. Shape(u, c, Append(hidden, <<t[k].base, b.base>>)) /\ Heights(u, c)
    <3>1. IsCode(t[k]) /\ b.fun = t[k].fun /\ Len(c) = b.base
      BY <1>2, <2>8, <2>9, <2>10
    <3>2. t[k + 1].op = "tryCatch" /\ t[k + 1].phase = "finally" /\ b.base = t[k + 1].base
      BY <2>3, <2>9, <2>10
    <3> QED BY <2>8, <2>9, <2>10, <2>11, <3>1, <3>2, LazyShape
  <2>14. hidden' = Append(hidden, <<t[k].base, b.base>>)
    <3>1. Top.base - 1 = t[k].base
      <4>1. stack[k].base \in Nat
        BY <2>8, Kinds
      <4> QED BY <1>2, <2>4, <2>10, <4>1
    <3> QED BY <2>1, <2>9, <3>1
  <2>15. Len(u) = k + 2 /\ u[k + 2] = b
    <3>1. Len(u) = Len(t) + 1 /\ u[Len(t) + 1] = b
      BY <2>9, <2>10, <2>11, AppendProperties
    <3> QED BY <2>8, <2>10, <3>1
  <2>16. Len(u) <= MaxStack
    BY <2>8, <2>15, SignalsAssumption
  <2>17. flow' \in {"run", "ok", "err"} /\ signal' \in SignalSet
    BY <2>1
  <2> QED BY <2>1, <2>9, <2>12, <2>13, <2>14, <2>15, <2>16, <2>17, Ends
<1> QED BY <1>3, <1>4

\* The body of tryCatch is over: an error is caught, or the result is settled.
LEMMA EndTryBodyInv == ASSUME IInv, EndTryBody PROVE IInv'
<1>1. flow \in {"ok", "err"} /\ Top.op = "tryCatch" /\ signal \in SignalSet
  BY DEF EndTryBody, In, IInv
<1>2. PICK c : c = Cut(calls, Top.base)
  OBVIOUS
<1>3. /\ Top \in TrySet /\ Top.base \in Nat /\ B(stack, Here) = Top.base
      /\ c \in ContextSeq /\ Len(c) = Top.base /\ \A i \in 1..Top.base : c[i] = calls[i]
  BY <1>1, <1>2, TryStands
<1>4. CASE ~(flow = "err" /\ Top.catches)
  <2>1. Settle(flow, None, signal)
    BY <1>4 DEF EndTryBody
  <2>2. PICK z \in SignalSet : z = None
    BY DEF SignalSet
  <2>3. Settle(flow, z, signal)
    BY <2>1, <2>2
  <2> QED BY <1>1, <2>3, SettleInv
<1>5. CASE flow = "err" /\ Top.catches
  <2>1. PICK e \in BOOLEAN : e = FALSE
    OBVIOUS
  <2>2. /\ Here < MaxStack /\ calls' = Append(c, Context(Here + 1))
        /\ signal' = None /\ flow' = "run" /\ UNCHANGED hidden
        /\ stack' = Append([stack EXCEPT ![Here].phase = "handler", ![Here].pending = signal],
                           ClosureCall(Here + 1, Top.base + 1, None, e))
    BY <1>2, <1>5, <2>1 DEF EndTryBody
  <2>3. PICK a : a = [Top EXCEPT !.phase = "handler", !.pending = signal]
    OBVIOUS
  <2>4. a \in Activation /\ Alike(Top, a) /\ a.op = "tryCatch" /\ a.phase = "handler"
    <3>1. a \in TrySet
      BY <1>1, <1>3, <2>3 DEF TrySet
    <3>2. a.op = Top.op /\ a.phase = "handler" /\ a.base = Top.base
      BY <1>3, <2>3 DEF TrySet
    <3> QED BY <1>1, <3>1, <3>2 DEF Activation, Alike, IsCode, Chunks
  <2>5. PICK n, b : n = Here /\ b = Top.base
    OBVIOUS
  <2>6. PICK t : t = [stack EXCEPT ![Here] = a]
    OBVIOUS
  <2>7. PICK f : f = ClosureCall(n + 1, b + 1, None, e)
    OBVIOUS
  <2>8. stack' = Append(t, f)
    <3>1. [stack EXCEPT ![Here].phase = "handler", ![Here].pending = signal]
              = [stack EXCEPT ![Here] = [Top EXCEPT !.phase = "handler", !.pending = signal]]
      BY Standing
    <3> QED BY <2>2, <2>3, <2>5, <2>6, <2>7, <3>1
  <2>9. /\ Shape(t, c, hidden) /\ Len(t) = n /\ t[n] = a /\ B(t, n) = b
    <3>1. Len(c) >= B(stack, Here) /\ \A i \in 1..B(stack, Here) : c[i] = calls[i]
      BY <1>3
    <3> QED BY <1>3, <2>4, <2>5, <2>6, <3>1, TopChanges, ZenonT(60)
  <2>10. n \in Nat \ {0} /\ n < MaxStack /\ b \in Nat /\ Len(c) = b
    BY <1>3, <2>2, <2>5, Standing
  <2>11. t[n].op = "tryCatch" /\ t[n].phase = "handler"
    BY <2>4, <2>9
  <2>12. /\ Shape(Append(t, f), Append(c, Context(n + 1)), hidden)
         /\ Heights(Append(t, f), Append(c, Context(n + 1)))
         /\ Len(Append(t, f)) <= MaxStack
         /\ IsChunk(Append(t, f)[Len(Append(t, f))])
    BY <2>7, <2>9, <2>10, <2>11, PushCalled
  <2>13. calls' = Append(c, Context(n + 1))
    BY <2>2, <2>5
  <2>14. flow' \in {"run", "ok", "err"} /\ signal' \in SignalSet
    BY <2>2 DEF SignalSet
  <2> QED BY <2>2, <2>8, <2>12, <2>13, <2>14, Ends
<1> QED BY <1>4, <1>5

\* The handler is over.
LEMMA EndTryHandlerInv == ASSUME IInv, EndTryHandler PROVE IInv'
<1>1. /\ flow \in {"ok", "err"} /\ Top.op = "tryCatch" /\ signal \in SignalSet
      /\ Settle(flow, signal, Top.pending)
  BY DEF EndTryHandler, In, IInv
<1>2. Top.pending \in SignalSet
  BY <1>1, TryStands DEF TrySet
<1> QED BY <1>1, <1>2, SettleInv

\* The finally expression is over.
LEMMA EndFinallyInv == ASSUME IInv, EndFinally PROVE IInv'
<1>1. /\ flow \in {"ok", "err"} /\ Top.op = "tryCatch" /\ Top.phase = "finally"
      /\ signal \in SignalSet /\ UNCHANGED hidden
  BY DEF EndFinally, In, IInv
<1>2. PICK out : out = IF flow = "err" THEN "err" ELSE Top.out
  OBVIOUS
<1>3. PICK sig : sig = IF flow = "err" THEN signal ELSE Put(signal, Top.pending)
  OBVIOUS
<1>4. LazyAnswer(out, sig, calls)
  BY <1>2, <1>3 DEF EndFinally
<1>5. Top.out \in {"ok", "err"} /\ Top.pending \in SignalSet
  BY <1>1, TryStands DEF TrySet
<1>6. out \in {"ok", "err"} /\ sig \in SignalSet
  BY <1>1, <1>2, <1>3, <1>5 DEF Put
<1>7. calls \in ContextSeq /\ Len(calls) = Top.base
  BY <1>1, Standing DEF IInv, Heights
<1> QED BY <1>1, <1>4, <1>6, <1>7, LazyAnswerInv

-----------------------------------------------------------------------------
(* The invariant holds, and what follows *)

\* It holds at the start: the program runs, nothing is called.
LEMMA InitInv == Init => IInv
<1> SUFFICES ASSUME Init PROVE IInv
  OBVIOUS
<1>1. PICK z \in 0..MaxStack : z = 0
  BY SignalsAssumption
<1>2. PICK g \in BOOLEAN : g = FALSE
  OBVIOUS
<1>3. PICK a : a = Chunk("main", 1, 0, z, g)
  OBVIOUS
<1>4. stack = <<a>> /\ flow = "run" /\ signal = None /\ calls = <<>> /\ hidden = <<>>
  BY <1>1, <1>2, <1>3 DEF Init
<1>5. a \in Activation /\ a.op = "main" /\ a.base = 0 /\ a.fun = 1 /\ IsChunk(a) /\ IsCode(a)
  <2>1. 1 \in Indices
    BY SignalsAssumption DEF Indices
  <2>2. a \in ChunkSet
    BY <1>3, <2>1 DEF Chunk, ChunkSet, Chunks
  <2>3. a.op = "main" /\ a.base = 0 /\ a.fun = 1
    BY <1>3 DEF Chunk
  <2> QED BY <2>2, <2>3 DEF Activation, IsChunk, IsCode, Chunks
<1>6. stack \in Seq(Activation) /\ Len(stack) = 1 /\ stack[1] = a
  BY <1>4, <1>5
<1>7. \A k \in 1..Len(stack) : k = 1
  BY <1>6
<1>8. Links(stack)
  <2>1. Link(stack, 1)
    BY <1>5, <1>6 DEF Link
  <2> QED BY <1>7, <2>1 DEF Links
<1>9. Nested(stack)
  BY <1>7 DEF Nested
<1>10. calls \in ContextSeq /\ Len(calls) = 0 /\ hidden \in Seq(Nat \X Nat) /\ Len(hidden) = 0
  BY <1>4 DEF ContextSeq
<1>11. B(stack, 1) = 0
  BY <1>5, <1>6 DEF B
<1>12. Contexts(stack, calls)
  BY <1>5, <1>6, <1>7, <1>10, <1>11 DEF Contexts
<1>13. Hiding(stack, hidden)
  <2>1. PICK at : at = [r \in 1..0 |-> 1]
    OBVIOUS
  <2>2. at \in [1..Len(hidden) -> 1..Len(stack)]
    BY <1>6, <1>10, <2>1
  <2>3. \A r \in 1..Len(hidden) : FALSE
    BY <1>10
  <2>4. \A k \in 1..Len(stack) : stack[k].op # "promise"
    BY <1>5, <1>6, <1>7
  <2>5. Hides(stack, hidden, at)
    BY <2>2, <2>3, <2>4 DEF Hides
  <2>6. Covers(stack, hidden, at)
    <3>1. \A i \in (stack[stack[1].fun].base + 1)..stack[1].base : FALSE
      BY <1>5, <1>6
    <3> QED BY <1>7, <3>1 DEF Covers
  <2> QED BY <2>5, <2>6 DEF Hiding
<1>14. Shape(stack, calls, hidden)
  BY <1>6, <1>8, <1>9, <1>10, <1>12, <1>13 DEF Shape, ContextSeq
<1>15. Heights(stack, calls)
  BY <1>5, <1>6, <1>10 DEF Heights
<1>16. Here <= MaxStack /\ IsChunk(Top) /\ signal \in SignalSet
  BY <1>4, <1>5, <1>6, SignalsAssumption DEF Here, Top, SignalSet
<1> QED BY <1>4, <1>14, <1>15, <1>16 DEF IInv

\* Nothing happens.
LEMMA StutterInv == ASSUME IInv, UNCHANGED vars PROVE IInv'
BY DEF vars, IInv, Here, Top

\* Every step keeps it.
LEMMA NextInv == IInv /\ [Next]_vars => IInv'
<1> SUFFICES ASSUME IInv, [Next]_vars PROVE IInv'
  OBVIOUS
<1>1. CASE UNCHANGED vars
  BY <1>1, StutterInv
<1>2. CASE Program
  <2>1. ASSUME NEW args \in BOOLEAN, NEW exit \in BOOLEAN, Call(args, exit) PROVE IInv'
    BY <2>1, CallInv
  <2>2. ASSUME NEW back \in BOOLEAN, CallPrimitive(back) PROVE IInv'
    BY <2>2, CallPrimitiveInv
  <2>3. ASSUME NEW catches \in BOOLEAN, NEW finally \in BOOLEAN, TryCatch(catches, finally)
        PROVE  IInv'
    BY <2>3, TryCatchInv
  <2> QED BY <1>2, <2>1, <2>2, <2>3, OpenCallInv, ForceArgumentInv, LoopInv, DoReturnInv,
             LoopSignalInv, EndInv, FailInv DEF Program
<1>3. CASE Machine
  BY <1>3, LeavePromiseInv, CallBackInv, LeavePrimitiveInv, LeaveBodyInv, BeginOnExitInv,
     EndOnExitInv, LeaveAfterOnExitInv, EndTryBodyInv, EndTryHandlerInv, EndFinallyInv
     DEF Machine
<1> QED BY <1>1, <1>2, <1>3 DEF Next

\* The state keeps its type, however deep the stack is let grow.
THEOREM TypeCorrect == Spec => []TypeOK
<1>1. IInv => TypeOK
  <2> SUFFICES ASSUME IInv PROVE TypeOK
    OBVIOUS
  <2>1. stack \in Seq(ChunkSet \cup CallSet \cup TrySet \cup PrimitiveSet)
    BY Standing DEF Activation
  <2>2. Len(stack) \in 1..MaxStack
    BY Standing, SignalsAssumption
  <2> QED BY <2>1, <2>2, Standing DEF TypeOK, IInv, ContextSeq
<1> QED BY <1>1, InitInv, NextInv, PTL DEF Spec

\* The context of the call that running code is written in is entered and in sight,
\* and every one above it is not: hidden, or still being opened.
LEMMA WriterInSight ==
    ASSUME IInv, flow = "run", NEW f, f = Top.fun, NEW b, b = stack[f].base
    PROVE  /\ f \in 1..Here /\ b \in Nat /\ stack[f].op \in {"main", "call"}
           /\ b <= Len(calls)
           /\ \A i \in DOMAIN calls : i > b => i \notin Seen
           /\ stack[f].op = "call" => b \in Seen /\ calls[b] = Context(f)
           /\ stack[f].op = "main" => b = 0
<1>0. Runs
  BY DEF IInv, Runs
<1>1. /\ IsCode(Top) /\ Top.base \in Nat
      /\ Len(calls) = Top.base \/ Len(calls) = Top.base + 1
  BY <1>0, Running
<1>2. Shape(stack, calls, hidden) /\ Here \in 1..Len(stack) /\ Links(stack)
      /\ stack \in Seq(Activation) /\ Len(stack) # 0 /\ Len(calls) \in Nat
  BY Standing DEF IInv
<1>3. /\ f \in 1..Here /\ stack[f].op \in {"main", "call"} /\ b \in Nat /\ b <= Top.base
      /\ \A i \in (b + 1)..Top.base :
             \E r \in 1..Len(hidden) : hidden[r][1] < i /\ i <= hidden[r][2]
  <2>1. IsCode(stack[Here]) /\ Top = stack[Here]
    BY <1>1, Standing
  <2>2. /\ stack[Here].fun \in 1..Here
        /\ stack[stack[Here].fun].op \in {"main", "call"}
        /\ stack[stack[Here].fun].base \in Nat
        /\ stack[stack[Here].fun].base <= stack[Here].base
        /\ \A i \in (stack[stack[Here].fun].base + 1)..stack[Here].base :
               \E r \in 1..Len(hidden) : hidden[r][1] < i /\ i <= hidden[r][2]
    BY <1>2, <2>1, Covered
  <2> QED BY <2>1, <2>2
<1>4. b <= Len(calls)
  BY <1>1, <1>3
<1>5. DOMAIN calls = 1..Len(calls) /\ DOMAIN hidden = 1..Len(hidden)
  BY Standing, LenProperties DEF ContextSeq
<1>6. ASSUME NEW i \in DOMAIN calls, i > b PROVE i \notin Seen
  <2>1. CASE i <= Top.base
    <3>1. i \in (b + 1)..Top.base
      BY <1>3, <1>5, <1>6, <2>1
    <3>2. HiddenAt(i)
      BY <1>3, <1>5, <3>1 DEF HiddenAt
    <3> QED BY <3>2 DEF Seen
  <2>2. CASE ~(i <= Top.base)
    <3>1. i = Len(calls) /\ Len(calls) = Top.base + 1
      BY <1>1, <1>2, <1>5, <2>2
    <3>2. ~calls[i].entered
      BY <1>0, <3>1, Running
    <3> QED BY <3>2 DEF Seen
  <2> QED BY <2>1, <2>2
<1>7. stack[f].op = "main" => b = 0
  <2>1. stack[f].op = "main" => f = 1
    BY <1>3, Standing
  <2>2. Link(stack, 1) /\ stack[1].op = "main"
    BY <1>2, MainFirst DEF Links
  <2> QED BY <2>1, <2>2 DEF Link
<1>8. ASSUME stack[f].op = "call" PROVE b \in Seen /\ calls[b] = Context(f)
  <2>1. f \in 1..Len(stack) /\ f # 1 /\ f \in Nat /\ Here \in Nat
    BY <1>3, <1>8, Standing
  <2>2. calls[b] = Context(f)
    BY <1>2, <1>8, <2>1 DEF Shape, Contexts
  <2>3. B(stack, f) = b
    BY <1>8 DEF B
  <2>4. b # 0
    <3>1. 1 \in 1..f
      BY <2>1
    <3>2. B(stack, 1) \in Nat /\ B(stack, 1) < B(stack, f)
      BY <1>2, <1>8, <2>1, <3>1, BMono
    <3> QED BY <1>3, <2>3, <3>2
  <2>5. b \in DOMAIN calls
    BY <1>3, <1>4, <1>5, <2>4
  <2>6. ~HiddenAt(b)
    <3> SUFFICES ASSUME NEW r \in 1..Len(hidden), hidden[r][1] < b, b <= hidden[r][2]
                 PROVE  FALSE
      BY <1>5 DEF HiddenAt
    <3>1. PICK at : Hides(stack, hidden, at)
      BY <1>2 DEF Shape, Hiding
    <3>2. PICK p \in 1..Len(stack) : p = at[r]
      BY <3>1 DEF Hides
    <3>3. /\ stack[p].op = "promise" /\ hidden[r][2] = stack[p].base
          /\ stack[stack[p].fun].base <= hidden[r][1]
      BY <3>1, <3>2 DEF Hides
    <3>4. /\ IsCode(stack[p]) /\ B(stack, p) = stack[p].base /\ p \in 1..Here /\ p \in Nat
      BY <3>2, <3>3, Standing, SMTT(30) DEF IsCode, Chunks, B
    <3>5. PICK g : g = stack[p].fun
      OBVIOUS
    <3>6. /\ g \in 1..p /\ stack[g].op \in {"main", "call"} /\ g \in Nat /\ g \in 1..Len(stack)
      BY <1>2, <3>2, <3>4, <3>5, WriterIs
    <3>7. hidden[r][1] \in Nat
      <4>1. hidden[r] \in Nat \X Nat
        BY Standing, ElementOfSeq
      <4> QED BY <4>1
    <3>8. p # f
      BY <1>8, <3>3
    <3>9. CASE p < f
      <4>1. p \in 1..f
        BY <2>1, <3>4, <3>9
      <4>2. B(stack, p) \in Nat /\ B(stack, p) < B(stack, f)
        BY <1>2, <1>8, <2>1, <3>8, <4>1, BMono
      <4> QED BY <1>3, <2>3, <3>3, <3>4, <4>2
    <3>10. CASE p > f
      <4>1. f <= g
        <5>1. CASE p = Here
          BY <2>1, <3>5, <3>6, <5>1, Standing
        <5>2. CASE p # Here
          <6>1. p \in 1..(Here - 1)
            BY <2>1, <3>4, <5>2
          <6>2. stack[Here].fun <= stack[p].fun \/ stack[Here].fun > p
            BY <1>1, <1>2, <3>3, <6>1, Covered, Standing
          <6>3. f <= g \/ f > p
            BY <3>5, <6>2, Standing
          <6> QED BY <2>1, <3>4, <3>10, <6>3
        <5> QED BY <5>1, <5>2
      <4>2. f \in 1..g
        BY <2>1, <3>6, <4>1
      <4>3. B(stack, g) \in Nat /\ B(stack, f) <= B(stack, g)
        BY <1>2, <3>6, <4>2, BMono
      <4>4. B(stack, g) = stack[g].base
        BY <3>6 DEF B
      <4>5. PICK x : x = stack[g].base
        OBVIOUS
      <4>6. x \in Nat /\ b <= x
        BY <1>3, <2>3, <4>3, <4>4, <4>5
      <4>7. PICK h \in Nat : h = hidden[r][1]
        BY <3>7
      <4>8. x <= h
        BY <3>3, <3>5, <4>5, <4>7
      <4>9. b \in Nat /\ h < b
        BY <1>3, <2>3, <4>3, <4>7
      <4> QED BY <4>6, <4>7, <4>8, <4>9
    <3> QED BY <2>1, <3>4, <3>8, <3>9, <3>10
  <2> QED BY <1>5, <2>2, <2>5, <2>6 DEF Seen, Context
<1> QED BY <1>3, <1>4, <1>6, <1>7, <1>8

\* However calls and chunks are left, code that runs stands under the contexts it
\* started with and at most the one it is opening, and sees the call of the function
\* it is written in: an argument the call whose body wrote it, a handler its own.
THEOREM WriterIsSeen == Spec => []WriterSeen
<1>1. IInv => WriterSeen
  <2> SUFFICES ASSUME IInv, flow = "run"
               PROVE  /\ Len(calls) \in {Top.base, Top.base + 1}
                      /\ IF stack[Top.fun].op = "main" THEN Seen = {}
                         ELSE Seen # {} /\ calls[Innermost(Seen)].of = Top.fun
    BY DEF WriterSeen
  <2>1. Len(calls) \in {Top.base, Top.base + 1}
    <3>1. Runs
      BY DEF IInv, Runs
    <3> QED BY <3>1, Running
  <2>2. PICK f, b : f = Top.fun /\ b = stack[f].base
    OBVIOUS
  <2>3. /\ f \in 1..Here /\ b \in Nat /\ stack[f].op \in {"main", "call"}
        /\ \A i \in DOMAIN calls : i > b => i \notin Seen
        /\ stack[f].op = "call" => b \in Seen /\ calls[b] = Context(f)
        /\ stack[f].op = "main" => b = 0
    BY <2>2, WriterInSight
  <2>4. Seen \subseteq DOMAIN calls /\ DOMAIN calls = 1..Len(calls) /\ Len(calls) \in Nat
    BY Standing, LenProperties DEF Seen, ContextSeq
  <2>5. \A i \in Seen : i \in Nat /\ i # 0 /\ i <= b
    <3> SUFFICES ASSUME NEW i \in Seen PROVE i \in Nat /\ i # 0 /\ i <= b
      OBVIOUS
    <3>1. i \in DOMAIN calls /\ i \in Nat /\ i # 0
      BY <2>4
    <3>2. ~(i > b)
      BY <2>3, <3>1
    <3> QED BY <2>3, <3>1, <3>2
  <2>6. CASE stack[f].op = "main"
    <3>1. b = 0
      BY <2>3, <2>6
    <3>2. Seen = {}
      BY <2>5, <3>1
    <3> QED BY <2>1, <2>2, <2>6, <3>2
  <2>7. CASE stack[f].op = "call"
    <3>1. b \in Seen /\ calls[b] = Context(f)
      BY <2>3, <2>7
    <3>2. Innermost(Seen) = b
      <4>1. \A j \in Seen : j <= b
        BY <2>5
      <4>2. \A i \in Seen : (\A j \in Seen : j <= i) => i = b
        <5> SUFFICES ASSUME NEW i \in Seen, \A j \in Seen : j <= i PROVE i = b
          OBVIOUS
        <5>1. b <= i /\ i <= b /\ i \in Nat /\ b \in Nat
          BY <2>3, <2>5, <3>1
        <5> QED BY <5>1
      <4> QED BY <3>1, <4>1, <4>2 DEF Innermost
    <3>3. calls[Innermost(Seen)].of = f
      BY <3>1, <3>2 DEF Context
    <3> QED BY <2>1, <2>2, <2>7, <3>1, <3>3
  <2> QED BY <2>3, <2>6, <2>7
<1> QED BY <1>1, InitInv, NextInv, PTL DEF Spec
-----------------------------------------------------------------------------
(***************************************************************************)
(* In a program whose arguments do not return, whose on.exit expressions   *)
(* do not fail and whose finally expressions do not jump, a return() ends  *)
(* the function it is written in and a break or next acts on the loop      *)
(* around it, through every chunk and builtin between.                     *)
(***************************************************************************)
(* The inductive invariant of the signals *)

\* The chunk whose loop a break or next of the k-th is for.
LoopOf(s, k) == IF s[k].loop THEN k ELSE s[k].loopAt

\* What a lazily evaluated body has from the code that started it: an argument, which
\* a chunk is reading, can neither return nor jump; a builtin's can return for the
\* code that called the builtin, and only tryCatch's can jump.
Lent(s, k) ==
    /\ s[k].op \in {"main", "cleanup", "call"} => s[k].loopAt = 0
    /\ s[k].op = "promise" =>
        /\ s[k].loopAt < k
        /\ IsChunk(s[k - 1]) => s[k].arg /\ s[k].loopAt = 0
        /\ s[k - 1].op = "primitive" =>
               /\ s[k].loopAt = 0 /\ s[k].fun = s[k - 2].fun
               /\ ~s[k].arg => ~s[k - 2].arg /\ ~s[k - 1].back
        /\ s[k - 1].op = "tryCatch" =>
               /\ s[k].loopAt = LoopOf(s, k - 2) /\ s[k].fun = s[k - 2].fun
               /\ ~s[k].arg => ~s[k - 2].arg

\* No finally expression stands between a signal and the code it is for.
NoFinally(s, h, k) ==
    \A l \in (h + 1)..k : ~(s[l].op = "tryCatch" /\ s[l].phase = "finally")

\* A signal that has come as far as the builtin at k, which code at k - 1 called.
For(s, k, sig) ==
    /\ sig.kind = "return" => s[k - 1].fun = sig.home /\ ~s[k - 1].arg
    /\ sig.kind = "jump"   => LoopOf(s, k - 1) = sig.home

\* A signal that has come as far as k.
Arrives(s, k, sig) ==
    /\ NoFinally(s, sig.home, k)
    /\ s[k].op = "call" => sig.kind = "return" /\ sig.home = k
    /\ s[k].op = "primitive" => sig.kind = "return" /\ ~s[k].back /\ For(s, k, sig)
    /\ s[k].op = "tryCatch" => s[k].phase # "handler" /\ For(s, k, sig)
    /\ s[k].op \in Chunks =>
        /\ sig.kind = "return" => s[k].fun = sig.home /\ ~s[k].arg
        /\ sig.kind = "jump"   => s[k].loopAt = sig.home

\* Every on.exit expression in progress up to m has a tryCatch inside that catches
\* the error which is passing.
Unhurt(s, m) ==
    \A k \in 1..m : s[k].op = "cleanup" =>
        \E l \in (k + 1)..m : s[l].op = "tryCatch" /\ s[l].phase = "body" /\ s[l].catches

\* What an activation puts aside while a cleanup runs.
Aside(s, k) ==
    /\ s[k].op = "call" =>
        /\ s[k].saved # None => s[k].saved = Return(k) /\ s[k].out = "ok"
        /\ s[k].out = "err" => Unhurt(s, k - 1)
    /\ s[k].op = "tryCatch" =>
        /\ s[k].pending # None =>
               /\ For(s, k, s[k].pending) /\ NoFinally(s, s[k].pending.home, k - 1)
               /\ s[k].out = "ok" /\ s[k].phase # "handler"
        /\ s[k].out = "err" => Unhurt(s, k - 1)
Owes(s, k) == Lent(s, k) /\ Aside(s, k)

\* The inductive invariant of such programs.
IInvSignals ==
    /\ IInv
    /\ \A k \in 1..Here : Owes(stack, k)
    /\ signal # None => flow = "ok" /\ Arrives(stack, Here, signal)
    /\ flow = "err" => Unhurt(stack, Here)

-----------------------------------------------------------------------------
(* What the parts of the invariant depend on *)

\* A signal has a kind and a home.
LEMMA SigIs ==
    ASSUME NEW sig \in SignalSet, sig # None
    PROVE  /\ sig.kind \in {"return", "jump"} /\ sig.home \in Indices
           /\ sig.home \in Nat \ {0} /\ sig.home # 0
           /\ sig = [kind |-> sig.kind, home |-> sig.home]
           /\ Halts(sig) <=> sig.kind = "return"
BY SignalsAssumption DEF SignalSet, Indices, Halts

\* Only what stands between matters to NoFinally.
LEMMA NoFinallySame ==
    ASSUME NEW s, NEW t, NEW h \in Nat, NEW k \in Nat, NEW m \in Nat, m <= k,
           \A i \in 1..m : t[i] = s[i], NoFinally(s, h, k)
    PROVE  NoFinally(t, h, m)
<1> SUFFICES ASSUME NEW l \in (h + 1)..m
             PROVE  ~(t[l].op = "tryCatch" /\ t[l].phase = "finally")
  BY DEF NoFinally
<1>1. l \in (h + 1)..k /\ l \in 1..m
  OBVIOUS
<1> QED BY <1>1 DEF NoFinally

\* A cleanup is hurt by what stands inside it only.
LEMMA UnhurtSame ==
    ASSUME NEW s, NEW t, NEW m \in Nat, \A i \in 1..m : t[i] = s[i], Unhurt(s, m)
    PROVE  Unhurt(t, m)
<1> SUFFICES ASSUME NEW k \in 1..m, t[k].op = "cleanup"
             PROVE  \E l \in (k + 1)..m :
                        t[l].op = "tryCatch" /\ t[l].phase = "body" /\ t[l].catches
  BY DEF Unhurt
<1>1. PICK l \in (k + 1)..m : s[l].op = "tryCatch" /\ s[l].phase = "body" /\ s[l].catches
  BY DEF Unhurt
<1>2. l \in 1..m
  OBVIOUS
<1> QED BY <1>1, <1>2

\* What does not catch the error does not protect a cleanup.
LEMMA UnhurtPops ==
    ASSUME NEW s, NEW m \in Nat \ {0}, Unhurt(s, m),
           ~(s[m].op = "tryCatch" /\ s[m].phase = "body" /\ s[m].catches)
    PROVE  Unhurt(s, m - 1)
<1> SUFFICES ASSUME NEW k \in 1..(m - 1), s[k].op = "cleanup"
             PROVE  \E l \in (k + 1)..(m - 1) :
                        s[l].op = "tryCatch" /\ s[l].phase = "body" /\ s[l].catches
  BY DEF Unhurt
<1>1. k \in 1..m
  OBVIOUS
<1>2. PICK l \in (k + 1)..m : s[l].op = "tryCatch" /\ s[l].phase = "body" /\ s[l].catches
  BY <1>1 DEF Unhurt
<1>3. l # m
  BY <1>2
<1>4. l \in (k + 1)..(m - 1)
  BY <1>3
<1> QED BY <1>2, <1>4

\* One more activation that is no cleanup is hurt by nothing.
LEMMA UnhurtGrows ==
    ASSUME NEW s, NEW m \in Nat, Unhurt(s, m), s[m + 1].op # "cleanup"
    PROVE  Unhurt(s, m + 1)
<1> SUFFICES ASSUME NEW k \in 1..(m + 1), s[k].op = "cleanup"
             PROVE  \E l \in (k + 1)..(m + 1) :
                        s[l].op = "tryCatch" /\ s[l].phase = "body" /\ s[l].catches
  BY DEF Unhurt
<1>1. k \in 1..m
  OBVIOUS
<1>2. PICK l \in (k + 1)..m : s[l].op = "tryCatch" /\ s[l].phase = "body" /\ s[l].catches
  BY <1>1 DEF Unhurt
<1>3. l \in (k + 1)..(m + 1)
  OBVIOUS
<1> QED BY <1>2, <1>3

\* Under a promise stands another activation, and under a builtin a chunk.
LEMMA StandsOn ==
    ASSUME NEW s \in Seq(Activation), Len(s) # 0, Links(s), NEW k \in 1..Len(s)
    PROVE  /\ s[k].op \in {"promise", "tryCatch", "primitive", "call", "cleanup"} =>
                  k - 1 \in 1..(k - 1)
           /\ s[k].op = "promise" /\ s[k - 1].op \in {"primitive", "tryCatch"} =>
                  k - 2 \in 1..(k - 1)
<1>1. \A j \in 1..Len(s) : s[j].op = "main" <=> j = 1
  BY MainFirst
<1>2. CASE s[k].op \in {"promise", "tryCatch", "primitive", "call", "cleanup"}
  <2>1. s[k].op # "main"
    BY <1>2
  <2>2. k # 1
    BY <2>1, <1>1
  <2>3. k - 1 \in 1..(k - 1) /\ k - 1 \in 1..Len(s)
    BY <2>2
  <2>4. ASSUME s[k - 1].op \in {"primitive", "tryCatch"}
        PROVE  k - 2 \in 1..(k - 1)
    <3>1. s[k - 1].op # "main"
      BY <2>4
    <3>2. k - 1 # 1
      BY <3>1, <2>3, <1>1
    <3> QED BY <3>2, <2>2
  <2> QED BY <2>3, <2>4
<1>3. CASE s[k].op \notin {"promise", "tryCatch", "primitive", "call", "cleanup"}
  BY <1>3
<1> QED BY <1>2, <1>3

\* What an activation has from the code that started it is still there when only
\* its own progress changes.
LEMMA LentSame ==
    ASSUME NEW s \in Seq(Activation), Len(s) # 0, Links(s), NEW k \in 1..Len(s), Lent(s, k),
           NEW t, \A i \in 1..(k - 1) : t[i] = s[i], t[k].op = s[k].op,
           IsCode(s[k]) =>
               t[k].loopAt = s[k].loopAt /\ t[k].fun = s[k].fun /\ t[k].arg = s[k].arg
    PROVE  Lent(t, k)
<1>1. CASE s[k].op = "promise"
  <2>1. /\ IsCode(s[k]) /\ t[k - 1] = s[k - 1] /\ t[k].op = "promise"
        /\ s[k - 1].op \in {"primitive", "tryCatch"} => t[k - 2] = s[k - 2]
    BY <1>1, StandsOn DEF IsCode, Chunks
  <2>2. s[k - 1].op \in {"primitive", "tryCatch"} => LoopOf(t, k - 2) = LoopOf(s, k - 2)
    BY <2>1 DEF LoopOf
  <2>3. t[k].loopAt = s[k].loopAt /\ t[k].fun = s[k].fun /\ t[k].arg = s[k].arg
    BY <2>1
  <2> QED BY <1>1, <2>1, <2>2, <2>3 DEF Lent
<1>2. CASE s[k].op \in {"main", "cleanup", "call"}
  <2>1. t[k].loopAt = s[k].loopAt /\ s[k].loopAt = 0 /\ t[k].op # "promise"
    BY <1>2 DEF Lent, IsCode, Chunks
  <2> QED BY <2>1 DEF Lent
<1>3. CASE s[k].op \notin {"main", "cleanup", "call", "promise"}
  BY <1>3 DEF Lent
<1> QED BY <1>1, <1>2, <1>3

\* What it puts aside is still there too.
LEMMA AsideSame ==
    ASSUME NEW s \in Seq(Activation), Len(s) # 0, Links(s), NEW k \in 1..Len(s), Aside(s, k),
           NEW t, \A i \in 1..(k - 1) : t[i] = s[i], t[k].op = s[k].op,
           s[k].op = "call" => t[k].saved = s[k].saved /\ t[k].out = s[k].out,
           s[k].op = "tryCatch" => t[k] = s[k]
    PROVE  Aside(t, k)
<1>1. Unhurt(s, k - 1) => Unhurt(t, k - 1)
  BY UnhurtSame
<1>2. CASE s[k].op = "call"
  BY <1>1, <1>2 DEF Aside
<1>3. CASE s[k].op = "tryCatch"
  <2>1. t[k] = s[k] /\ t[k - 1] = s[k - 1]
    BY <1>3, StandsOn
  <2>2. LoopOf(t, k - 1) = LoopOf(s, k - 1)
    BY <2>1 DEF LoopOf
  <2>3. ASSUME t[k].pending # None
        PROVE  /\ For(t, k, t[k].pending) /\ NoFinally(t, t[k].pending.home, k - 1)
               /\ t[k].out = "ok" /\ t[k].phase # "handler"
    <3>1. s[k].pending # None /\ s[k] \in TrySet
      BY <2>1, <2>3, <1>3, ElementOfSeq, Kinds
    <3>2. s[k].pending \in SignalSet
      BY <3>1 DEF TrySet
    <3>3. s[k].pending.home \in Nat
      BY <3>1, <3>2, SigIs
    <3>4. /\ For(s, k, s[k].pending) /\ NoFinally(s, s[k].pending.home, k - 1)
          /\ s[k].out = "ok" /\ s[k].phase # "handler"
      BY <3>1, <1>3 DEF Aside
    <3>5. NoFinally(t, s[k].pending.home, k - 1)
      <4>1. k - 1 \in Nat /\ k - 1 <= k - 1
        OBVIOUS
      <4> QED BY <4>1, <3>3, <3>4, NoFinallySame
    <3>6. For(t, k, s[k].pending)
      BY <3>4, <2>1, <2>2 DEF For
    <3> QED BY <3>4, <3>5, <3>6, <2>1
  <2>4. t[k].out = "err" => Unhurt(t, k - 1)
    BY <1>1, <1>3, <2>1 DEF Aside
  <2> QED BY <2>3, <2>4, <1>3 DEF Aside
<1>4. CASE s[k].op \notin {"call", "tryCatch"}
  BY <1>4 DEF Aside
<1> QED BY <1>2, <1>3, <1>4

\* The activations below m, when they are the same, owe the same.
LEMMA OwesStays ==
    ASSUME IInvSignals, NEW m \in Nat, m <= Here, NEW t, \A i \in 1..m : t[i] = stack[i]
    PROVE  \A k \in 1..m : Owes(t, k)
<1> SUFFICES ASSUME NEW k \in 1..m
             PROVE  Owes(t, k)
  OBVIOUS
<1>1. IInv /\ \A j \in 1..Here : Owes(stack, j)
  BY DEF IInvSignals
<1>2. stack \in Seq(Activation) /\ Len(stack) # 0 /\ Links(stack) /\ Here = Len(stack)
      /\ Here \in Nat
  BY <1>1, Standing
<1>3. k \in 1..Len(stack) /\ k \in 1..Here /\ t[k] = stack[k]
      /\ \A i \in 1..(k - 1) : t[i] = stack[i]
  BY <1>2
<1>4. Lent(stack, k) /\ Aside(stack, k)
  BY <1>1, <1>3 DEF Owes
<1>5. Lent(t, k)
  BY <1>2, <1>3, <1>4, LentSame
<1>6. Aside(t, k)
  BY <1>2, <1>3, <1>4, AsideSame
<1> QED BY <1>5, <1>6 DEF Owes

\* A stack with one activation more, which owes its due.
LEMMA OwesMore ==
    ASSUME IInvSignals, NEW a, NEW t, t = Append(stack, a)
    PROVE  /\ Len(t) = Here + 1 /\ t[Here + 1] = a /\ t[Here] = Top
           /\ \A i \in 1..Here : t[i] = stack[i]
           /\ Owes(t, Here + 1) => \A k \in 1..Len(t) : Owes(t, k)
<1>1. stack \in Seq(Activation) /\ Here = Len(stack) /\ Here \in Nat \ {0} /\ Top = stack[Here]
  BY Standing DEF IInvSignals
<1>2. Len(t) = Here + 1 /\ t[Here + 1] = a /\ \A i \in 1..Here : t[i] = stack[i]
  BY <1>1, AppendIsFunction
<1>3. \A k \in 1..Here : Owes(t, k)
  <2>1. Here <= Here /\ Here \in Nat
    BY <1>1
  <2> QED BY <2>1, <1>2, OwesStays
<1>4. Owes(t, Here + 1) => \A k \in 1..Len(t) : Owes(t, k)
  BY <1>1, <1>2, <1>3
<1> QED BY <1>1, <1>2, <1>4

-----------------------------------------------------------------------------
(* What the invariant says of the innermost activation *)

\* The invariant of the next state, from that of the stack's shape and its parts.
LEMMA EndsWith ==
    ASSUME IInv', NEW t, t = stack', \A k \in 1..Len(t) : Owes(t, k),
           signal' # None => flow' = "ok" /\ Arrives(t, Len(t), signal'),
           flow' = "err" => Unhurt(t, Len(t))
    PROVE  IInvSignals'
BY DEF IInvSignals, Here

\* Where the innermost activation stands, and what it owes.
LEMMA Owing ==
    ASSUME IInvSignals
    PROVE  /\ IInv /\ Owes(stack, Here) /\ Lent(stack, Here) /\ Aside(stack, Here)
           /\ signal \in SignalSet /\ flow \in {"run", "ok", "err"}
           /\ flow # "ok" => signal = None
           /\ signal # None => Arrives(stack, Here, signal) /\ flow = "ok"
           /\ flow = "err" => Unhurt(stack, Here)
<1>1. IInv
  BY DEF IInvSignals
<1>2. Here \in 1..Here
  BY <1>1, Standing
<1> QED BY <1>1, <1>2 DEF IInvSignals, IInv, Owes

\* The same for the one below it.
LEMMA OwingBelow ==
    ASSUME IInvSignals, Top.op # "main"
    PROVE  /\ Here - 1 \in Nat \ {0} /\ Here - 1 \in 1..Here /\ stack[Here - 1] \in Activation
           /\ Owes(stack, Here - 1) /\ Lent(stack, Here - 1) /\ Aside(stack, Here - 1)
           /\ Front(stack) \in Seq(Activation) /\ Len(Front(stack)) = Here - 1
           /\ \A i \in 1..(Here - 1) : Front(stack)[i] = stack[i]
           /\ \A k \in 1..(Here - 1) : Owes(Front(stack), k)
<1>1. IInv
  BY DEF IInvSignals
<1>2. /\ Here - 1 \in Nat \ {0} /\ Here - 1 \in 1..Here /\ stack[Here - 1] \in Activation
      /\ Here \in Nat
  BY <1>1, Below, Standing
<1>3. /\ Front(stack) \in Seq(Activation) /\ Len(Front(stack)) = Here - 1
      /\ \A i \in 1..(Here - 1) : Front(stack)[i] = stack[i]
  BY <1>1, FrontOfStack
<1>4. Here - 1 \in Nat /\ Here - 1 <= Here
  BY <1>2
<1>5. \A k \in 1..(Here - 1) : Owes(Front(stack), k)
  BY <1>3, <1>4, OwesStays
<1> QED BY <1>2, <1>3, <1>5 DEF IInvSignals, Owes

-----------------------------------------------------------------------------
(* The program's actions *)

\* A step that leaves the stack and the way out alone keeps the invariant.
LEMMA QuietSignals ==
    ASSUME IInvSignals, IInv', UNCHANGED <<stack, flow, signal>>
    PROVE  IInvSignals'
<1>1. \A k \in 1..Len(stack) : Owes(stack, k)
  BY DEF IInvSignals, Here
<1>2. signal' # None => flow' = "ok" /\ Arrives(stack, Len(stack), signal')
  BY DEF IInvSignals, Here
<1>3. flow' = "err" => Unhurt(stack, Len(stack))
  BY DEF IInvSignals, Here
<1>4. stack = stack'
  OBVIOUS
<1> QED BY <1>1, <1>2, <1>3, <1>4, EndsWith

\* A chunk that starts or ends a loop of its own keeps the invariant.
LEMMA LoopSignals == ASSUME IInvSignals, IInv', Loop PROVE IInvSignals'
<1>1. IInv /\ Owes(stack, Here) /\ Lent(stack, Here) /\ Aside(stack, Here) /\ signal = None
      /\ flow = "run"
  BY Owing DEF Loop, Runs
<1>2. /\ stack \in Seq(Activation) /\ Here \in Nat \ {0} /\ Top = stack[Here]
      /\ Len(stack) # 0 /\ Links(stack) /\ Here \in 1..Len(stack) /\ Here = Len(stack)
      /\ IsChunk(Top) /\ Top \in Activation
  BY <1>1, Standing, Running DEF Loop
<1>3. PICK t : t = stack'
  OBVIOUS
<1>4. t = [stack EXCEPT ![Here] = [Top EXCEPT !.loop = ~@]]
  BY <1>3 DEF Loop, Becomes
<1>5. Len(t) = Here /\ t[Here] = [Top EXCEPT !.loop = ~@]
      /\ \A i \in 1..(Here - 1) : t[i] = stack[i]
  BY <1>2, <1>4
<1>6. IsCode(Top) /\ Top.op # "tryCatch" /\ Top \in ChunkSet \cup CallSet
  BY <1>2, Kinds DEF IsChunk, Chunks, IsCode
<1>7. /\ t[Here].op = Top.op /\ t[Here].loopAt = Top.loopAt /\ t[Here].fun = Top.fun
      /\ t[Here].arg = Top.arg
      /\ Top.op = "call" => t[Here].saved = Top.saved /\ t[Here].out = Top.out
  <2>1. CASE Top \in ChunkSet
    BY <2>1, <1>5 DEF ChunkSet, Chunks
  <2>2. CASE Top \in CallSet
    BY <2>2, <1>5 DEF CallSet
  <2> QED BY <1>6, <2>1, <2>2
<1>8. Lent(t, Here)
  BY <1>1, <1>2, <1>5, <1>7, LentSame
<1>9. Aside(t, Here)
  BY <1>1, <1>2, <1>5, <1>6, <1>7, AsideSame
<1>10. \A k \in 1..(Here - 1) : Owes(t, k)
  <2>1. Here - 1 \in Nat /\ Here - 1 <= Here
    BY <1>2
  <2> QED BY <2>1, <1>5, OwesStays
<1>11. \A k \in 1..Len(t) : Owes(t, k)
  BY <1>2, <1>5, <1>8, <1>9, <1>10 DEF Owes
<1>12. signal' = None /\ flow' = "run"
  BY <1>1 DEF Loop
<1> QED BY <1>3, <1>11, <1>12, EndsWith

\* A step that only halts the innermost chunk keeps the invariant when the signal
\* it raises is for code around it, or the error hurts no cleanup.
LEMMA HaltSignals ==
    ASSUME IInvSignals, IInv', UNCHANGED stack,
           signal' # None => flow' = "ok" /\ Arrives(stack, Here, signal'),
           flow' = "err" => Unhurt(stack, Here)
    PROVE  IInvSignals'
<1>1. \A k \in 1..Len(stack) : Owes(stack, k)
  BY DEF IInvSignals, Here
<1>2. stack = stack'
  OBVIOUS
<1> QED BY <1>1, <1>2, EndsWith DEF Here

\* A return() in code that is no argument sets out for the function of its code.
LEMMA DoReturnSignals ==
    ASSUME ~ArgReturns, ~AbruptCleanups, IInvSignals, IInv', DoReturn
    PROVE  IInvSignals'
<1>1. IInv /\ Runs /\ ~Top.arg /\ ~CutsFinally(Top.fun)
  BY Owing DEF DoReturn
<1>2. IsChunk(Top) /\ Here \in 1..Len(stack) /\ Top = stack[Here] /\ Len(stack) # 0
      /\ stack \in Seq(Activation) /\ Links(stack) /\ IsCode(Top)
  BY <1>1, Running, Standing
<1>3. Top.op \in {"main", "call"} => Top.fun = Here
  BY <1>2, WriterIs
<1>4. signal' = Return(Top.fun) /\ flow' = "ok" /\ stack' = stack
  BY DEF DoReturn
<1>5. signal'.kind = "return" /\ signal'.home = Top.fun
  BY <1>4 DEF Return
<1>6. NoFinally(stack, signal'.home, Here)
  BY <1>1, <1>5 DEF CutsFinally, NoFinally
<1>7. Top.op \notin {"primitive", "tryCatch"}
  BY <1>2 DEF IsChunk, Chunks
<1>8. Arrives(stack, Here, signal')
  <2>1. stack[Here].op = "call" => signal'.home = Here
    BY <1>2, <1>3, <1>5
  <2>2. stack[Here].op \notin {"primitive", "tryCatch"} /\ stack[Here].fun = signal'.home
        /\ ~stack[Here].arg
    BY <1>1, <1>2, <1>5, <1>7
  <2>3. signal'.kind # "jump"
    BY <1>5
  <2> QED BY <2>1, <2>2, <2>3, <1>5, <1>6 DEF Arrives
<1>9. flow' # "err"
  BY <1>4
<1> QED BY <1>4, <1>8, <1>9, HaltSignals

\* A break or next in a lazy body sets out for the loop around the body.
LEMMA LoopSignalSignals ==
    ASSUME ~AbruptCleanups, IInvSignals, IInv', LoopSignal
    PROVE  IInvSignals'
<1>1. IInv /\ Runs /\ ~CutsFinally(Top.loopAt) /\ Top.loopAt # 0 /\ Lent(stack, Here)
  BY Owing DEF LoopSignal
<1>2. IsChunk(Top) /\ Top = stack[Here]
  BY <1>1, Running, Standing
<1>3. Top.op \in Chunks /\ Top.op \notin {"call", "primitive", "tryCatch"}
  BY <1>1, <1>2 DEF Lent, IsChunk, Chunks
<1>4. signal' = Jump(Top.loopAt) /\ flow' = "ok" /\ stack' = stack
  BY DEF LoopSignal
<1>5. signal'.kind = "jump" /\ signal'.home = Top.loopAt
  BY <1>4 DEF Jump
<1>6. NoFinally(stack, signal'.home, Here)
  BY <1>1, <1>5 DEF CutsFinally, NoFinally
<1>7. Arrives(stack, Here, signal')
  BY <1>2, <1>3, <1>5, <1>6 DEF Arrives
<1>8. flow' # "err"
  BY <1>4
<1> QED BY <1>4, <1>7, <1>8, HaltSignals

\* A chunk that reaches its end has no signal pending.
LEMMA EndSignals == ASSUME IInvSignals, IInv', End PROVE IInvSignals'
<1>1. signal' = None /\ flow' = "ok" /\ stack' = stack
  BY Owing DEF End, Runs
<1>2. flow' # "err"
  BY <1>1
<1> QED BY <1>1, <1>2, HaltSignals

\* An error is raised where it hurts no cleanup.
LEMMA FailSignals == ASSUME ~AbruptCleanups, IInvSignals, IInv', Fail PROVE IInvSignals'
<1>1. signal' = None /\ flow' = "err" /\ stack' = stack /\ ~CutsOnExit
  BY Owing DEF Fail, Runs
<1>2. DOMAIN stack = 1..Here
  BY Standing DEF IInvSignals
<1>3. Unhurt(stack, Here)
  BY <1>1, <1>2 DEF CutsOnExit, Caught, Unhurt
<1> QED BY <1>1, <1>3, HaltSignals

\* A closure's body starts with nothing lent and nothing put aside.
LEMMA NewCallOwes ==
    ASSUME NEW s, NEW k, NEW n, NEW base, NEW d, NEW e, s[k] = ClosureCall(n, base, d, e)
    PROVE  Owes(s, k)
<1>1. s[k].op = "call" /\ s[k].loopAt = 0 /\ s[k].saved = None /\ s[k].out = "ok"
  BY DEF ClosureCall
<1> QED BY <1>1 DEF Owes, Lent, Aside

\* A step that pushes code which has its due, and runs it, keeps the invariant.
LEMMA PushSignals ==
    ASSUME IInvSignals, IInv', NEW a, stack' = Append(stack, a), Owes(stack', Here + 1),
           signal' = None, flow' = "run"
    PROVE  IInvSignals'
<1>1. PICK t : t = stack'
  OBVIOUS
<1>2. \A k \in 1..Len(t) : Owes(t, k)
  BY <1>1, OwesMore
<1> QED BY <1>1, <1>2, EndsWith

\* The call of a closure keeps the invariant.
LEMMA CallSignals ==
    ASSUME IInvSignals, IInv', NEW args \in BOOLEAN, NEW exit \in BOOLEAN, Call(args, exit)
    PROVE  IInvSignals'
<1>1. signal' = None /\ flow' = "run"
  BY Owing DEF Call, Runs
<1>2. PICK d : stack' = Append(stack, ClosureCall(Here + 1, Len(calls), d, exit))
  BY DEF Call
<1>3. stack'[Here + 1] = ClosureCall(Here + 1, Len(calls), d, exit)
  BY <1>2, OwesMore
<1>4. Owes(stack', Here + 1)
  BY <1>3, NewCallOwes
<1> QED BY <1>1, <1>2, <1>4, PushSignals

\* lapply calls its closure when no signal is pending.
LEMMA CallBackSignals == ASSUME IInvSignals, IInv', CallBack PROVE IInvSignals'
<1>1. IInv /\ Top = stack[Here]
  BY Owing, Standing
<1>2. signal = None
  BY <1>1, Owing DEF CallBack, Arrives
<1>3. signal' = None /\ flow' = "run"
  BY <1>2 DEF CallBack
<1>4. stack' = Append(stack, ClosureCall(Here + 1, Len(calls) + 1, None, FALSE))
  BY DEF CallBack
<1>5. PICK a : a = ClosureCall(Here + 1, Len(calls) + 1, None, FALSE)
  OBVIOUS
<1>6. stack' = Append(stack, a)
  BY <1>4, <1>5
<1>7. stack'[Here + 1] = a
  BY <1>6, OwesMore
<1>8. stack'[Here + 1] = ClosureCall(Here + 1, Len(calls) + 1, None, FALSE)
  BY <1>5, <1>7
<1>9. Owes(stack', Here + 1)
  BY <1>8, NewCallOwes
<1> QED BY <1>3, <1>6, <1>9, PushSignals

\* An argument that a chunk reads can neither return nor jump.
LEMMA ForceArgumentSignals == ASSUME IInvSignals, IInv', ForceArgument PROVE IInvSignals'
<1>1. signal' = None /\ flow' = "run" /\ IInv /\ Runs
  BY Owing DEF ForceArgument, Runs
<1>2. PICK a : a = Argument(Top.fun - 1, calls, TRUE)
  OBVIOUS
<1>3. stack' = Append(stack, a)
  BY <1>2 DEF ForceArgument
<1>4. a.op = "promise" /\ a.loopAt = 0 /\ a.arg
  BY <1>2 DEF Argument, Chunk
<1>5. stack'[Here + 1] = a /\ stack'[Here] = Top /\ IsChunk(Top) /\ Here \in Nat \ {0}
  BY <1>1, <1>3, OwesMore, Running, Standing
<1>6. (Here + 1) - 1 = Here /\ 0 < Here + 1
  BY <1>5
<1>7. Top.op \notin {"primitive", "tryCatch"}
  BY <1>5 DEF IsChunk, Chunks
<1>8. Lent(stack', Here + 1)
  BY <1>4, <1>5, <1>6, <1>7 DEF Lent
<1>9. Aside(stack', Here + 1)
  BY <1>4, <1>5 DEF Aside
<1>10. Owes(stack', Here + 1)
  BY <1>8, <1>9 DEF Owes
<1> QED BY <1>1, <1>3, <1>10, PushSignals

\* A stack with two activations more.
TwoOn(s, a, b) == s \o <<a, b>>

\* Its length and what it holds.
LEMMA TwoPushed ==
    ASSUME IInv, NEW a, NEW b, NEW t, t = TwoOn(stack, a, b)
    PROVE  /\ Len(t) = Here + 2 /\ t[Here + 1] = a /\ t[Here + 2] = b /\ t[Here] = Top
           /\ \A i \in 1..Here : t[i] = stack[i]
<1>1. stack \in Seq(Activation) /\ Here = Len(stack) /\ Here \in Nat \ {0} /\ Top = stack[Here]
  BY Standing
<1>2. Len(t) = Here + 2 /\ t[Here + 1] = a /\ t[Here + 2] = b
      /\ \A i \in 1..Here : t[i] = stack[i]
  BY <1>1 DEF TwoOn
<1> QED BY <1>1, <1>2

\* It owes what it should when the two do.
LEMMA OwesTwoMore ==
    ASSUME IInvSignals, NEW a, NEW b, NEW t, t = TwoOn(stack, a, b),
           Owes(t, Here + 1), Owes(t, Here + 2)
    PROVE  \A k \in 1..Len(t) : Owes(t, k)
<1> SUFFICES ASSUME NEW k \in 1..Len(t)
             PROVE  Owes(t, k)
  OBVIOUS
<1>1. IInv
  BY DEF IInvSignals
<1>2. Len(t) = Here + 2 /\ \A i \in 1..Here : t[i] = stack[i]
  BY <1>1, TwoPushed
<1>3. Here \in Nat /\ Here <= Here
  BY <1>1, Standing
<1>4. k \in 1..Here \/ k = Here + 1 \/ k = Here + 2
  BY <1>2, <1>3
<1>5. CASE k \in 1..Here
  BY <1>2, <1>3, <1>5, OwesStays
<1>6. CASE k = Here + 1
  BY <1>6
<1>7. CASE k = Here + 2
  BY <1>7
<1> QED BY <1>4, <1>5, <1>6, <1>7

\* The loop that a lazy body started here is in, if any, is here or further out.
LEMMA LoopAtIs ==
    ASSUME NEW s, NEW k \in Nat \ {0}, s[k] \in Activation, IsChunk(s[k]), Lent(s, k)
    PROVE  LoopOf(s, k) \in 0..k
<1>1. s[k] \in ChunkSet \cup CallSet
  BY Kinds DEF IsChunk, Chunks
<1>2. s[k].loopAt \in Nat
  <2>1. CASE s[k] \in ChunkSet
    BY <2>1, SignalsAssumption DEF ChunkSet
  <2>2. CASE s[k] \in CallSet
    <3>1. s[k].loopAt \in {0}
      BY <2>2 DEF CallSet
    <3> QED BY <3>1
  <2> QED BY <1>1, <2>1, <2>2
<1>3. s[k].loopAt = 0 \/ s[k].loopAt < k
  <2>1. s[k].op \in {"main", "cleanup", "call"} \/ s[k].op = "promise"
    BY DEF IsChunk, Chunks
  <2> QED BY <2>1 DEF Lent
<1> QED BY <1>2, <1>3 DEF LoopOf

\* What a builtin that forces its argument lends it.
LEMMA CallPrimitiveSignals ==
    ASSUME IInvSignals, IInv', NEW back \in BOOLEAN, CallPrimitive(back)
    PROVE  IInvSignals'
<1>1. signal' = None /\ flow' = "run" /\ IInv /\ Runs
  BY Owing DEF CallPrimitive, Runs
<1>2. PICK a : a = [op |-> "primitive", back |-> back]
  OBVIOUS
<1>3. PICK b : b = Argument(Here, calls, Top.arg \/ back)
  OBVIOUS
<1>4. PICK t : t = stack'
  OBVIOUS
<1>5. t = TwoOn(stack, a, b)
  BY <1>2, <1>3, <1>4 DEF CallPrimitive, TwoOn
<1>6. t[Here + 1] = a /\ t[Here + 2] = b /\ t[Here] = Top
  BY <1>1, <1>5, TwoPushed
<1>7. a.op = "primitive" /\ a.back = back
  BY <1>2
<1>8. /\ b.op = "promise" /\ b.loopAt = 0 /\ b.fun = Top.fun /\ b.arg = (Top.arg \/ back)
  BY <1>3 DEF Argument, Chunk, Top
<1>9. Here \in Nat \ {0} /\ (Here + 2) - 1 = Here + 1 /\ (Here + 2) - 2 = Here /\ 0 < Here + 2
  BY <1>1, Standing
<1>10. Owes(t, Here + 1)
  BY <1>6, <1>7 DEF Owes, Lent, Aside
<1>11. Lent(t, Here + 2)
  <2>1. ~IsChunk(a)
    BY <1>7 DEF IsChunk, Chunks
  <2>2. ~b.arg => ~Top.arg /\ ~a.back
    BY <1>7, <1>8
  <2> QED BY <1>6, <1>7, <1>8, <1>9, <2>1, <2>2 DEF Lent
<1>12. Owes(t, Here + 2)
  BY <1>6, <1>8, <1>11 DEF Owes, Aside
<1>13. \A k \in 1..Len(t) : Owes(t, k)
  BY <1>5, <1>10, <1>12, OwesTwoMore
<1> QED BY <1>1, <1>4, <1>13, EndsWith

\* What tryCatch lends its body, and its finally expression.
LEMMA LazyLent ==
    ASSUME NEW k \in Nat \ {0}, stack[k] \in Activation, IsChunk(stack[k]), Lent(stack, k),
           NEW cs, NEW t, t[k] = stack[k], t[k + 1].op = "tryCatch",
           t[k + 2] = LazyBody(k, cs)
    PROVE  Lent(t, k + 2) /\ Aside(t, k + 2)
<1>1. PICK b : b = LazyBody(k, cs)
  OBVIOUS
<1>2. /\ b.op = "promise" /\ b.fun = stack[k].fun /\ b.arg = stack[k].arg
      /\ b.loopAt = LoopAt(k)
  BY <1>1 DEF LazyBody, Chunk
<1>3. LoopAt(k) = LoopOf(t, k) /\ LoopAt(k) = LoopOf(stack, k)
  BY DEF LoopAt, LoopOf
<1>4. b.loopAt \in 0..k
  BY <1>2, <1>3, LoopAtIs
<1>5. b.loopAt < k + 2 /\ (k + 2) - 1 = k + 1 /\ (k + 2) - 2 = k
  BY <1>4
<1>6. t[k + 2] = b /\ ~IsChunk(t[k + 1]) /\ t[k + 1].op # "primitive"
  BY <1>1 DEF IsChunk, Chunks
<1>7. b.loopAt = LoopOf(t, k)
  BY <1>2, <1>3
<1>8. Lent(t, k + 2)
  BY <1>2, <1>5, <1>6, <1>7 DEF Lent
<1>9. Aside(t, k + 2)
  BY <1>2, <1>6 DEF Aside
<1> QED BY <1>8, <1>9

\* The call of tryCatch keeps the invariant.
LEMMA TryCatchSignals ==
    ASSUME IInvSignals, IInv', NEW catches \in BOOLEAN, NEW finally \in BOOLEAN,
           TryCatch(catches, finally)
    PROVE  IInvSignals'
<1>1. signal' = None /\ flow' = "run" /\ IInv /\ Runs /\ Lent(stack, Here)
  BY Owing DEF TryCatch, Runs
<1>2. PICK a : a = [op |-> "tryCatch", phase |-> "body", base |-> Len(calls),
                    catches |-> catches, finally |-> finally, out |-> "ok",
                    pending |-> None]
  OBVIOUS
<1>3. PICK cs : cs = Append(Entered, Context(Here + 1))
  OBVIOUS
<1>4. PICK b : b = LazyBody(Here, cs)
  OBVIOUS
<1>5. PICK t : t = stack'
  OBVIOUS
<1>6. t = TwoOn(stack, a, b)
  BY <1>2, <1>3, <1>4, <1>5 DEF TryCatch, TwoOn
<1>7. t[Here + 1] = a /\ t[Here + 2] = LazyBody(Here, cs) /\ t[Here] = Top
  BY <1>1, <1>4, <1>6, TwoPushed
<1>8. a.op = "tryCatch" /\ a.pending = None /\ a.out = "ok"
  BY <1>2
<1>9. Here \in Nat \ {0} /\ Top = stack[Here] /\ IsChunk(Top) /\ Top \in Activation
  BY <1>1, Standing, Running
<1>10. Owes(t, Here + 1)
  BY <1>7, <1>8 DEF Owes, Lent, Aside
<1>11. Owes(t, Here + 2)
  BY <1>1, <1>7, <1>8, <1>9, LazyLent DEF Owes
<1>12. \A k \in 1..Len(t) : Owes(t, k)
  BY <1>6, <1>10, <1>11, OwesTwoMore
<1> QED BY <1>1, <1>5, <1>12, EndsWith

-----------------------------------------------------------------------------
(* The way out *)

\* A return that a builtin hands on goes on in the code that called the builtin.
LEMMA ReturnArrives ==
    ASSUME IInv, IsChunk(stack[Here - 1]), Here - 1 \in 1..Here,
           NEW sig \in SignalSet, sig # None, sig.kind = "return",
           For(stack, Here, sig), NoFinally(stack, sig.home, Here - 1),
           NEW t, \A i \in 1..(Here - 1) : t[i] = stack[i]
    PROVE  Arrives(t, Here - 1, sig)
<1>1. /\ stack \in Seq(Activation) /\ Len(stack) # 0 /\ Links(stack) /\ Here \in Nat
      /\ Here - 1 \in 1..Len(stack) /\ stack[Here - 1] \in Activation /\ Here - 1 \in Nat
  BY Standing
<1>2. t[Here - 1] = stack[Here - 1] /\ IsCode(stack[Here - 1])
  BY <1>1, Kinds
<1>3. stack[Here - 1].op = "call" => stack[Here - 1].fun = Here - 1
  BY <1>1, <1>2, WriterIs
<1>4. NoFinally(t, sig.home, Here - 1)
  <2>1. sig.home \in Nat /\ Here - 1 <= Here - 1
    BY <1>1, SigIs
  <2> QED BY <2>1, <1>1, NoFinallySame
<1>5. stack[Here - 1].fun = sig.home /\ ~stack[Here - 1].arg
  BY DEF For
<1>6. t[Here - 1].op \notin {"primitive", "tryCatch"}
  BY <1>2 DEF IsChunk, Chunks
<1>7. sig.kind # "jump"
  OBVIOUS
<1> QED BY <1>2, <1>3, <1>4, <1>5, <1>6, <1>7 DEF Arrives

\* A step that pops the innermost activation keeps the invariant when the signal
\* is on its way below, or the error hurts no cleanup there.
LEMMA PopSignals ==
    ASSUME IInvSignals, IInv', Top.op # "main", stack' = Front(stack),
           signal' # None => flow' = "ok" /\ Arrives(Front(stack), Here - 1, signal'),
           flow' = "err" => Unhurt(stack, Here - 1)
    PROVE  IInvSignals'
<1>1. PICK t : t = Front(stack)
  OBVIOUS
<1>2. /\ Len(t) = Here - 1 /\ \A k \in 1..(Here - 1) : Owes(t, k)
      /\ \A i \in 1..(Here - 1) : t[i] = stack[i]
  BY <1>1, OwingBelow
<1>3. Here - 1 \in Nat
  BY OwingBelow
<1>4. flow' = "err" => Unhurt(t, Len(t))
  BY <1>2, <1>3, UnhurtSame
<1>5. signal' # None => flow' = "ok" /\ Arrives(t, Len(t), signal')
  BY <1>1, <1>2
<1>6. \A k \in 1..Len(t) : Owes(t, k)
  BY <1>2
<1> QED BY <1>1, <1>4, <1>5, <1>6, EndsWith

\* An error that passes what does not catch it hurts no cleanup below.
LEMMA ErrorPasses ==
    ASSUME IInvSignals, flow = "err",
           ~(Top.op = "tryCatch" /\ Top.phase = "body" /\ Top.catches)
    PROVE  Unhurt(stack, Here - 1)
<1>1. IInv /\ Unhurt(stack, Here)
  BY Owing
<1>2. Here \in Nat \ {0} /\ Top = stack[Here]
  BY <1>1, Standing
<1> QED BY <1>1, <1>2, UnhurtPops

\* A chunk reads an argument, which leaves no signal behind.
LEMMA ReadSignals ==
    ASSUME IInvSignals, Top.op = "promise", IsChunk(stack[Here - 1])
    PROVE  signal = None
<1> SUFFICES ASSUME signal # None
             PROVE  FALSE
  OBVIOUS
<1>1. IInv /\ Lent(stack, Here) /\ Arrives(stack, Here, signal) /\ signal \in SignalSet
  BY Owing
<1>2. Top = stack[Here] /\ Top.op \in Chunks
  BY <1>1, Standing DEF Chunks
<1>3. Top.arg /\ Top.loopAt = 0
  BY <1>1, <1>2 DEF Lent
<1>4. signal.kind \in {"return", "jump"} /\ signal.home # 0
  BY <1>1, SigIs
<1>5. CASE signal.kind = "return"
  BY <1>1, <1>2, <1>3, <1>5 DEF Arrives
<1>6. CASE signal.kind = "jump"
  BY <1>1, <1>2, <1>3, <1>4, <1>6 DEF Arrives
<1> QED BY <1>4, <1>5, <1>6

\* A lazy body that a builtin started leaves the builtin with a signal that the
\* builtin knows what to do with.
LEMMA BodySignals ==
    ASSUME IInvSignals, Top.op = "promise", ~IsChunk(stack[Here - 1]), signal # None,
           NEW t, \A i \in 1..(Here - 1) : t[i] = stack[i]
    PROVE  Arrives(t, Here - 1, signal)
<1>1. IInv /\ Lent(stack, Here) /\ Arrives(stack, Here, signal) /\ signal \in SignalSet
  BY Owing
<1>2. /\ Top = stack[Here] /\ Top.op \in Chunks /\ Link(stack, Here) /\ Here \in Nat \ {0}
      /\ stack \in Seq(Activation) /\ Len(stack) # 0 /\ Links(stack) /\ Here \in 1..Len(stack)
  BY <1>1, Standing DEF Chunks
<1>3. /\ signal.kind \in {"return", "jump"} /\ signal.home # 0 /\ signal.home \in Nat
      /\ Top.op # "main"
  BY <1>1, SigIs
<1>4. Here - 1 \in 1..Here /\ Here - 1 \in Nat /\ Here - 1 <= Here /\ Here - 1 \in 1..(Here - 1)
  BY <1>3, OwingBelow
<1>5. PromiseLink(stack, Here)
  BY <1>2 DEF Link
<1>6. t[Here - 1] = stack[Here - 1]
      /\ \/ stack[Here - 1].op = "primitive"
         \/ stack[Here - 1].op = "tryCatch" /\ stack[Here - 1].phase # "handler"
  BY <1>4, <1>5 DEF PromiseLink
<1>7. Here - 2 \in 1..(Here - 1) /\ t[Here - 2] = stack[Here - 2]
      /\ (Here - 1) - 1 = Here - 2
  BY <1>2, <1>4, <1>6, StandsOn
<1>8. NoFinally(t, signal.home, Here - 1)
  <2>1. NoFinally(stack, signal.home, Here)
    BY <1>1 DEF Arrives
  <2> QED BY <2>1, <1>2, <1>3, <1>4, NoFinallySame
<1>9. /\ signal.kind = "return" => Top.fun = signal.home /\ ~Top.arg
      /\ signal.kind = "jump" => Top.loopAt = signal.home
  BY <1>1, <1>2 DEF Arrives
<1>10. t[Here - 1].op \notin Chunks \cup {"call"}
  BY <1>6 DEF Chunks
<1>11. CASE stack[Here - 1].op = "primitive"
  <2>1. /\ Top.loopAt = 0 /\ Top.fun = stack[Here - 2].fun
        /\ ~Top.arg => ~stack[Here - 2].arg /\ ~stack[Here - 1].back
    BY <1>1, <1>2, <1>11 DEF Lent
  <2>2. signal.kind = "return"
    BY <2>1, <1>3, <1>9
  <2>3. ~t[Here - 1].back /\ t[Here - 2].fun = signal.home /\ ~t[Here - 2].arg
    BY <2>1, <2>2, <1>6, <1>7, <1>9
  <2>4. For(t, Here - 1, signal)
    BY <2>2, <2>3, <1>7 DEF For
  <2>5. t[Here - 1].op # "tryCatch"
    BY <1>6, <1>11
  <2> QED BY <2>2, <2>3, <2>4, <2>5, <1>8, <1>10 DEF Arrives
<1>12. CASE stack[Here - 1].op = "tryCatch" /\ stack[Here - 1].phase # "handler"
  <2>1. /\ Top.loopAt = LoopOf(stack, Here - 2) /\ Top.fun = stack[Here - 2].fun
        /\ ~Top.arg => ~stack[Here - 2].arg
    BY <1>1, <1>2, <1>12 DEF Lent
  <2>2. LoopOf(t, Here - 2) = LoopOf(stack, Here - 2)
    BY <1>7 DEF LoopOf
  <2>3. signal.kind = "return" => t[Here - 2].fun = signal.home /\ ~t[Here - 2].arg
    BY <2>1, <1>7, <1>9
  <2>4. signal.kind = "jump" => LoopOf(t, Here - 2) = signal.home
    BY <2>1, <2>2, <1>9
  <2>5. For(t, Here - 1, signal)
    BY <2>3, <2>4, <1>7 DEF For
  <2>6. t[Here - 1].op # "primitive" /\ t[Here - 1].phase # "handler"
    BY <1>6, <1>12
  <2> QED BY <2>5, <2>6, <1>8, <1>10 DEF Arrives
<1> QED BY <1>6, <1>11, <1>12

\* A promise that is over keeps the invariant.
LEMMA LeavePromiseSignals == ASSUME IInvSignals, IInv', LeavePromise PROVE IInvSignals'
<1>1. Top.op = "promise" /\ flow # "run" /\ stack' = Front(stack) /\ signal' = signal
  BY DEF LeavePromise, Over
<1>2. flow' = IF flow = "ok" /\ IsChunk(stack[Here - 1]) THEN "run" ELSE flow
  BY DEF LeavePromise
<1>3. Top.op # "main" /\ Top.op # "tryCatch"
  BY <1>1
<1>4. /\ flow \in {"run", "ok", "err"}
      /\ signal # None => flow = "ok"
      /\ \A i \in 1..(Here - 1) : Front(stack)[i] = stack[i]
  BY <1>3, Owing, OwingBelow
<1>5. flow' = "err" => Unhurt(stack, Here - 1)
  <2>1. flow' = "err" => flow = "err"
    BY <1>2, <1>4
  <2> QED BY <2>1, <1>3, ErrorPasses
<1>6. ASSUME signal' # None
      PROVE  flow' = "ok" /\ Arrives(Front(stack), Here - 1, signal')
  <2>1. signal # None /\ flow = "ok"
    BY <1>1, <1>4, <1>6
  <2>2. ~IsChunk(stack[Here - 1])
    BY <2>1, <1>1, ReadSignals
  <2>3. flow' = "ok"
    BY <2>1, <2>2, <1>2
  <2>4. Arrives(Front(stack), Here - 1, signal)
    BY <2>1, <2>2, <1>1, <1>4, BodySignals
  <2> QED BY <2>3, <2>4, <1>1
<1> QED BY <1>1, <1>3, <1>5, <1>6, PopSignals

\* A primitive that ends hands a return on, and has no other signal.
LEMMA LeavePrimitiveSignals == ASSUME IInvSignals, IInv', LeavePrimitive PROVE IInvSignals'
<1>1. /\ flow # "run" /\ Top.op = "primitive" /\ stack' = Front(stack) /\ signal' = signal
      /\ flow' = IF flow = "err" THEN "err" ELSE IF Halts(signal) THEN "ok" ELSE "run"
  BY DEF LeavePrimitive, Answer
<1>2. Top.op # "main" /\ Top.op # "tryCatch"
  BY <1>1
<1>3. /\ IInv /\ Lent(stack, Here) /\ signal \in SignalSet /\ flow \in {"run", "ok", "err"}
      /\ signal # None => flow = "ok" /\ Arrives(stack, Here, signal)
  BY Owing
<1>4. /\ Top = stack[Here] /\ Link(stack, Here) /\ Here \in Nat \ {0}
      /\ Here - 1 \in 1..Here /\ Here - 1 \in Nat /\ Here - 1 <= Here
      /\ \A i \in 1..(Here - 1) : Front(stack)[i] = stack[i]
  BY <1>2, <1>3, Standing, OwingBelow
<1>5. IsChunk(stack[Here - 1])
  BY <1>1, <1>4 DEF Link
<1>6. flow' = "err" => Unhurt(stack, Here - 1)
  <2>1. flow' = "err" => flow = "err"
    BY <1>1
  <2> QED BY <2>1, <1>2, ErrorPasses
<1>7. ASSUME signal' # None
      PROVE  flow' = "ok" /\ Arrives(Front(stack), Here - 1, signal')
  <2>1. signal # None /\ flow = "ok"
    BY <1>1, <1>3, <1>7
  <2>2. signal.kind = "return" /\ For(stack, Here, signal) /\ NoFinally(stack, signal.home, Here)
    BY <2>1, <1>1, <1>3, <1>4 DEF Arrives
  <2>3. Halts(signal) /\ signal.home \in Nat
    BY <2>1, <2>2, <1>3, SigIs DEF Halts
  <2>4. NoFinally(stack, signal.home, Here - 1)
    <3>1. \A i \in 1..(Here - 1) : stack[i] = stack[i]
      OBVIOUS
    <3>2. Here \in Nat
      BY <1>4
    <3> QED BY <3>1, <3>2, <2>2, <2>3, <1>4, NoFinallySame
  <2>5. Arrives(Front(stack), Here - 1, signal)
    BY <2>1, <2>2, <2>4, <1>3, <1>4, <1>5, ReturnArrives
  <2> QED BY <2>1, <2>3, <2>5, <1>1
<1> QED BY <1>1, <1>2, <1>6, <1>7, PopSignals

\* A signal that comes as far as a call is a return that ends it.
LEMMA AtCall ==
    ASSUME IInvSignals, Top.op = "call", signal # None
    PROVE  signal = Return(Here) /\ flow = "ok" /\ Halts(signal)
<1>1. IInv /\ Arrives(stack, Here, signal) /\ signal \in SignalSet /\ flow = "ok"
  BY Owing
<1>2. Top = stack[Here]
  BY <1>1, Standing
<1>3. signal.kind = "return" /\ signal.home = Here
  BY <1>1, <1>2 DEF Arrives
<1>4. signal = [kind |-> signal.kind, home |-> signal.home]
  BY <1>1, SigIs
<1>5. signal = Return(Here)
  BY <1>3, <1>4 DEF Return
<1>6. Halts(signal)
  BY <1>3 DEF Halts
<1> QED BY <1>1, <1>5, <1>6

\* A call that ends has taken the return that was for it.
LEMMA LeaveFrameSignals ==
    ASSUME IInvSignals, IInv', Top.op = "call", NEW cs, LeaveFrame(flow, cs), flow # "run"
    PROVE  IInvSignals'
<1>1. Top.op # "main" /\ Top.op # "tryCatch" /\ flow \in {"run", "ok", "err"}
  BY Owing
<1>2. Taken(flow, signal) = None
  <2>1. CASE signal = None
    BY <2>1 DEF Taken
  <2>2. CASE signal # None
    BY <2>2, AtCall DEF Taken
  <2> QED BY <2>1, <2>2
<1>3. PICK sig : sig = Taken(flow, signal)
  OBVIOUS
<1>4. sig = None /\ ~Halts(sig)
  BY <1>2, <1>3 DEF Halts
<1>5. CASE IsChunk(stack[Here - 1])
  <2>1. Answer(flow, sig, cs)
    BY <1>3, <1>5 DEF LeaveFrame
  <2>2. stack' = Front(stack) /\ signal' = None /\ (flow' = "err" => flow = "err")
    BY <2>1, <1>4 DEF Answer
  <2>3. flow' = "err" => Unhurt(stack, Here - 1)
    BY <2>2, <1>1, ErrorPasses
  <2> QED BY <2>2, <2>3, <1>1, PopSignals
<1>6. CASE ~IsChunk(stack[Here - 1])
  <2>1. stack' = Front(stack) /\ signal' = Taken(flow, signal) /\ flow' = flow
    BY <1>6 DEF LeaveFrame
  <2>2. signal' = None
    BY <2>1, <1>2
  <2>3. flow' = "err" => Unhurt(stack, Here - 1)
    BY <2>1, <1>1, ErrorPasses
  <2> QED BY <2>1, <2>2, <2>3, <1>1, PopSignals
<1> QED BY <1>5, <1>6

\* A call without an on.exit expression ends.
LEMMA LeaveBodySignals == ASSUME IInvSignals, IInv', LeaveBody PROVE IInvSignals'
<1>1. Top.op = "call" /\ LeaveFrame(flow, Unwound) /\ flow # "run"
  BY DEF LeaveBody, Over
<1> QED BY <1>1, LeaveFrameSignals

\* A call ends after its on.exit expression.
LEMMA LeaveAfterOnExitSignals ==
    ASSUME IInvSignals, IInv', LeaveAfterOnExit
    PROVE  IInvSignals'
<1>1. Top.op = "call" /\ LeaveFrame(flow, calls) /\ flow # "run"
  BY DEF LeaveAfterOnExit
<1> QED BY <1>1, LeaveFrameSignals

\* The innermost activation makes progress and another starts on top of it.
Resumes(s, n, a, b) == Append([s EXCEPT ![n] = a], b)

\* What the stack then holds.
LEMMA ResumedIs ==
    ASSUME IInv, NEW a \in Activation, NEW b, NEW t, t = Resumes(stack, Here, a, b)
    PROVE  /\ Len(t) = Here + 1 /\ t[Here] = a /\ t[Here + 1] = b
           /\ \A i \in 1..(Here - 1) : t[i] = stack[i]
<1>1. stack \in Seq(Activation) /\ Here = Len(stack) /\ Here \in Nat \ {0}
  BY Standing
<1>2. PICK r : r = [stack EXCEPT ![Here] = a]
  OBVIOUS
<1>3. /\ r \in Seq(Activation) /\ Len(r) = Here /\ r[Here] = a
      /\ \A i \in 1..(Here - 1) : r[i] = stack[i]
  BY <1>1, <1>2
<1>4. t = Append(r, b)
  BY <1>2 DEF Resumes
<1>5. Len(t) = Here + 1 /\ t[Here + 1] = b /\ \A i \in 1..Here : t[i] = r[i]
  BY <1>3, <1>4, AppendIsFunction
<1> QED BY <1>1, <1>3, <1>5

\* Such a step keeps the invariant when both owe their due.
LEMMA ResumeSignals ==
    ASSUME IInvSignals, IInv', NEW a \in Activation, NEW b, NEW t, t = Resumes(stack, Here, a, b),
           stack' = t, Owes(t, Here), Owes(t, Here + 1), signal' = None, flow' = "run"
    PROVE  IInvSignals'
<1>1. IInv
  BY DEF IInvSignals
<1>2. Len(t) = Here + 1 /\ \A i \in 1..(Here - 1) : t[i] = stack[i]
  BY <1>1, ResumedIs
<1>3. Here \in Nat \ {0} /\ Here - 1 \in Nat /\ Here - 1 <= Here
  BY <1>1, Standing
<1>4. \A k \in 1..(Here - 1) : Owes(t, k)
  BY <1>2, <1>3, OwesStays
<1>5. ASSUME NEW k \in 1..Len(t)
      PROVE  Owes(t, k)
  <2>1. k \in 1..(Here - 1) \/ k = Here \/ k = Here + 1
    BY <1>2, <1>3
  <2>2. CASE k \in 1..(Here - 1)
    BY <1>4, <2>2
  <2>3. CASE k = Here
    BY <2>3
  <2>4. CASE k = Here + 1
    BY <2>4
  <2> QED BY <2>1, <2>2, <2>3, <2>4
<1> QED BY <1>5, EndsWith

\* The on.exit expression starts with the return, if one was for the call, put aside.
LEMMA BeginOnExitSignals == ASSUME IInvSignals, IInv', BeginOnExit PROVE IInvSignals'
<1>1. IInv /\ flow # "run" /\ Top.op = "call" /\ signal' = None /\ flow' = "run"
  BY Owing DEF BeginOnExit, OnExitUnder, Over
<1>2. PICK a : a = [Top EXCEPT !.phase = "on.exit", !.out = flow, !.saved = signal]
  OBVIOUS
<1>3. PICK b : b = Chunk("cleanup", Here, Top.base, 0, FALSE)
  OBVIOUS
<1>4. PICK t : t = Resumes(stack, Here, a, b)
  OBVIOUS
<1>5. stack' = t
  <2>1. stack' = Append([stack EXCEPT ![Here].phase = "on.exit", ![Here].out = flow,
                                      ![Here].saved = signal],
                        Chunk("cleanup", Here, Top.base, 0, FALSE))
    BY DEF BeginOnExit, OnExitUnder
  <2>2. [stack EXCEPT ![Here].phase = "on.exit", ![Here].out = flow, ![Here].saved = signal]
            = [stack EXCEPT ![Here] = [Top EXCEPT !.phase = "on.exit", !.out = flow,
                                                  !.saved = signal]]
    BY <1>1, Standing
  <2> QED BY <1>2, <1>3, <1>4, <2>1, <2>2 DEF Resumes
<1>6. Top \in CallSet /\ flow \in {"ok", "err"} /\ signal \in SignalSet
  BY <1>1, Standing, Kinds, Owing
<1>7. a \in Activation /\ a.op = "call" /\ a.saved = signal /\ a.out = flow /\ a.loopAt = 0
  <2>1. a \in CallSet
    BY <1>2, <1>6 DEF CallSet
  <2>2. a.saved = signal /\ a.out = flow
    BY <1>2, <1>6 DEF CallSet
  <2>3. a.op \in {"call"} /\ a.loopAt \in {0}
    BY <2>1 DEF CallSet
  <2> QED BY <2>1, <2>2, <2>3 DEF Activation
<1>8. t[Here] = a /\ t[Here + 1] = b /\ \A i \in 1..(Here - 1) : t[i] = stack[i]
  BY <1>1, <1>4, <1>7, ResumedIs
<1>9. b.op = "cleanup" /\ b.loopAt = 0
  BY <1>3 DEF Chunk
<1>10. Owes(t, Here + 1)
  BY <1>8, <1>9 DEF Owes, Lent, Aside
<1>11. a.out = "err" => Unhurt(t, Here - 1)
  <2>1. Top.op # "tryCatch"
    BY <1>1
  <2>2. flow = "err" => Unhurt(stack, Here - 1)
    BY <2>1, ErrorPasses
  <2>3. Here - 1 \in Nat
    BY <1>1, Standing
  <2> QED BY <2>2, <2>3, <1>7, <1>8, UnhurtSame
<1>12. a.saved # None => a.saved = Return(Here) /\ a.out = "ok"
  BY <1>1, <1>7, AtCall
<1>13. Owes(t, Here)
  BY <1>7, <1>8, <1>11, <1>12 DEF Owes, Lent, Aside
<1> QED BY <1>1, <1>4, <1>5, <1>7, <1>10, <1>13, ResumeSignals

\* The on.exit expression did not fail, and the call goes on with what it put aside.
LEMMA EndOnExitSignals == ASSUME IInvSignals, IInv', EndOnExit PROVE IInvSignals'
<1>1. /\ IInv /\ flow # "run" /\ Top.op = "cleanup" /\ signal' = stack[Here - 1].saved
      /\ stack' = [Front(stack) EXCEPT ![Here - 1].phase = "left"]
      /\ flow' = IF stack[Here - 1].out = "ok" THEN flow ELSE "err"
  BY Owing DEF EndOnExit, Over
<1>2. PICK n : n = Here - 1
  OBVIOUS
<1>3. PICK s : s = Front(stack)
  OBVIOUS
<1>4. PICK t : t = stack'
  OBVIOUS
<1>5. /\ n \in Nat \ {0} /\ n \in 1..Here /\ stack[n] \in Activation /\ n <= Here
      /\ Lent(stack, n) /\ Aside(stack, n)
      /\ s \in Seq(Activation) /\ Len(s) = n /\ \A i \in 1..n : s[i] = stack[i]
  <2>1. Top.op # "main"
    BY <1>1
  <2>2. n <= Here
    BY <1>1, <1>2, Standing
  <2> QED BY <2>1, <2>2, <1>2, <1>3, OwingBelow
<1>6. /\ Here = n + 1 /\ Top = stack[Here] /\ Here \in Nat \ {0} /\ Link(stack, Here)
      /\ stack \in Seq(Activation) /\ Len(stack) # 0 /\ Links(stack) /\ n \in 1..Len(stack)
  BY <1>1, <1>2, <1>5, Standing
<1>7. stack[n].op = "call"
  BY <1>1, <1>2, <1>6 DEF Link, CleanupLink
<1>8. stack[n] \in CallSet
  BY <1>5, <1>7, Kinds
<1>9. flow = "ok"
  <2>1. flow = "err" => Unhurt(stack, Here)
    BY Owing
  <2>2. ~Unhurt(stack, Here)
    <3>1. Here \in 1..Here /\ (Here + 1)..Here = {} /\ stack[Here].op = "cleanup"
      BY <1>1, <1>6
    <3> QED BY <3>1 DEF Unhurt
  <2> QED BY <1>1, <2>1, <2>2, Owing
<1>10. PICK a : a = [stack[n] EXCEPT !.phase = "left"]
  OBVIOUS
<1>11. /\ a.op = "call" /\ a.saved = stack[n].saved /\ a.out = stack[n].out
       /\ a.loopAt = stack[n].loopAt /\ a.fun = stack[n].fun /\ a.arg = stack[n].arg
  BY <1>7, <1>8, <1>10 DEF CallSet
<1>12. Len(t) = n /\ t[n] = a /\ \A i \in 1..(n - 1) : t[i] = stack[i]
  <2>1. t = [s EXCEPT ![n] = [s[n] EXCEPT !.phase = "left"]]
    BY <1>1, <1>2, <1>3, <1>4, <1>5
  <2>2. s[n] = stack[n] /\ n \in 1..Len(s)
    BY <1>5
  <2> QED BY <2>1, <2>2, <1>5, <1>10
<1>13. Owes(t, n)
  <2>1. t[n].op = stack[n].op
    BY <1>7, <1>11, <1>12
  <2>2. Lent(t, n)
    BY <2>1, <1>5, <1>6, <1>11, <1>12, LentSame
  <2>3. Aside(t, n)
    BY <2>1, <1>5, <1>6, <1>7, <1>11, <1>12, AsideSame
  <2> QED BY <2>2, <2>3 DEF Owes
<1>14. \A k \in 1..Len(t) : Owes(t, k)
  <2>1. n - 1 \in Nat /\ n - 1 <= Here
    BY <1>5, <1>6
  <2>2. \A k \in 1..(n - 1) : Owes(t, k)
    BY <2>1, <1>12, OwesStays
  <2> QED BY <2>2, <1>5, <1>12, <1>13
<1>15. ASSUME signal' # None
       PROVE  flow' = "ok" /\ Arrives(t, n, signal')
  <2>1. signal' = Return(n) /\ stack[n].out = "ok"
    BY <1>1, <1>2, <1>5, <1>7, <1>15 DEF Aside
  <2>2. flow' = "ok"
    BY <2>1, <1>1, <1>2, <1>9
  <2>3. signal'.kind = "return" /\ signal'.home = n
    BY <2>1 DEF Return
  <2>4. NoFinally(t, n, n)
    <3>1. (n + 1)..n = {}
      BY <1>5
    <3> QED BY <3>1 DEF NoFinally
  <2>5. t[n].op = "call"
    BY <1>11, <1>12
  <2>6. Arrives(t, n, signal')
    BY <2>3, <2>4, <2>5 DEF Arrives, Chunks
  <2> QED BY <2>2, <2>6
<1>16. flow' = "err" => Unhurt(t, Len(t))
  <2> SUFFICES ASSUME flow' = "err"
               PROVE  Unhurt(t, n)
    BY <1>12
  <2>1. stack[n].out # "ok" /\ stack[n].out \in {"ok", "err"}
    BY <1>1, <1>2, <1>8, <1>9 DEF CallSet
  <2>2. Unhurt(stack, n - 1)
    BY <2>1, <1>5, <1>7 DEF Aside
  <2>3. PICK m \in Nat : n = m + 1
    <3>1. n - 1 \in Nat /\ n = (n - 1) + 1
      BY <1>5
    <3> QED BY <3>1
  <2>4. Unhurt(stack, m) /\ \A i \in 1..m : t[i] = stack[i]
    <3>1. n - 1 = m
      BY <2>3
    <3> QED BY <3>1, <2>2, <1>12
  <2>5. Unhurt(t, m)
    BY <2>4, UnhurtSame
  <2>6. t[m + 1].op # "cleanup"
    BY <2>3, <1>11, <1>12
  <2> QED BY <2>3, <2>5, <2>6, UnhurtGrows
<1> QED BY <1>4, <1>12, <1>14, <1>15, <1>16, EndsWith

-----------------------------------------------------------------------------
(* tryCatch *)

\* The loop that code below tryCatch is in takes the jump that was for it.
LEMMA TakenSignals ==
    ASSUME IInvSignals, IInv', Top.op = "tryCatch", NEW again \in BOOLEAN,
           stack' = [Front(stack) EXCEPT ![Here - 1].loop = again],
           signal' = None, flow' = "run"
    PROVE  IInvSignals'
<1>1. PICK n : n = Here - 1
  OBVIOUS
<1>2. PICK s : s = Front(stack)
  OBVIOUS
<1>3. PICK t : t = stack'
  OBVIOUS
<1>4. IInv /\ IsChunk(stack[Here - 1])
  BY Owing, TryStands
<1>5. /\ n \in Nat \ {0} /\ n \in 1..Here /\ stack[n] \in Activation
      /\ Lent(stack, n) /\ Aside(stack, n)
      /\ s \in Seq(Activation) /\ Len(s) = n /\ \A i \in 1..n : s[i] = stack[i]
  <2>1. Top.op # "main"
    OBVIOUS
  <2> QED BY <2>1, <1>1, <1>2, OwingBelow
<1>6. /\ Here = n + 1 /\ Here \in Nat \ {0} /\ stack \in Seq(Activation) /\ Len(stack) # 0
      /\ Links(stack) /\ n \in 1..Len(stack)
  BY <1>1, <1>4, <1>5, Standing
<1>7. IsChunk(stack[n]) /\ stack[n].op # "tryCatch" /\ stack[n] \in ChunkSet \cup CallSet
  BY <1>1, <1>4, <1>5, Kinds DEF IsChunk, Chunks
<1>8. PICK a : a = [stack[n] EXCEPT !.loop = again]
  OBVIOUS
<1>9. /\ a.op = stack[n].op /\ a.loopAt = stack[n].loopAt /\ a.fun = stack[n].fun
      /\ a.arg = stack[n].arg
      /\ stack[n].op = "call" => a.saved = stack[n].saved /\ a.out = stack[n].out
  <2>1. CASE stack[n] \in ChunkSet
    BY <2>1, <1>8 DEF ChunkSet, Chunks
  <2>2. CASE stack[n] \in CallSet
    BY <2>2, <1>8 DEF CallSet
  <2> QED BY <1>7, <2>1, <2>2
<1>10. Len(t) = n /\ t[n] = a /\ \A i \in 1..(n - 1) : t[i] = stack[i]
  <2>1. t = [s EXCEPT ![n] = [s[n] EXCEPT !.loop = again]]
    BY <1>1, <1>2, <1>3, <1>5
  <2>2. s[n] = stack[n] /\ n \in 1..Len(s)
    BY <1>5
  <2> QED BY <2>1, <2>2, <1>5, <1>8
<1>11. Owes(t, n)
  <2>1. t[n].op = stack[n].op
    BY <1>9, <1>10
  <2>2. Lent(t, n)
    BY <2>1, <1>5, <1>6, <1>9, <1>10, LentSame
  <2>3. Aside(t, n)
    BY <2>1, <1>5, <1>6, <1>7, <1>9, <1>10, AsideSame
  <2> QED BY <2>2, <2>3 DEF Owes
<1>12. \A k \in 1..Len(t) : Owes(t, k)
  <2>1. n - 1 \in Nat /\ n - 1 <= Here
    BY <1>5, <1>6
  <2>2. \A k \in 1..(n - 1) : Owes(t, k)
    BY <2>1, <1>10, OwesStays
  <2> QED BY <2>2, <1>5, <1>10, <1>11
<1> QED BY <1>3, <1>12, EndsWith

\* What leaves tryCatch: a return for code around it goes on; a jump is taken by the
\* loop it is for, or goes on to it.
LEMMA LazyAnswerSignals ==
    ASSUME IInvSignals, IInv', Top.op = "tryCatch", NEW out \in {"ok", "err"},
           NEW sig \in SignalSet, NEW cs, LazyAnswer(out, sig, cs),
           sig # None => /\ out = "ok" /\ For(stack, Here, sig)
                         /\ NoFinally(stack, sig.home, Here - 1),
           out = "err" => Unhurt(stack, Here - 1)
    PROVE  IInvSignals'
<1>1. IInv /\ Top.op # "main"
  BY Owing
<1>2. PICK n : n = Here - 1
  OBVIOUS
<1>3. /\ n \in Nat \ {0} /\ n \in 1..Here /\ stack[n] \in Activation /\ Lent(stack, n)
      /\ \A i \in 1..n : Front(stack)[i] = stack[i]
  BY <1>1, <1>2, OwingBelow
<1>4. IsChunk(stack[n])
  BY <1>1, <1>2, TryStands
<1>5. sig # None => /\ sig.kind \in {"return", "jump"} /\ sig.home # 0 /\ sig.home \in Nat
                    /\ (Halts(sig) <=> sig.kind = "return")
  BY SigIs
<1>6. sig # None => /\ sig.kind = "return" => Arrives(Front(stack), n, sig)
                    /\ sig.kind = "jump"   => LoopOf(stack, n) = sig.home
  <2>1. ASSUME sig # None, sig.kind = "return"
        PROVE  Arrives(Front(stack), n, sig)
    <3>1. PICK t : t = Front(stack)
      OBVIOUS
    <3>2. IsChunk(stack[Here - 1]) /\ Here - 1 \in 1..Here /\ \A i \in 1..(Here - 1) : t[i] = stack[i]
      BY <1>2, <1>3, <1>4, <3>1
    <3>3. Arrives(t, Here - 1, sig)
      BY <1>1, <2>1, <3>2, ReturnArrives
    <3> QED BY <1>2, <3>1, <3>3
  <2>2. ASSUME sig # None, sig.kind = "jump"
        PROVE  LoopOf(stack, n) = sig.home
    BY <1>2, <2>2 DEF For
  <2> QED BY <2>1, <2>2
<1>7. LoopAt(n) = LoopOf(stack, n)
  BY DEF LoopAt, LoopOf
<1>8. CASE ~Jumps(out, sig)
  <2>1. Answer(out, sig, cs)
    BY <1>8 DEF LazyAnswer
  <2>2. sig # None => out = "ok" /\ sig.kind = "return"
    <3>1. ASSUME sig # None, sig.kind = "jump"
          PROVE  FALSE
      <4>1. LoopAt(n) = sig.home
        BY <3>1, <1>6, <1>7
      <4>2. LoopAt(n) # 0
        BY <4>1, <3>1, <1>5
      <4> QED BY <4>2, <3>1, <1>2, <1>8 DEF Jumps
    <3> QED BY <3>1, <1>5
  <2>3. /\ stack' = Front(stack) /\ signal' = sig
        /\ flow' = IF out = "err" THEN "err" ELSE IF Halts(sig) THEN "ok" ELSE "run"
    BY <2>1 DEF Answer
  <2>4. flow' = "err" => Unhurt(stack, Here - 1)
    BY <2>3
  <2>5. signal' # None => flow' = "ok" /\ Arrives(Front(stack), Here - 1, signal')
    BY <2>2, <2>3, <1>2, <1>5, <1>6
  <2> QED BY <2>3, <2>4, <2>5, <1>1, PopSignals
<1>9. CASE Jumps(out, sig) /\ stack[Here - 1].loop
  <2>1. PICK again \in BOOLEAN : stack' = [Front(stack) EXCEPT ![Here - 1].loop = again]
    BY <1>9 DEF LazyAnswer
  <2>2. signal' = None /\ flow' = "run"
    BY <1>9 DEF LazyAnswer
  <2> QED BY <2>1, <2>2, TakenSignals
<1>10. CASE Jumps(out, sig) /\ ~stack[Here - 1].loop
  <2>1. stack' = Front(stack) /\ signal' = sig /\ flow' = "ok"
    BY <1>10 DEF LazyAnswer
  <2>2. sig # None /\ sig.kind = "jump" /\ ~stack[n].loop
    BY <1>2, <1>10 DEF Jumps
  <2>3. stack[n].loopAt = sig.home /\ sig.home # 0
    BY <2>2, <1>5, <1>6 DEF LoopOf
  <2>4. stack[n].op \in Chunks /\ stack[n].op \notin {"call", "primitive", "tryCatch"}
    <3>1. stack[n].op # "call"
      BY <2>3, <1>3 DEF Lent
    <3> QED BY <3>1, <1>4 DEF IsChunk, Chunks
  <2>5. Front(stack)[n] = stack[n]
    BY <1>3
  <2>6. NoFinally(Front(stack), sig.home, n)
    <3>1. PICK t : t = Front(stack)
      OBVIOUS
    <3>2. NoFinally(stack, sig.home, n) /\ sig.home \in Nat
      BY <2>2, <1>2, <1>5
    <3>3. n \in Nat /\ n <= n /\ \A i \in 1..n : t[i] = stack[i]
      BY <1>3, <3>1
    <3>4. NoFinally(t, sig.home, n)
      BY <3>2, <3>3, NoFinallySame
    <3> QED BY <3>1, <3>4
  <2>7. Arrives(Front(stack), n, sig)
    BY <2>2, <2>3, <2>4, <2>5, <2>6 DEF Arrives
  <2>8. flow' # "err"
    BY <2>1
  <2> QED BY <2>1, <2>7, <2>8, <1>1, <1>2, PopSignals
<1> QED BY <1>8, <1>9, <1>10

\* A signal that comes as far as tryCatch came out of its body.
LEMMA AtTry ==
    ASSUME IInvSignals, Top.op = "tryCatch", signal # None
    PROVE  /\ Top.phase = "body" /\ flow = "ok" /\ For(stack, Here, signal)
           /\ NoFinally(stack, signal.home, Here) /\ NoFinally(stack, signal.home, Here - 1)
<1>1. IInv /\ Arrives(stack, Here, signal) /\ signal \in SignalSet /\ flow = "ok"
  BY Owing
<1>2. /\ Top = stack[Here] /\ Here \in Nat \ {0} /\ Top \in TrySet
      /\ stack \in Seq(Activation) /\ Len(stack) # 0 /\ Links(stack)
  BY <1>1, Standing, TryStands
<1>3. /\ For(stack, Here, signal) /\ NoFinally(stack, signal.home, Here)
      /\ Top.phase # "handler"
  BY <1>1, <1>2 DEF Arrives
<1>4. PICK n : n = Here - 1
  OBVIOUS
<1>5. n \in Nat \ {0} /\ n \in 1..Here /\ IsChunk(stack[n]) /\ stack[n] \in Activation
      /\ Lent(stack, n) /\ n < Here
  <2>1. Top.op # "main"
    OBVIOUS
  <2>2. IsChunk(stack[n])
    BY <1>1, <1>4, TryStands
  <2> QED BY <2>1, <2>2, <1>2, <1>4, OwingBelow
<1>6. signal.kind \in {"return", "jump"} /\ signal.home \in Nat \ {0}
  BY <1>1, SigIs
<1>7. signal.home < Here
  <2>1. CASE signal.kind = "return"
    <3>1. stack[n].fun = signal.home
      BY <2>1, <1>3, <1>4 DEF For
    <3>2. n \in 1..Len(stack) /\ IsCode(stack[n])
      BY <1>2, <1>5, Kinds, Standing, <1>1
    <3>3. stack[n].fun \in 1..n
      BY <3>2, <1>2, WriterIs
    <3> QED BY <3>1, <3>3, <1>2, <1>5
  <2>2. CASE signal.kind = "jump"
    <3>1. LoopOf(stack, n) = signal.home
      BY <2>2, <1>3, <1>4 DEF For
    <3>2. LoopOf(stack, n) \in 0..n
      BY <1>5, LoopAtIs
    <3> QED BY <3>1, <3>2, <1>2, <1>5
  <2> QED BY <1>6, <2>1, <2>2
<1>8. Top.phase # "finally"
  <2>1. Here \in (signal.home + 1)..Here
    BY <1>2, <1>6, <1>7
  <2> QED BY <2>1, <1>2, <1>3 DEF NoFinally
<1>9. Top.phase = "body"
  BY <1>2, <1>3, <1>8 DEF TrySet
<1>10. NoFinally(stack, signal.home, Here - 1)
  <2>1. \A i \in 1..n : stack[i] = stack[i]
    OBVIOUS
  <2>2. n \in Nat /\ Here \in Nat /\ n <= Here /\ signal.home \in Nat
    BY <1>2, <1>5, <1>6
  <2>3. NoFinally(stack, signal.home, n)
    BY <2>1, <2>2, <1>3, NoFinallySame
  <2> QED BY <2>3, <1>4
<1> QED BY <1>1, <1>3, <1>9, <1>10

\* The result of tryCatch is settled: finally starts with the signal put aside, or the
\* result leaves with it.
LEMMA SettleSignals ==
    ASSUME IInvSignals, IInv', Top.op = "tryCatch", NEW out \in {"ok", "err"},
           NEW pending \in SignalSet, NEW sig, sig = None, Settle(out, sig, pending),
           pending # None => /\ out = "ok" /\ For(stack, Here, pending)
                             /\ NoFinally(stack, pending.home, Here - 1),
           out = "err" => Unhurt(stack, Here - 1)
    PROVE  IInvSignals'
<1>1. IInv /\ Top \in TrySet /\ Top = stack[Here] /\ Here \in Nat \ {0}
  BY Owing, TryStands, Standing
<1>2. PICK cs : cs = Cut(calls, Top.base)
  OBVIOUS
<1>3. CASE ~Top.finally
  <2>1. LazyAnswer(out, pending, cs)
    BY <1>2, <1>3 DEF Settle, Put
  <2> QED BY <2>1, LazyAnswerSignals
<1>4. CASE Top.finally
  <2>1. PICK a : a = [Top EXCEPT !.phase = "finally", !.out = out, !.pending = pending]
    OBVIOUS
  <2>2. a \in Activation /\ a.op = "tryCatch" /\ a.phase = "finally" /\ a.out = out
        /\ a.pending = pending
    <3>1. a \in TrySet
      BY <1>1, <2>1 DEF TrySet
    <3>2. a.phase = "finally" /\ a.out = out /\ a.pending = pending /\ a.op = "tryCatch"
      BY <1>1, <2>1 DEF TrySet
    <3> QED BY <3>1, <3>2 DEF Activation
  <2>3. PICK n : n = Here - 1
    OBVIOUS
  <2>4. /\ n \in Nat \ {0} /\ n \in 1..Here /\ IsChunk(stack[n]) /\ stack[n] \in Activation
        /\ Lent(stack, n) /\ Here = n + 1
    <3>1. Top.op # "main"
      OBVIOUS
    <3>2. IsChunk(stack[n])
      BY <1>1, <2>3, TryStands
    <3> QED BY <3>1, <3>2, <1>1, <2>3, OwingBelow
  <2>5. PICK b : b = LazyBody(n, cs)
    OBVIOUS
  <2>6. PICK t : t = Resumes(stack, Here, a, b)
    OBVIOUS
  <2>7. stack' = t /\ signal' = None /\ flow' = "run"
    <3>1. /\ stack' = [stack EXCEPT ![Here].phase = "finally", ![Here].out = out,
                                    ![Here].pending = pending]
                      \o <<LazyBody(Here - 1, cs)>>
          /\ signal' = None /\ flow' = "run"
      BY <1>2, <1>4 DEF Settle
    <3>2. [stack EXCEPT ![Here].phase = "finally", ![Here].out = out, ![Here].pending = pending]
              = [stack EXCEPT ![Here] = [Top EXCEPT !.phase = "finally", !.out = out,
                                                    !.pending = pending]]
      BY <1>1, Standing
    <3>3. PICK r : r = [stack EXCEPT ![Here] = a]
      OBVIOUS
    <3>4. stack' = r \o <<b>>
      BY <2>1, <2>3, <2>5, <3>1, <3>2, <3>3
    <3>5. r \in Seq(Activation)
      BY <1>1, <2>2, <3>3, Standing
    <3>6. b \in Activation
      <4>1. cs \in ContextSeq /\ n \in 0..MaxStack
        BY <1>1, <1>2, <2>4, TryStands, Standing, SignalsAssumption
      <4> QED BY <4>1, <2>4, <2>5, LazyBodyIs
    <3>7. Append(r, b) = r \o <<b>>
      BY <3>5, <3>6, AppendIsConcat
    <3> QED BY <2>6, <3>1, <3>3, <3>4, <3>7 DEF Resumes
  <2>8. t[Here] = a /\ t[Here + 1] = b /\ \A i \in 1..(Here - 1) : t[i] = stack[i]
    BY <1>1, <2>2, <2>6, ResumedIs
  <2>9. t[n] = stack[n] /\ t[n + 1] = a /\ t[n + 2] = LazyBody(n, cs) /\ Here + 1 = n + 2
    BY <2>4, <2>5, <2>8
  <2>10. Owes(t, Here + 1)
    <3>1. t[n + 1].op = "tryCatch"
      BY <2>2, <2>9
    <3>2. Lent(t, n + 2) /\ Aside(t, n + 2)
      BY <3>1, <2>4, <2>9, LazyLent
    <3> QED BY <3>2, <2>9 DEF Owes
  <2>11. a.out = "err" => Unhurt(t, Here - 1)
    <3>1. Here - 1 \in Nat
      BY <2>3, <2>4
    <3> QED BY <3>1, <2>2, <2>8, UnhurtSame
  <2>12. a.pending # None => /\ For(t, Here, a.pending)
                             /\ NoFinally(t, a.pending.home, Here - 1)
                             /\ a.out = "ok" /\ a.phase # "handler"
    <3> SUFFICES ASSUME pending # None
                 PROVE  /\ For(t, Here, pending) /\ NoFinally(t, pending.home, Here - 1)
                        /\ out = "ok"
      BY <2>2
    <3>1. LoopOf(t, Here - 1) = LoopOf(stack, Here - 1) /\ t[Here - 1] = stack[Here - 1]
      BY <2>3, <2>9 DEF LoopOf
    <3>2. For(t, Here, pending)
      BY <3>1 DEF For
    <3>3. Here - 1 \in Nat /\ Here - 1 <= Here - 1 /\ pending.home \in Nat
      BY <2>3, <2>4, SigIs
    <3>4. NoFinally(t, pending.home, Here - 1)
      BY <3>3, <2>8, NoFinallySame
    <3> QED BY <3>2, <3>4
  <2>13. Aside(t, Here)
    BY <2>2, <2>8, <2>11, <2>12 DEF Aside
  <2>14. Lent(t, Here)
    BY <2>2, <2>8 DEF Lent
  <2>15. Owes(t, Here)
    BY <2>13, <2>14 DEF Owes
  <2> QED BY <1>1, <2>2, <2>6, <2>7, <2>10, <2>15, ResumeSignals
<1> QED BY <1>3, <1>4

\* The body of tryCatch is over.
LEMMA EndTryBodySignals == ASSUME IInvSignals, IInv', EndTryBody PROVE IInvSignals'
<1>1. /\ IInv /\ flow # "run" /\ Top.op = "tryCatch" /\ Top.phase = "body"
      /\ flow \in {"ok", "err"} /\ signal \in SignalSet
      /\ flow # "ok" => signal = None
  BY Owing DEF EndTryBody, In
<1>2. CASE flow = "err" /\ Top.catches
  <2>1. Top \in TrySet /\ signal = None
    BY <1>1, <1>2, TryStands
  <2>2. PICK a : a = [Top EXCEPT !.phase = "handler", !.pending = signal]
    OBVIOUS
  <2>3. a \in Activation /\ a.op = "tryCatch" /\ a.pending = None /\ a.out = Top.out
    <3>1. a \in TrySet
      BY <1>1, <2>1, <2>2 DEF TrySet
    <3>2. a.pending = None /\ a.op = "tryCatch" /\ a.out = Top.out
      BY <2>1, <2>2 DEF TrySet
    <3> QED BY <3>1, <3>2 DEF Activation
  <2>4. PICK b : b = ClosureCall(Here + 1, Top.base + 1, None, FALSE)
    OBVIOUS
  <2>5. PICK t : t = Resumes(stack, Here, a, b)
    OBVIOUS
  <2>6. stack' = t /\ signal' = None /\ flow' = "run"
    <3>1. /\ stack' = Append([stack EXCEPT ![Here].phase = "handler",
                                           ![Here].pending = signal],
                             ClosureCall(Here + 1, Top.base + 1, None, FALSE))
          /\ signal' = None /\ flow' = "run"
      BY <1>2 DEF EndTryBody
    <3>2. [stack EXCEPT ![Here].phase = "handler", ![Here].pending = signal]
              = [stack EXCEPT ![Here] = [Top EXCEPT !.phase = "handler", !.pending = signal]]
      BY <1>1, Standing
    <3> QED BY <2>2, <2>4, <2>5, <3>1, <3>2 DEF Resumes
  <2>7. t[Here] = a /\ t[Here + 1] = b /\ \A i \in 1..(Here - 1) : t[i] = stack[i]
    BY <1>1, <2>3, <2>5, ResumedIs
  <2>8. t[Here + 1] = ClosureCall(Here + 1, Top.base + 1, None, FALSE)
    BY <2>4, <2>7
  <2>9. Owes(t, Here + 1)
    BY <2>8, NewCallOwes
  <2>10. a.out = "err" => Unhurt(t, Here - 1)
    <3>1. Aside(stack, Here) /\ Top = stack[Here] /\ Here - 1 \in Nat
      BY <1>1, Owing, Standing
    <3>2. a.out = "err" => Unhurt(stack, Here - 1)
      BY <3>1, <1>1, <2>3 DEF Aside
    <3> QED BY <3>1, <3>2, <2>7, UnhurtSame
  <2>11. Owes(t, Here)
    BY <2>3, <2>7, <2>10 DEF Owes, Lent, Aside
  <2> QED BY <1>1, <2>3, <2>5, <2>6, <2>9, <2>11, ResumeSignals
<1>3. CASE ~(flow = "err" /\ Top.catches)
  <2>1. PICK sig : sig = None
    OBVIOUS
  <2>2. Settle(flow, sig, signal)
    BY <1>3, <2>1 DEF EndTryBody
  <2>3. flow = "err" => Unhurt(stack, Here - 1)
    BY <1>3, ErrorPasses
  <2>4. signal # None => /\ flow = "ok" /\ For(stack, Here, signal)
                         /\ NoFinally(stack, signal.home, Here - 1)
    BY <1>1, AtTry
  <2> QED BY <1>1, <2>1, <2>2, <2>3, <2>4, SettleSignals
<1> QED BY <1>2, <1>3

\* The handler of tryCatch is over; nothing was put aside for it.
LEMMA EndTryHandlerSignals == ASSUME IInvSignals, IInv', EndTryHandler PROVE IInvSignals'
<1>1. /\ IInv /\ flow # "run" /\ Top.op = "tryCatch" /\ Top.phase = "handler"
      /\ flow \in {"ok", "err"} /\ Aside(stack, Here) /\ Top = stack[Here]
      /\ Settle(flow, signal, Top.pending)
  BY Owing, Standing DEF EndTryHandler, In
<1>2. signal = None
  BY <1>1, AtTry
<1>3. Top.pending = None
  BY <1>1 DEF Aside
<1>4. PICK pending : pending = Top.pending
  OBVIOUS
<1>5. pending \in SignalSet /\ pending = None /\ Settle(flow, signal, pending)
  BY <1>1, <1>3, <1>4 DEF SignalSet
<1>6. flow = "err" => Unhurt(stack, Here - 1)
  BY <1>1, ErrorPasses
<1> QED BY <1>1, <1>2, <1>5, <1>6, SettleSignals

\* The finally expression is over; what was put aside goes on, unless it failed.
LEMMA EndFinallySignals == ASSUME IInvSignals, IInv', EndFinally PROVE IInvSignals'
<1>1. /\ IInv /\ flow # "run" /\ Top.op = "tryCatch" /\ Top.phase = "finally"
      /\ flow \in {"ok", "err"} /\ Aside(stack, Here) /\ Top = stack[Here] /\ Top \in TrySet
  BY Owing, Standing, TryStands DEF EndFinally, In
<1>2. signal = None
  BY <1>1, AtTry
<1>3. PICK out : out = IF flow = "err" THEN "err" ELSE Top.out
  OBVIOUS
<1>4. PICK sig : sig = IF flow = "err" THEN signal ELSE Put(signal, Top.pending)
  OBVIOUS
<1>5. LazyAnswer(out, sig, calls)
  BY <1>3, <1>4 DEF EndFinally
<1>6. sig = IF flow = "err" THEN None ELSE Top.pending
  BY <1>2, <1>4 DEF Put
<1>7. out \in {"ok", "err"} /\ sig \in SignalSet
  <2>1. Top.out \in {"ok", "err"} /\ Top.pending \in SignalSet /\ None \in SignalSet
    BY <1>1 DEF TrySet, SignalSet
  <2> QED BY <2>1, <1>3, <1>6
<1>8. out = "err" => Unhurt(stack, Here - 1)
  <2>1. flow = "err" => Unhurt(stack, Here - 1)
    BY <1>1, ErrorPasses
  <2>2. Top.out = "err" => Unhurt(stack, Here - 1)
    BY <1>1 DEF Aside
  <2> QED BY <2>1, <2>2, <1>3
<1>9. ASSUME sig # None
      PROVE  out = "ok" /\ For(stack, Here, sig) /\ NoFinally(stack, sig.home, Here - 1)
  <2>1. flow # "err" /\ sig = Top.pending /\ out = Top.out
    BY <1>3, <1>6, <1>9
  <2> QED BY <2>1, <1>1, <1>9 DEF Aside
<1> QED BY <1>1, <1>5, <1>7, <1>8, <1>9, LazyAnswerSignals

-----------------------------------------------------------------------------
(* The theorems *)

\* At the start nothing is under way.
LEMMA InitSignals == Init => IInvSignals
<1> SUFFICES ASSUME Init
             PROVE  IInvSignals
  OBVIOUS
<1>1. IInv
  BY InitInv
<1>2. signal = None /\ flow = "run" /\ stack = <<Chunk("main", 1, 0, 0, FALSE)>>
  BY DEF Init
<1>3. Here = 1 /\ stack[1].op = "main" /\ stack[1].loopAt = 0
  BY <1>2 DEF Here, Chunk
<1>4. Owes(stack, 1)
  BY <1>3 DEF Owes, Lent, Aside
<1>5. \A k \in 1..Here : Owes(stack, k)
  BY <1>3, <1>4
<1> QED BY <1>1, <1>2, <1>5 DEF IInvSignals

\* Every step keeps the invariant, when the program is of the kind considered here.
LEMMA NextSignals ==
    ASSUME ~ArgReturns, ~AbruptCleanups, IInvSignals, [Next]_vars
    PROVE  IInvSignals'
<1>1. IInv'
  BY NextInv DEF IInvSignals
<1>2. CASE UNCHANGED vars
  <2>1. UNCHANGED <<stack, flow, signal>>
    BY <1>2 DEF vars
  <2> QED BY <1>1, <2>1, QuietSignals
<1>3. CASE Program
  <2>1. CASE OpenCall
    <3>1. UNCHANGED <<stack, flow, signal>>
      BY <2>1 DEF OpenCall
    <3> QED BY <1>1, <3>1, QuietSignals
  <2>2. CASE ForceArgument
    BY <2>2, <1>1, ForceArgumentSignals
  <2>3. CASE Loop
    BY <2>3, <1>1, LoopSignals
  <2>4. CASE DoReturn
    BY <2>4, <1>1, DoReturnSignals
  <2>5. CASE LoopSignal
    BY <2>5, <1>1, LoopSignalSignals
  <2>6. CASE End
    BY <2>6, <1>1, EndSignals
  <2>7. CASE Fail
    BY <2>7, <1>1, FailSignals
  <2>8. CASE \E args, exit \in BOOLEAN : Call(args, exit)
    BY <2>8, <1>1, CallSignals
  <2>9. CASE \E back \in BOOLEAN : CallPrimitive(back)
    BY <2>9, <1>1, CallPrimitiveSignals
  <2>10. CASE \E catches, finally \in BOOLEAN : TryCatch(catches, finally)
    BY <2>10, <1>1, TryCatchSignals
  <2> QED BY <1>3, <2>1, <2>2, <2>3, <2>4, <2>5, <2>6, <2>7, <2>8, <2>9, <2>10 DEF Program
<1>4. CASE Machine
  <2>1. CASE LeavePromise
    BY <2>1, <1>1, LeavePromiseSignals
  <2>2. CASE CallBack
    BY <2>2, <1>1, CallBackSignals
  <2>3. CASE LeavePrimitive
    BY <2>3, <1>1, LeavePrimitiveSignals
  <2>4. CASE LeaveBody
    BY <2>4, <1>1, LeaveBodySignals
  <2>5. CASE BeginOnExit
    BY <2>5, <1>1, BeginOnExitSignals
  <2>6. CASE EndOnExit
    BY <2>6, <1>1, EndOnExitSignals
  <2>7. CASE LeaveAfterOnExit
    BY <2>7, <1>1, LeaveAfterOnExitSignals
  <2>8. CASE EndTryBody
    BY <2>8, <1>1, EndTryBodySignals
  <2>9. CASE EndTryHandler
    BY <2>9, <1>1, EndTryHandlerSignals
  <2>10. CASE EndFinally
    BY <2>10, <1>1, EndFinallySignals
  <2> QED BY <1>4, <2>1, <2>2, <2>3, <2>4, <2>5, <2>6, <2>7, <2>8, <2>9, <2>10 DEF Machine
<1> QED BY <1>2, <1>3, <1>4 DEF Next

\* What ReturnEndsItsWriter says of one step.
ReturnStep ==
    /\ flow = "run" => signal = None
    /\ flow = "ok" /\ Halts(signal) /\ IsChunk(Top) => Top.fun = signal.home
    /\ Halts(signal) /\ Top.op = "call" /\ Len(stack') = Here - 1 /\ signal' = None
           => signal.home = Here

\* It holds wherever the invariant does.
LEMMA ReturnKept == ASSUME IInvSignals PROVE ReturnStep
<1>1. /\ IInv /\ signal \in SignalSet
      /\ signal # None => Arrives(stack, Here, signal) /\ flow = "ok"
  BY Owing
<1>2. flow = "run" => signal = None
  BY <1>1
<1>3. ASSUME flow = "ok", Halts(signal), IsChunk(Top)
      PROVE  Top.fun = signal.home
  <2>1. signal # None /\ signal.kind = "return" /\ Arrives(stack, Here, signal)
    BY <1>1, <1>3 DEF Halts
  <2>2. /\ Top = stack[Here] /\ Here \in 1..Len(stack) /\ stack \in Seq(Activation)
        /\ Len(stack) # 0 /\ Links(stack) /\ IsCode(Top)
    BY <1>1, <1>3, Standing, Kinds
  <2>3. CASE Top.op \in Chunks
    BY <2>1, <2>2, <2>3 DEF Arrives
  <2>4. CASE Top.op = "call"
    <3>1. Top.fun = Here
      BY <2>2, <2>4, WriterIs
    <3> QED BY <2>1, <2>2, <2>4, <3>1 DEF Arrives
  <2> QED BY <1>3, <2>3, <2>4 DEF IsChunk
<1>4. ASSUME Halts(signal), Top.op = "call"
      PROVE  signal.home = Here
  <2>1. signal # None
    BY <1>4 DEF Halts
  <2> QED BY <2>1, <1>4, AtCall DEF Return
<1> QED BY <1>2, <1>3, <1>4 DEF ReturnStep

\* A return() ends the function whose code it is written in, through every promise,
\* builtin and cleanup between: no code runs while it is on its way, it halts only
\* code of its own function, and the call that takes it is that function's. Proved
\* for programs whose arguments do not return (force_value has no home for such a
\* signal) and whose cleanups do not leave abruptly.
THEOREM ReturnsEndTheirWriter ==
    ASSUME ~ArgReturns, ~AbruptCleanups
    PROVE  Spec => ReturnEndsItsWriter
<1>1. Init => IInvSignals
  BY InitSignals
<1>2. IInvSignals /\ [Next]_vars => IInvSignals'
  BY NextSignals
<1>3. IInvSignals => ReturnStep
  BY ReturnKept
<1>4. Spec => [][ReturnStep]_vars
  BY <1>1, <1>2, <1>3, PTL DEF Spec
<1> QED BY <1>4 DEF ReturnEndsItsWriter, ReturnStep

\* What JumpReachesItsLoop says of one step.
JumpStep ==
    signal # None /\ ~Halts(signal) /\ signal' = None /\ Len(stack') < Here
        => signal.home = Len(stack')

\* A jump leaves tryCatch for the loop that it is for.
LEMMA JumpAnswered ==
    ASSUME IInvSignals, Top.op = "tryCatch", signal # None, ~Halts(signal), signal' = None,
           NEW cs, LazyAnswer("ok", signal, cs)
    PROVE  Len(stack') < Here => signal.home = Len(stack')
<1>1. For(stack, Here, signal) /\ signal \in SignalSet
  BY AtTry, Owing
<1>2. signal.kind = "jump" /\ signal.home # 0
  BY <1>1, SigIs
<1>3. PICK n : n = Here - 1
  OBVIOUS
<1>4. LoopOf(stack, n) = signal.home
  BY <1>1, <1>2, <1>3 DEF For
<1>5. LoopAt(n) # 0
  <2>1. LoopAt(n) = LoopOf(stack, n)
    BY DEF LoopAt, LoopOf
  <2> QED BY <2>1, <1>2, <1>4
<1>6. Jumps("ok", signal)
  BY <1>2, <1>3, <1>5 DEF Jumps
<1>7. stack[n].loop
  BY <1>3, <1>6 DEF LazyAnswer
<1>8. signal.home = n
  BY <1>4, <1>7 DEF LoopOf
<1>9. PICK again \in BOOLEAN : stack' = [Front(stack) EXCEPT ![n].loop = again]
  BY <1>3, <1>6, <1>7 DEF LazyAnswer
<1>10. Len(stack') = n
  <2>1. Top.op # "main"
    OBVIOUS
  <2>2. PICK s : s = Front(stack)
    OBVIOUS
  <2>3. s \in Seq(Activation) /\ Len(s) = n /\ n \in 1..n
    BY <2>1, <2>2, <1>3, OwingBelow
  <2>4. stack' = [s EXCEPT ![n] = [s[n] EXCEPT !.loop = again]]
    BY <1>9, <2>2
  <2> QED BY <2>3, <2>4
<1> QED BY <1>8, <1>10

\* Every step from where the invariant holds is one that JumpReachesItsLoop allows.
LEMMA JumpKept == ASSUME IInvSignals, Next PROVE JumpStep
<1> SUFFICES ASSUME signal # None, ~Halts(signal), signal' = None, Len(stack') < Here
             PROVE  signal.home = Len(stack')
  BY DEF JumpStep
<1>1. /\ IInv /\ signal \in SignalSet /\ Arrives(stack, Here, signal) /\ flow = "ok"
      /\ Lent(stack, Here) /\ Top = stack[Here]
  BY Owing, Standing
<1>2. signal.kind = "jump" /\ signal.home # 0
  BY <1>1, SigIs
<1>3. Top.op \notin {"primitive", "call", "cleanup"}
  <2>1. Top.op \notin {"primitive", "call"}
    BY <1>1, <1>2 DEF Arrives
  <2>2. Top.op # "cleanup"
    <3>1. Top.op = "cleanup" => Top.loopAt = 0 /\ Top.loopAt = signal.home
      BY <1>1, <1>2 DEF Arrives, Lent, Chunks
    <3> QED BY <3>1, <1>2
  <2> QED BY <2>1, <2>2
<1>4. ~Program
  BY <1>1 DEF Program, OpenCall, ForceArgument, Loop, DoReturn, LoopSignal, End, Fail, Call,
              CallPrimitive, TryCatch, Runs
<1>5. Machine
  BY <1>4 DEF Next
<1>6. ~(LeavePromise \/ CallBack \/ LeavePrimitive \/ LeaveBody \/ BeginOnExit \/ EndOnExit
          \/ LeaveAfterOnExit)
  <2>1. ~LeavePromise
    BY DEF LeavePromise
  <2>2. ~CallBack
    BY <1>3 DEF CallBack
  <2>3. ~LeavePrimitive
    BY <1>3 DEF LeavePrimitive
  <2>4. ~LeaveBody
    BY <1>3 DEF LeaveBody, Over
  <2>5. ~BeginOnExit
    BY <1>3 DEF BeginOnExit, OnExitUnder, Over
  <2>6. ~EndOnExit
    BY <1>3 DEF EndOnExit, Over
  <2>7. ~LeaveAfterOnExit
    BY <1>3 DEF LeaveAfterOnExit
  <2> QED BY <2>1, <2>2, <2>3, <2>4, <2>5, <2>6, <2>7
<1>7. Top.op = "tryCatch" /\ Top.phase = "body" /\ EndTryBody
  <2>1. Top.op = "tryCatch"
    BY <1>5, <1>6 DEF Machine, EndTryBody, EndTryHandler, EndFinally, In
  <2>2. Top.phase = "body"
    BY <2>1, AtTry
  <2> QED BY <2>1, <2>2, <1>5, <1>6 DEF Machine, EndTryHandler, EndFinally, In
<1>8. PICK sig : sig = None
  OBVIOUS
<1>9. Settle("ok", sig, signal)
  BY <1>1, <1>7, <1>8 DEF EndTryBody
<1>10. CASE ~Top.finally
  <2>1. PICK cs : LazyAnswer("ok", signal, cs)
    BY <1>8, <1>9, <1>10 DEF Settle, Put
  <2> QED BY <2>1, <1>7, JumpAnswered
<1>11. CASE Top.finally
  <2>1. PICK a, cs : stack' = [stack EXCEPT ![Here].phase = "finally", ![Here].out = a,
                                           ![Here].pending = signal]
                             \o <<LazyBody(Here - 1, cs)>>
    BY <1>9, <1>11 DEF Settle
  <2>2. PICK r : r = [stack EXCEPT ![Here].phase = "finally", ![Here].out = a,
                                  ![Here].pending = signal]
    OBVIOUS
  <2>3. stack \in Seq(Activation) /\ Here \in Nat /\ Here = Len(stack) /\ Here \in 1..Here
    BY <1>1, Standing
  <2>4. PICK x : x = [stack[Here] EXCEPT !.phase = "finally", !.out = a, !.pending = signal]
    OBVIOUS
  <2>5. r = [stack EXCEPT ![Here] = x]
    BY <2>2, <2>3, <2>4
  <2>6. DOMAIN r = 1..Here /\ \A i \in 1..Here : r[i] \in Activation \cup {x}
    BY <2>3, <2>5, ElementOfSeq
  <2>7. r \in Seq(Activation \cup {x}) /\ Len(r) = Here
    BY <2>3, <2>5, <2>6
  <2>8. Len(stack') = Here + 1
    BY <2>1, <2>2, <2>7
  <2> QED BY <2>3, <2>8
<1> QED BY <1>10, <1>11

\* A break or next acts on the loop around the lazy body it is written in, however many
\* bodies, finally expressions and tryCatch calls it leaves on its way
\* (dispatch_loop_signal), in the same programs.
THEOREM JumpsReachTheirLoop ==
    ASSUME ~ArgReturns, ~AbruptCleanups
    PROVE  Spec => JumpReachesItsLoop
<1>1. Init => IInvSignals
  BY InitSignals
<1>2. IInvSignals /\ [Next]_vars => IInvSignals'
  BY NextSignals
<1>3. IInvSignals /\ [Next]_vars => [JumpStep]_vars
  BY JumpKept
<1>4. Spec => [][JumpStep]_vars
  BY <1>1, <1>2, <1>3, PTL DEF Spec
<1> QED BY <1>4 DEF JumpReachesItsLoop, JumpStep
=============================================================================
