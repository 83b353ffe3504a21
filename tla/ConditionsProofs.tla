------------------------- MODULE ConditionsProofs -------------------------
(***************************************************************************)
(* Proofs about Conditions, for every depth of the stack and every list of *)
(* handlers: the state keeps its type, the host's handler and restart      *)
(* stacks are those of the calls in progress, what the host has recorded   *)
(* describes what unwinds, and an error is taken where its walk ended.     *)
(***************************************************************************)
EXTENDS Conditions, Lemmas

-----------------------------------------------------------------------------
(* The inductive invariant *)

\* The calls that have a handler frame, and a restart, established.
Installs(a) ==
    \/ a.op \in {"withCallingHandlers", "suppressWarnings"}
    \/ a.op = "tryCatch" /\ a.phase = "body"
Offers(a) ==
    \/ a.op = "withRestarts" /\ a.phase = "body"
    \/ a.op = "signal" /\ a.id # None

\* How many frames, and how many restarts, the first k calls have established.
Frames(s, k) == Cardinality({l \in 1..k : Installs(s[l])})
Groups(s, k) == Cardinality({l \in 1..k : Offers(s[l])})

\* A handler of one of the first k calls' signals runs, and frame j is its frame or
\* inside it.
Signalling(a) == a.op = "signal" /\ a.todo > 0
Off(s, k, j) == \E l \in 1..k : Signalling(s[l]) /\ s[l].at <= j /\ j <= Frames(s, l)

\* The frame, and the restart, of the k-th call.
FrameOf(s, hs, k) ==
    Installs(s[k]) =>
        /\ hs[Frames(s, k)].calling = (s[k].op # "tryCatch")
        /\ hs[Frames(s, k)].muffle = (s[k].op = "suppressWarnings")
        /\ s[k].op = "tryCatch" => hs[Frames(s, k)].on = s[k].on
GroupOf(s, rs, k) == Offers(s[k]) => rs[Groups(s, k)] = s[k].id

\* The k-th call's walk stands within the frames it started with, and while a
\* handler runs it remembers which of those inside were disabled.
WalkOf(s, k) ==
    s[k].op = "signal" =>
        /\ s[k].at \in 1..(Frames(s, k) + 1)
        /\ s[k].todo = 0 => s[k].saved = <<>>
        /\ s[k].todo > 0 =>
               /\ s[k].at <= Frames(s, k)
               /\ Len(s[k].saved) = Frames(s, k) + 1 - s[k].at
               /\ \A i \in 1..Len(s[k].saved) :
                      s[k].saved[i] <=> Off(s, k - 1, s[k].at + i - 1)
Stands(s, hs, rs, k) == FrameOf(s, hs, k) /\ GroupOf(s, rs, k) /\ WalkOf(s, k)

\* Only the innermost call may be walking.
Walkers(s, f) ==
    /\ \A k \in 1..Len(s) :
           s[k].op = "signal" => (s[k].todo = 0 <=> k = Len(s) /\ f = Walking)
    /\ f = Walking => s[Len(s)].op = "signal"

DisabledAs(s, hs) == \A j \in 1..Len(hs) : hs[j].disabled <=> Off(s, Len(s), j)

Shape(s, hs, rs) ==
    /\ \A k \in 1..Len(s) : s[k].op = "top" <=> k = 1
    /\ Len(hs) = Frames(s, Len(s)) /\ Len(rs) = Groups(s, Len(s))
    /\ \A k \in 1..Len(s) : Stands(s, hs, rs, k)
    /\ DisabledAs(s, hs)

IInv ==
    /\ TypeOK
    /\ Shape(stack, handlers, restarts)
    /\ Walkers(stack, flow)

-----------------------------------------------------------------------------
(* Counting *)

Count(T, k) == Cardinality({l \in 1..k : l \in T})

\* One number more counts for one if it is in the set.
LEMMA CountStep ==
    ASSUME NEW T, NEW k \in Nat
    PROVE  /\ Count(T, k) \in Nat /\ Count(T, k) <= k
           /\ Count(T, k + 1) = IF k + 1 \in T THEN Count(T, k) + 1 ELSE Count(T, k)
<1>1. PICK A : A = {l \in 1..k : l \in T}
  OBVIOUS
<1>2. PICK B : B = {l \in 1..(k + 1) : l \in T}
  OBVIOUS
<1>3. IsFiniteSet(1..k) /\ Cardinality(1..k) = k
  BY FS_Interval
<1>4. IsFiniteSet(A) /\ Cardinality(A) <= k
  BY <1>1, <1>3, FS_Subset
<1>5. Cardinality(A) \in Nat
  BY <1>4, FS_CardinalityType
<1>6. Cardinality(B) = IF k + 1 \in T THEN Cardinality(A) + 1 ELSE Cardinality(A)
  <2>1. CASE k + 1 \in T
    <3>1. B = A \cup {k + 1} /\ k + 1 \notin A
      BY <1>1, <1>2, <2>1
    <3> QED BY <3>1, <2>1, <1>4, FS_AddElement
  <2>2. CASE k + 1 \notin T
    <3>1. B = A
      BY <1>1, <1>2, <2>2
    <3> QED BY <3>1, <2>2
  <2> QED BY <2>1, <2>2
<1>7. Count(T, k) = Cardinality(A) /\ Count(T, k + 1) = Cardinality(B)
  BY <1>1, <1>2 DEF Count
<1> QED BY <1>4, <1>5, <1>6, <1>7

\* Counting further counts no less, and more when it meets a member.
LEMMA CountGrows ==
    ASSUME NEW T, NEW k \in Nat, NEW n \in Nat, k <= n
    PROVE  /\ Count(T, k) <= Count(T, n)
           /\ k < n /\ n \in T => Count(T, k) < Count(T, n)
<1>1. ASSUME NEW i \in Nat, NEW j \in Nat, i <= j
      PROVE  Count(T, i) <= Count(T, j)
  <2>1. PICK A : A = {l \in 1..i : l \in T}
    OBVIOUS
  <2>2. PICK B : B = {l \in 1..j : l \in T}
    OBVIOUS
  <2>3. IsFiniteSet(B)
    <3>1. IsFiniteSet(1..j) /\ B \in SUBSET (1..j)
      BY <2>2, FS_Interval
    <3> QED BY <3>1, FS_Subset
  <2>4. A \subseteq B
    BY <2>1, <2>2, <1>1
  <2>5. Cardinality(A) <= Cardinality(B)
    BY <2>3, <2>4, FS_Subset
  <2> QED BY <2>1, <2>2, <2>5 DEF Count
<1>2. ASSUME k < n, n \in T
      PROVE  Count(T, k) < Count(T, n)
  <2>1. PICK m \in Nat : n = m + 1 /\ k <= m
    <3>1. n - 1 \in Nat /\ n = (n - 1) + 1 /\ k <= n - 1
      BY <1>2
    <3> QED BY <3>1
  <2>2. Count(T, n) = Count(T, m) + 1 /\ Count(T, m) \in Nat
    BY <1>2, <2>1, CountStep
  <2>3. Count(T, k) <= Count(T, m) /\ Count(T, k) \in Nat
    BY <1>1, <2>1, CountStep
  <2> QED BY <2>2, <2>3
<1> QED BY <1>1, <1>2

\* The member of a set whose count is j.
LEMMA CountReaches ==
    ASSUME NEW T, NEW n \in Nat, NEW j \in 1..Count(T, n)
    PROVE  \E k \in 1..n : k \in T /\ Count(T, k) = j
<1>1. PICK D : D = {k \in Nat : Count(T, k) >= j}
  OBVIOUS
<1>2. D \subseteq Nat /\ n \in D
  <2>1. Count(T, n) \in Nat
    BY CountStep
  <2> QED BY <2>1, <1>1
<1>3. PICK k \in D : \A x \in D : k <= x
  BY <1>2, LeastElement
<1>4. k \in Nat /\ k <= n /\ Count(T, k) >= j
  BY <1>1, <1>2, <1>3
<1>5. k # 0
  <2>1. Count(T, 0) \in Nat /\ Count(T, 0) <= 0
    BY CountStep
  <2>2. PICK c : c = Count(T, 0)
    OBVIOUS
  <2> QED BY <2>1, <1>4
<1>6. PICK m \in Nat : k = m + 1
  <2>1. k - 1 \in Nat /\ k = (k - 1) + 1
    BY <1>4, <1>5
  <2> QED BY <2>1
<1>7. ~(Count(T, m) >= j)
  BY <1>1, <1>3, <1>6
<1>8. /\ Count(T, m) \in Nat
      /\ Count(T, k) = IF k \in T THEN Count(T, m) + 1 ELSE Count(T, m)
  BY <1>6, CountStep
<1>9. k \in T /\ Count(T, k) = j
  BY <1>4, <1>7, <1>8
<1> QED BY <1>9, <1>4, <1>5

Installed(s) == {l \in Nat : Installs(s[l])}
Offered(s)   == {l \in Nat : Offers(s[l])}

\* Frames and restarts are counts.
LEMMA Counted ==
    ASSUME NEW s, NEW k \in Nat
    PROVE  Frames(s, k) = Count(Installed(s), k) /\ Groups(s, k) = Count(Offered(s), k)
<1>1. {l \in 1..k : Installs(s[l])} = {l \in 1..k : l \in Installed(s)}
  BY DEF Installed
<1>2. {l \in 1..k : Offers(s[l])} = {l \in 1..k : l \in Offered(s)}
  BY DEF Offered
<1> QED BY <1>1, <1>2 DEF Frames, Groups, Count

\* One call more has a frame more if it installs one, a restart more if it offers one.
LEMMA FrameStep ==
    ASSUME NEW s, NEW k \in Nat
    PROVE  /\ Frames(s, k) \in Nat /\ Frames(s, k) <= k
           /\ Groups(s, k) \in Nat /\ Groups(s, k) <= k
           /\ Installs(s[k + 1]) => Frames(s, k + 1) = Frames(s, k) + 1
           /\ ~Installs(s[k + 1]) => Frames(s, k + 1) = Frames(s, k)
           /\ Offers(s[k + 1]) => Groups(s, k + 1) = Groups(s, k) + 1
           /\ ~Offers(s[k + 1]) => Groups(s, k + 1) = Groups(s, k)
<1>1. /\ Frames(s, k) = Count(Installed(s), k) /\ Groups(s, k) = Count(Offered(s), k)
      /\ Frames(s, k + 1) = Count(Installed(s), k + 1)
      /\ Groups(s, k + 1) = Count(Offered(s), k + 1)
  BY Counted
<1>2. /\ k + 1 \in Installed(s) <=> Installs(s[k + 1])
      /\ k + 1 \in Offered(s) <=> Offers(s[k + 1])
  BY DEF Installed, Offered
<1>3. /\ Count(Installed(s), k) \in Nat /\ Count(Installed(s), k) <= k
      /\ Count(Installed(s), k + 1) = IF k + 1 \in Installed(s)
                                     THEN Count(Installed(s), k) + 1
                                     ELSE Count(Installed(s), k)
  BY CountStep
<1>4. /\ Count(Offered(s), k) \in Nat /\ Count(Offered(s), k) <= k
      /\ Count(Offered(s), k + 1) = IF k + 1 \in Offered(s)
                                   THEN Count(Offered(s), k) + 1
                                   ELSE Count(Offered(s), k)
  BY CountStep
<1> QED BY <1>1, <1>2, <1>3, <1>4

\* Further calls have no fewer frames and restarts, and those of a call are its own.
LEMMA FramesGrow ==
    ASSUME NEW s, NEW k \in Nat, NEW n \in Nat, k <= n
    PROVE  /\ Frames(s, k) <= Frames(s, n) /\ Groups(s, k) <= Groups(s, n)
           /\ k < n /\ Installs(s[n]) => Frames(s, k) < Frames(s, n)
           /\ k < n /\ Offers(s[n]) => Groups(s, k) < Groups(s, n)
<1>1. /\ Frames(s, k) = Count(Installed(s), k) /\ Groups(s, k) = Count(Offered(s), k)
      /\ Frames(s, n) = Count(Installed(s), n) /\ Groups(s, n) = Count(Offered(s), n)
  BY Counted
<1>2. /\ n \in Installed(s) <=> Installs(s[n])
      /\ n \in Offered(s) <=> Offers(s[n])
  BY DEF Installed, Offered
<1>3. /\ Count(Installed(s), k) <= Count(Installed(s), n)
      /\ k < n /\ n \in Installed(s) => Count(Installed(s), k) < Count(Installed(s), n)
  BY CountGrows
<1>4. /\ Count(Offered(s), k) <= Count(Offered(s), n)
      /\ k < n /\ n \in Offered(s) => Count(Offered(s), k) < Count(Offered(s), n)
  BY CountGrows
<1> QED BY <1>1, <1>2, <1>3, <1>4

\* The first n calls decide how many frames and restarts they have.
LEMMA FramesSame ==
    ASSUME NEW s, NEW t, NEW n \in Nat, \A l \in 1..n : s[l] = t[l], NEW k \in 0..n
    PROVE  Frames(s, k) = Frames(t, k) /\ Groups(s, k) = Groups(t, k)
<1>1. \A l \in 1..k : s[l] = t[l]
  OBVIOUS
<1>2. {l \in 1..k : Installs(s[l])} = {l \in 1..k : Installs(t[l])}
  BY <1>1
<1>3. {l \in 1..k : Offers(s[l])} = {l \in 1..k : Offers(t[l])}
  BY <1>1
<1> QED BY <1>2, <1>3 DEF Frames, Groups

\* Each frame is that of a call, and each restart.
LEMMA FrameIsOf ==
    ASSUME NEW s, NEW n \in Nat
    PROVE  /\ \A j \in 1..Frames(s, n) : \E k \in 1..n : Installs(s[k]) /\ Frames(s, k) = j
           /\ \A j \in 1..Groups(s, n) : \E k \in 1..n : Offers(s[k]) /\ Groups(s, k) = j
<1>1. ASSUME NEW j \in 1..Frames(s, n)
      PROVE  \E k \in 1..n : Installs(s[k]) /\ Frames(s, k) = j
  <2>1. j \in 1..Count(Installed(s), n)
    BY Counted
  <2>2. PICK k \in 1..n : k \in Installed(s) /\ Count(Installed(s), k) = j
    BY <2>1, CountReaches
  <2>3. k \in Nat
    OBVIOUS
  <2> QED BY <2>2, <2>3, Counted DEF Installed
<1>2. ASSUME NEW j \in 1..Groups(s, n)
      PROVE  \E k \in 1..n : Offers(s[k]) /\ Groups(s, k) = j
  <2>1. j \in 1..Count(Offered(s), n)
    BY Counted
  <2>2. PICK k \in 1..n : k \in Offered(s) /\ Count(Offered(s), k) = j
    BY <2>1, CountReaches
  <2>3. k \in Nat
    OBVIOUS
  <2> QED BY <2>2, <2>3, Counted DEF Offered
<1> QED BY <1>1, <1>2

-----------------------------------------------------------------------------
(* Calls in progress *)

TopSet     == [op : {"top"}, phase : {"body"}, program : Programs]
PlainSet   == [op : {"withCallingHandlers", "suppressWarnings", "try"}, phase : {"body"}]
TrySet     == [op : {"tryCatch"}, phase : {"body", "handler", "finally"},
               on : HandlerLists, cleanup : BOOLEAN, out : Outcomes]
CallSet    == [op : {"call"}, phase : {"body", "on.exit"}, cleanup : BOOLEAN, out : Outcomes]
RestartSet == [op : {"withRestarts"}, phase : {"body", "handler"}, id : Ids]
SignalSet  == [op : {"signal"}, phase : {"body"}, by : {s[1] : s \in Signals},
               cond : Conds, at : 1..MaxStack + 1, todo : Nat,
               saved : Seq(BOOLEAN), id : Ids \cup {None}]

\* A call is of the kind its op names.
LEMMA Kinds ==
    ASSUME NEW a \in Calls
    PROVE  /\ a.op = "top" => a \in TopSet
           /\ a.op \in {"withCallingHandlers", "suppressWarnings", "try"} => a \in PlainSet
           /\ a.op = "tryCatch" => a \in TrySet
           /\ a.op = "call" => a \in CallSet
           /\ a.op = "withRestarts" => a \in RestartSet
           /\ a.op = "signal" => a \in SignalSet
           /\ a.op \in {"top", "withCallingHandlers", "suppressWarnings", "try", "tryCatch",
                        "call", "withRestarts", "signal"}
<1>1. a \in TopSet \cup PlainSet \cup TrySet \cup CallSet \cup RestartSet \cup SignalSet
  BY DEF Calls, TopSet, PlainSet, TrySet, CallSet, RestartSet, SignalSet
<1>2. a \in TopSet => a.op = "top"
  BY DEF TopSet
<1>3. a \in PlainSet => a.op \in {"withCallingHandlers", "suppressWarnings", "try"}
  BY DEF PlainSet
<1>4. a \in TrySet => a.op = "tryCatch"
  BY DEF TrySet
<1>5. a \in CallSet => a.op = "call"
  BY DEF CallSet
<1>6. a \in RestartSet => a.op = "withRestarts"
  BY DEF RestartSet
<1>7. a \in SignalSet => a.op = "signal"
  BY DEF SignalSet
<1> QED BY <1>1, <1>2, <1>3, <1>4, <1>5, <1>6, <1>7

\* And every call of a kind is a call.
LEMMA OfKind ==
    /\ TopSet \subseteq Calls /\ PlainSet \subseteq Calls /\ TrySet \subseteq Calls
    /\ CallSet \subseteq Calls /\ RestartSet \subseteq Calls /\ SignalSet \subseteq Calls
BY DEF Calls, TopSet, PlainSet, TrySet, CallSet, RestartSet, SignalSet

\* A restart offered has a number, and a handler that runs is a signal's.
LEMMA Offering ==
    ASSUME NEW a \in Calls
    PROVE  /\ Offers(a) => a.id \in Ids
           /\ Signalling(a) => a.op = "signal" /\ ~Installs(a)
           /\ a.op = "signal" => a.todo \in Nat /\ a.at \in Nat /\ (Signalling(a) <=> a.todo # 0)
<1>1. /\ a.op = "withRestarts" => a \in RestartSet
      /\ a.op = "signal" => a \in SignalSet
  BY Kinds
<1>2. Offers(a) => a.id \in Ids
  BY <1>1 DEF Offers, RestartSet, SignalSet
<1>3. Signalling(a) => a.op = "signal" /\ ~Installs(a)
  BY DEF Signalling, Installs
<1>4. a.op = "signal" => a.todo \in Nat /\ a.at \in 1..MaxStack + 1
  BY <1>1 DEF SignalSet
<1>5. MaxStack \in Nat
  BY ConditionsAssumption
<1> QED BY <1>2, <1>3, <1>4, <1>5 DEF Signalling

\* A frame is off in one call more if it was, or if that call's handler runs below it.
LEMMA OffStep ==
    ASSUME NEW s, NEW k \in Nat, NEW j
    PROVE  /\ Off(s, k, j) => Off(s, k + 1, j)
           /\ Off(s, k + 1, j) =>
                  \/ Off(s, k, j)
                  \/ Signalling(s[k + 1]) /\ s[k + 1].at <= j /\ j <= Frames(s, k + 1)
           /\ Signalling(s[k + 1]) /\ s[k + 1].at <= j /\ j <= Frames(s, k + 1) =>
                  Off(s, k + 1, j)
<1>1. 1..(k + 1) = 1..k \cup {k + 1}
  OBVIOUS
<1>2. Off(s, k + 1, j) <=>
          \E l \in 1..k \cup {k + 1} : Signalling(s[l]) /\ s[l].at <= j /\ j <= Frames(s, l)
  BY <1>1 DEF Off
<1>3. Off(s, k, j) <=>
          \E l \in 1..k : Signalling(s[l]) /\ s[l].at <= j /\ j <= Frames(s, l)
  BY DEF Off
<1> QED BY <1>2, <1>3

\* What is off in the first k calls is off in more of them, and is one of their frames.
LEMMA OffWithin ==
    ASSUME NEW s, NEW k \in Nat, NEW n \in Nat, k <= n, NEW j \in Nat, Off(s, k, j)
    PROVE  Off(s, n, j) /\ j <= Frames(s, k)
<1>1. PICK l \in 1..k : Signalling(s[l]) /\ s[l].at <= j /\ j <= Frames(s, l)
  BY DEF Off
<1>2. l \in 1..n
  OBVIOUS
<1>3. Off(s, n, j)
  BY <1>1, <1>2 DEF Off
<1>4. Frames(s, l) <= Frames(s, k) /\ l \in Nat
  BY FramesGrow
<1>5. Frames(s, l) \in Nat /\ Frames(s, k) \in Nat
  BY <1>4, FrameStep
<1> QED BY <1>1, <1>3, <1>4, <1>5

\* The first n calls decide what is off in them.
LEMMA OffSame ==
    ASSUME NEW s, NEW t, NEW n \in Nat, \A l \in 1..n : s[l] = t[l], NEW k \in 0..n, NEW j
    PROVE  Off(s, k, j) <=> Off(t, k, j)
<1>1. \A l \in 1..k : s[l] = t[l] /\ Frames(s, l) = Frames(t, l)
  <2>1. ASSUME NEW l \in 1..k PROVE s[l] = t[l] /\ Frames(s, l) = Frames(t, l)
    <3>1. l \in 0..n /\ l \in 1..n
      OBVIOUS
    <3> QED BY <3>1, FramesSame
  <2> QED BY <2>1
<1> QED BY <1>1 DEF Off

\* Two handler stacks have the same frame at j, but for its being disabled.
Agree(hs, gs, j) ==
    /\ gs[j].calling = hs[j].calling /\ gs[j].muffle = hs[j].muffle
    /\ gs[j].on = hs[j].on

\* A call stands as it did when what is below it, its frame and its restart do.
LEMMA StandsSame ==
    ASSUME NEW s, NEW t, NEW m \in Nat, \A l \in 1..m : s[l] = t[l],
           NEW hs, NEW gs, \A j \in 1..Frames(s, m) : Agree(hs, gs, j),
           NEW rs, NEW qs, \A j \in 1..Groups(s, m) : rs[j] = qs[j],
           NEW k \in 1..m, Stands(s, hs, rs, k)
    PROVE  Stands(t, gs, qs, k)
<1>1. s[k] = t[k] /\ k \in Nat /\ k - 1 \in Nat /\ k = (k - 1) + 1 /\ k \in 0..m /\ k - 1 \in 0..m
  OBVIOUS
<1>2. Frames(s, k) = Frames(t, k) /\ Groups(s, k) = Groups(t, k)
  BY <1>1, FramesSame
<1>3. /\ Frames(s, k) <= Frames(s, m) /\ Groups(s, k) <= Groups(s, m)
      /\ Frames(s, k) \in Nat /\ Groups(s, k) \in Nat
      /\ Frames(s, m) \in Nat /\ Groups(s, m) \in Nat
  BY <1>1, FramesGrow, FrameStep
<1>4. FrameOf(t, gs, k)
  <2>1. SUFFICES ASSUME Installs(s[k])
                 PROVE  /\ gs[Frames(s, k)].calling = (s[k].op # "tryCatch")
                        /\ gs[Frames(s, k)].muffle = (s[k].op = "suppressWarnings")
                        /\ s[k].op = "tryCatch" => gs[Frames(s, k)].on = s[k].on
    BY <1>1, <1>2 DEF FrameOf
  <2>2. Frames(s, k) = Frames(s, k - 1) + 1 /\ Frames(s, k - 1) \in Nat
    <3>1. PICK i \in Nat : i = k - 1 /\ k = i + 1
      BY <1>1
    <3>2. Frames(s, i + 1) = Frames(s, i) + 1 /\ Frames(s, i) \in Nat
      BY <2>1, <3>1, FrameStep
    <3> QED BY <3>1, <3>2
  <2>3. Frames(s, k) \in 1..Frames(s, m)
    BY <1>3, <2>2
  <2>4. FrameOf(s, hs, k)
    BY DEF Stands
  <2> QED BY <2>1, <2>3, <2>4 DEF FrameOf, Agree
<1>5. GroupOf(t, qs, k)
  <2>1. SUFFICES ASSUME Offers(s[k]) PROVE qs[Groups(s, k)] = s[k].id
    BY <1>1, <1>2 DEF GroupOf
  <2>2. Groups(s, k) = Groups(s, k - 1) + 1 /\ Groups(s, k - 1) \in Nat
    <3>1. PICK i \in Nat : i = k - 1 /\ k = i + 1
      BY <1>1
    <3>2. Groups(s, i + 1) = Groups(s, i) + 1 /\ Groups(s, i) \in Nat
      BY <2>1, <3>1, FrameStep
    <3> QED BY <3>1, <3>2
  <2>3. Groups(s, k) \in 1..Groups(s, m)
    BY <1>3, <2>2
  <2>4. GroupOf(s, rs, k)
    BY DEF Stands
  <2> QED BY <2>1, <2>3, <2>4 DEF GroupOf
<1>6. WalkOf(t, k)
  <2>1. WalkOf(s, k)
    BY DEF Stands
  <2>2. \A j : Off(s, k - 1, j) <=> Off(t, k - 1, j)
    <3>1. ASSUME NEW j PROVE Off(s, k - 1, j) <=> Off(t, k - 1, j)
      BY <1>1, OffSame
    <3> QED BY <3>1
  <2> QED BY <1>1, <1>2, <2>1, <2>2 DEF WalkOf
<1> QED BY <1>4, <1>5, <1>6 DEF Stands

\* What the invariant says of the stacks as sequences.
LEMMA Standing ==
    ASSUME IInv
    PROVE  /\ stack \in Seq(Calls) /\ Len(stack) \in Nat \ {0} /\ Len(stack) <= MaxStack
           /\ MaxStack \in Nat \ {0}
           /\ Act = stack[Len(stack)] /\ Act \in Calls
           /\ \A k \in 1..Len(stack) : stack[k] \in Calls
           /\ DOMAIN stack = 1..Len(stack)
           /\ handlers \in Seq(HandlerFrame) /\ DOMAIN handlers = 1..Len(handlers)
           /\ Len(handlers) \in Nat /\ Len(handlers) = Frames(stack, Len(stack))
           /\ \A j \in 1..Len(handlers) : handlers[j] \in HandlerFrame
           /\ Len(handlers) <= MaxStack
           /\ restarts \in Seq(Ids) /\ DOMAIN restarts = 1..Len(restarts)
           /\ Len(restarts) \in Nat /\ Len(restarts) = Groups(stack, Len(stack))
           /\ \A j \in 1..Len(restarts) : restarts[j] \in Ids
<1>1. /\ stack \in Seq(Calls) /\ Len(stack) \in 1..MaxStack /\ MaxStack \in Nat \ {0}
      /\ handlers \in Seq(HandlerFrame) /\ restarts \in Seq(Ids)
      /\ Len(handlers) = Frames(stack, Len(stack)) /\ Len(restarts) = Groups(stack, Len(stack))
  BY ConditionsAssumption DEF IInv, TypeOK, Shape
<1>2. Len(stack) \in Nat \ {0} /\ Len(stack) <= MaxStack
  BY <1>1
<1>3. /\ DOMAIN stack = 1..Len(stack) /\ \A k \in 1..Len(stack) : stack[k] \in Calls
      /\ DOMAIN handlers = 1..Len(handlers) /\ Len(handlers) \in Nat
      /\ \A k \in 1..Len(handlers) : handlers[k] \in HandlerFrame
      /\ DOMAIN restarts = 1..Len(restarts) /\ Len(restarts) \in Nat
      /\ \A k \in 1..Len(restarts) : restarts[k] \in Ids
  BY <1>1, ElementOfSeq, LenProperties
<1>4. Act = stack[Len(stack)] /\ Act \in Calls
  BY <1>2, <1>3 DEF Act
<1>5. Frames(stack, Len(stack)) <= Len(stack)
  BY <1>2, FrameStep
<1> QED BY <1>1, <1>2, <1>3, <1>4, <1>5

\* The program is at the bottom, and only there.
LEMMA TopFirst ==
    ASSUME IInv
    PROVE  \A k \in 1..Len(stack) : stack[k].op = "top" <=> k = 1
BY DEF IInv, Shape

\* The invariant carries over to a stack that keeps the first m calls and has at
\* most one more, when that one stands.
LEMMA StepTo ==
    ASSUME IInv, NEW m \in 1..Len(stack), NEW t, t \in Seq(Calls),
           Len(t) = m \/ Len(t) = m + 1, \A l \in 1..m : stack[l] = t[l],
           NEW gs, \A j \in 1..Frames(stack, m) : Agree(handlers, gs, j),
           NEW qs, \A j \in 1..Groups(stack, m) : restarts[j] = qs[j],
           Len(t) = m + 1 => t[m + 1].op # "top" /\ Stands(t, gs, qs, m + 1),
           Len(gs) = Frames(t, Len(t)), Len(qs) = Groups(t, Len(t)),
           DisabledAs(t, gs)
    PROVE  Shape(t, gs, qs)
<1>1. \A k \in 1..m : Stands(t, gs, qs, k) /\ (t[k].op = "top" <=> k = 1)
  <2>1. SUFFICES ASSUME NEW k \in 1..m
                 PROVE  Stands(t, gs, qs, k) /\ (t[k].op = "top" <=> k = 1)
    OBVIOUS
  <2>2. m \in Nat /\ k \in 1..Len(stack)
    OBVIOUS
  <2>3. Stands(stack, handlers, restarts, k)
    BY <2>2 DEF IInv, Shape
  <2> QED BY <2>2, <2>3, TopFirst, StandsSame
<1>2. \A k \in 1..Len(t) : Stands(t, gs, qs, k) /\ (t[k].op = "top" <=> k = 1)
  <2>1. CASE Len(t) = m
    BY <1>1, <2>1
  <2>2. CASE Len(t) = m + 1
    <3>1. 1..Len(t) = 1..m \cup {m + 1} /\ m + 1 # 1
      BY <2>2
    <3> QED BY <1>1, <2>2, <3>1
  <2> QED BY <2>1, <2>2
<1> QED BY <1>2 DEF Shape

\* What a call adds to the handlers, and to the restarts, when it is entered.
AddsFrame(a, gs) ==
    /\ gs \in Seq(HandlerFrame)
    /\ Len(gs) = IF Installs(a) THEN Len(handlers) + 1 ELSE Len(handlers)
    /\ \A j \in 1..Len(handlers) : gs[j] = handlers[j]
    /\ Installs(a) =>
           /\ gs[Len(handlers) + 1].calling = (a.op # "tryCatch")
           /\ gs[Len(handlers) + 1].muffle = (a.op = "suppressWarnings")
           /\ a.op = "tryCatch" => gs[Len(handlers) + 1].on = a.on
           /\ ~gs[Len(handlers) + 1].disabled
AddsRestart(a, qs) ==
    /\ qs \in Seq(Ids)
    /\ Len(qs) = IF Offers(a) THEN Len(restarts) + 1 ELSE Len(restarts)
    /\ \A j \in 1..Len(restarts) : qs[j] = restarts[j]
    /\ Offers(a) => qs[Len(restarts) + 1] = a.id

\* A call is entered.
LEMMA PushTo ==
    ASSUME IInv, NEW a \in Calls, a.op # "top", ~Signalling(a),
           a.op = "signal" =>
               a.at = Len(handlers) + 1 /\ a.todo = 0 /\ a.saved = <<>>,
           NEW t, t = Append(stack, a),
           NEW gs, AddsFrame(a, gs), NEW qs, AddsRestart(a, qs)
    PROVE  t \in Seq(Calls) /\ Len(t) = Len(stack) + 1 /\ t[Len(stack) + 1] = a
           /\ (\A l \in 1..Len(stack) : t[l] = stack[l]) /\ Shape(t, gs, qs)
<1>1. PICK n \in Nat \ {0} : n = Len(stack)
  BY Standing
<1>2. /\ t \in Seq(Calls) /\ Len(t) = n + 1 /\ t[n + 1] = a
      /\ \A l \in 1..n : stack[l] = t[l]
  BY <1>1, Standing, AppendProperties
<1>3. /\ Frames(t, n) = Frames(stack, n) /\ Groups(t, n) = Groups(stack, n)
      /\ Frames(stack, n) \in Nat /\ Groups(stack, n) \in Nat
      /\ Len(handlers) = Frames(stack, n) /\ Len(restarts) = Groups(stack, n)
  <2>1. n \in 0..n
    OBVIOUS
  <2>2. Frames(t, n) = Frames(stack, n) /\ Groups(t, n) = Groups(stack, n)
    BY <1>2, <2>1, FramesSame, ZenonT(60)
  <2> QED BY <1>1, <2>2, Standing, FrameStep
<1>4. Len(gs) = Frames(t, n + 1) /\ Len(qs) = Groups(t, n + 1)
  <2>1. /\ Installs(a) => Frames(t, n + 1) = Frames(t, n) + 1
        /\ ~Installs(a) => Frames(t, n + 1) = Frames(t, n)
        /\ Offers(a) => Groups(t, n + 1) = Groups(t, n) + 1
        /\ ~Offers(a) => Groups(t, n + 1) = Groups(t, n)
    BY <1>2, FrameStep
  <2> QED BY <1>3, <2>1 DEF AddsFrame, AddsRestart
<1>5. Stands(t, gs, qs, n + 1)
  <2>1. Installs(a) => Frames(t, n + 1) = Len(handlers) + 1
    BY <1>4 DEF AddsFrame
  <2>2. Offers(a) => Groups(t, n + 1) = Len(restarts) + 1
    BY <1>4 DEF AddsRestart
  <2>3. FrameOf(t, gs, n + 1)
    BY <1>2, <2>1 DEF FrameOf, AddsFrame
  <2>4. GroupOf(t, qs, n + 1)
    BY <1>2, <2>2 DEF GroupOf, AddsRestart
  <2>5. WalkOf(t, n + 1)
    <3>1. CASE a.op # "signal"
      BY <3>1, <1>2 DEF WalkOf
    <3>2. CASE a.op = "signal"
      <4>1. ~Installs(a) /\ ~(a.todo > 0)
        BY <3>2 DEF Installs
      <4>2. Frames(t, n + 1) = Len(handlers) /\ Len(handlers) \in Nat
        BY <4>1, <1>4, Standing DEF AddsFrame
      <4>3. a.at \in 1..(Frames(t, n + 1) + 1)
        BY <4>2, <3>2
      <4> QED BY <3>2, <4>1, <4>3, <1>2 DEF WalkOf
    <3> QED BY <3>1, <3>2
  <2> QED BY <2>3, <2>4, <2>5 DEF Stands
<1>6. DisabledAs(t, gs)
  <2>1. SUFFICES ASSUME NEW j \in 1..Len(gs)
                 PROVE  gs[j].disabled <=> Off(t, n + 1, j)
    BY <1>2 DEF DisabledAs
  <2>2. Off(t, n + 1, j) <=> Off(t, n, j)
    BY <1>2, OffStep
  <2>3. Off(t, n, j) <=> Off(stack, n, j)
    <3>1. n \in 0..n
      OBVIOUS
    <3> QED BY <1>2, <3>1, OffSame
  <2>4. CASE j \in 1..Len(handlers)
    <3>1. handlers[j].disabled <=> Off(stack, n, j)
      BY <2>4, <1>1 DEF IInv, Shape, DisabledAs
    <3> QED BY <3>1, <2>2, <2>3, <2>4 DEF AddsFrame
  <2>5. CASE j \notin 1..Len(handlers)
    <3>1. Installs(a) /\ j = Len(handlers) + 1 /\ j \in Nat /\ Len(handlers) \in Nat
      <4>1. Len(handlers) \in Nat /\ j \in Nat /\ 1 <= j /\ j <= Len(gs)
        BY <1>3, <1>4, <2>1, FrameStep
      <4> QED BY <4>1, <2>5 DEF AddsFrame
    <3>2. ~Off(stack, n, j)
      <4>1. SUFFICES ASSUME Off(stack, n, j) PROVE FALSE
        OBVIOUS
      <4>2. j <= Frames(stack, n)
        <5>1. n <= n
          OBVIOUS
        <5> QED BY <5>1, <4>1, <3>1, OffWithin
      <4> QED BY <4>2, <3>1, <1>3
    <3> QED BY <3>1, <3>2, <2>2, <2>3 DEF AddsFrame
  <2> QED BY <2>4, <2>5
<1>7. Shape(t, gs, qs)
  <2>1. n \in 1..Len(stack) /\ Len(t) = n + 1
    BY <1>1, <1>2
  <2>2. \A j \in 1..Frames(stack, n) : Agree(handlers, gs, j)
    BY <1>3 DEF AddsFrame, Agree
  <2>3. \A j \in 1..Groups(stack, n) : restarts[j] = qs[j]
    BY <1>3 DEF AddsRestart
  <2>4. t[n + 1].op # "top" /\ Stands(t, gs, qs, n + 1)
    BY <1>2, <1>5
  <2>5. Len(gs) = Frames(t, Len(t)) /\ Len(qs) = Groups(t, Len(t))
    BY <1>2, <1>4
  <2> QED BY <1>2, <1>6, <2>1, <2>2, <2>3, <2>4, <2>5, StepTo
<1> QED BY <1>1, <1>2, <1>7

\* What the handlers, and the restarts, are without those of the innermost call.
RemovesFrame(gs) ==
    /\ gs \in Seq(HandlerFrame)
    /\ Len(gs) = Frames(stack, Len(stack) - 1)
    /\ \A j \in 1..Len(gs) :
           Agree(handlers, gs, j) /\ (gs[j].disabled <=> Off(stack, Len(stack) - 1, j))
RemovesRestart(qs) ==
    /\ qs \in Seq(Ids)
    /\ Len(qs) = Groups(stack, Len(stack) - 1)
    /\ \A j \in 1..Len(qs) : qs[j] = restarts[j]

\* How many frames and restarts there are without the innermost call.
LEMMA FewerFrames ==
    ASSUME IInv, Act.op # "top"
    PROVE  /\ Len(stack) - 1 \in Nat \ {0} /\ Len(stack) = (Len(stack) - 1) + 1
           /\ Len(stack) - 1 \in 1..Len(stack)
           /\ Frames(stack, Len(stack) - 1) \in Nat /\ Groups(stack, Len(stack) - 1) \in Nat
           /\ Installs(Act) => Len(handlers) = Frames(stack, Len(stack) - 1) + 1
           /\ ~Installs(Act) => Len(handlers) = Frames(stack, Len(stack) - 1)
           /\ Offers(Act) => Len(restarts) = Groups(stack, Len(stack) - 1) + 1
           /\ ~Offers(Act) => Len(restarts) = Groups(stack, Len(stack) - 1)
<1>1. Len(stack) # 1
  BY Standing, TopFirst
<1>2. PICK n \in Nat \ {0} : n = Len(stack) - 1 /\ Len(stack) = n + 1
  <2>1. Len(stack) - 1 \in Nat \ {0} /\ Len(stack) = (Len(stack) - 1) + 1
    BY <1>1, Standing
  <2> QED BY <2>1
<1>3. /\ Frames(stack, n) \in Nat /\ Groups(stack, n) \in Nat
      /\ Installs(stack[n + 1]) => Frames(stack, n + 1) = Frames(stack, n) + 1
      /\ ~Installs(stack[n + 1]) => Frames(stack, n + 1) = Frames(stack, n)
      /\ Offers(stack[n + 1]) => Groups(stack, n + 1) = Groups(stack, n) + 1
      /\ ~Offers(stack[n + 1]) => Groups(stack, n + 1) = Groups(stack, n)
  BY FrameStep
<1>4. /\ Act = stack[n + 1] /\ Len(handlers) = Frames(stack, n + 1)
      /\ Len(restarts) = Groups(stack, n + 1)
  BY <1>2, Standing
<1>5. n \in 1..Len(stack)
  BY <1>2
<1> QED BY <1>2, <1>3, <1>4, <1>5

\* The stack without its innermost call.
LEMMA FrontIs ==
    ASSUME IInv, Act.op # "top"
    PROVE  /\ Front(stack) \in Seq(Calls) /\ Len(Front(stack)) = Len(stack) - 1
           /\ \A l \in 1..(Len(stack) - 1) : Front(stack)[l] = stack[l]
<1>1. Len(stack) - 1 \in 0..Len(stack) /\ stack \in Seq(Calls)
  BY Standing, FewerFrames
<1> QED BY <1>1, FirstPart DEF Front

\* The innermost call is over.
LEMMA PopTo ==
    ASSUME IInv, Act.op # "top", NEW t, t = Front(stack),
           NEW gs, RemovesFrame(gs), NEW qs, RemovesRestart(qs)
    PROVE  t \in Seq(Calls) /\ Len(t) = Len(stack) - 1 /\ Len(t) \in 1..MaxStack
           /\ (\A l \in 1..Len(t) : t[l] = stack[l]) /\ Shape(t, gs, qs)
<1>1. PICK m \in Nat \ {0} : m = Len(stack) - 1 /\ Len(stack) = m + 1 /\ m \in 1..Len(stack)
  BY FewerFrames
<1>2. t \in Seq(Calls) /\ Len(t) = m /\ \A l \in 1..m : stack[l] = t[l]
  BY <1>1, FrontIs
<1>3. m \in 0..m
  OBVIOUS
<1>4. Frames(stack, m) = Frames(t, m) /\ Groups(stack, m) = Groups(t, m)
  BY <1>2, <1>3, FramesSame
<1>5. DisabledAs(t, gs)
  <2>1. SUFFICES ASSUME NEW j \in 1..Len(gs) PROVE gs[j].disabled <=> Off(t, m, j)
    BY <1>2 DEF DisabledAs
  <2>2. gs[j].disabled <=> Off(stack, m, j)
    BY <1>1 DEF RemovesFrame
  <2> QED BY <1>2, <1>3, <2>2, OffSame
<1>6. Shape(t, gs, qs)
  <2>1. \A j \in 1..Frames(stack, m) : Agree(handlers, gs, j)
    BY <1>1 DEF RemovesFrame
  <2>2. \A j \in 1..Groups(stack, m) : restarts[j] = qs[j]
    BY <1>1 DEF RemovesRestart
  <2>3. Len(gs) = Frames(t, Len(t)) /\ Len(qs) = Groups(t, Len(t))
    BY <1>1, <1>2, <1>4 DEF RemovesFrame, RemovesRestart
  <2>4. Len(t) = m + 1 => t[m + 1].op # "top" /\ Stands(t, gs, qs, m + 1)
    BY <1>2
  <2> QED BY <1>1, <1>2, <1>5, <2>1, <2>2, <2>3, <2>4, StepTo
<1>7. m \in 1..MaxStack
  BY <1>1, Standing
<1> QED BY <1>1, <1>2, <1>6, <1>7

Turned(a) == [stack EXCEPT ![Len(stack)] = a]

\* The innermost call enters another phase.
LEMMA TurnIs ==
    ASSUME IInv, NEW a \in Calls, NEW t, t = Turned(a)
    PROVE  /\ t \in Seq(Calls) /\ Len(t) = Len(stack) /\ t[Len(stack)] = a
           /\ \A l \in 1..(Len(stack) - 1) : t[l] = stack[l]
<1>1. stack \in Seq(Calls) /\ Len(stack) \in 1..Len(stack) /\ Len(stack) \in Nat
  BY Standing
<1>2. t \in Seq(Calls) /\ Len(t) = Len(stack)
  BY <1>1, ExceptSeq DEF Turned
<1>3. PICK n \in Nat \ {0} : n = Len(stack) /\ DOMAIN stack = 1..n
  BY Standing
<1>4. t[n] = a /\ \A l \in 1..(n - 1) : t[l] = stack[l]
  <2>1. n \in DOMAIN stack
    BY <1>3
  <2>2. \A l \in DOMAIN stack : l # n => t[l] = stack[l]
    BY <1>3 DEF Turned
  <2>3. \A l \in 1..(n - 1) : l \in DOMAIN stack /\ l # n
    BY <1>3
  <2>4. t[n] = a
    BY <1>3, <2>1 DEF Turned
  <2> QED BY <2>2, <2>3, <2>4
<1> QED BY <1>2, <1>3, <1>4

\* A phase that has no frame and offers no restart.
LEMMA TurnTo ==
    ASSUME IInv, Act.op # "top", NEW a \in Calls, a.op \notin {"top", "signal"},
           ~Installs(a), ~Offers(a),
           NEW t, t = Turned(a),
           NEW gs, RemovesFrame(gs), NEW qs, RemovesRestart(qs)
    PROVE  Shape(t, gs, qs)
<1>1. PICK m \in Nat \ {0} : m = Len(stack) - 1 /\ Len(stack) = m + 1 /\ m \in 1..Len(stack)
  BY FewerFrames
<1>2. t \in Seq(Calls) /\ Len(t) = m + 1 /\ t[m + 1] = a /\ \A l \in 1..m : stack[l] = t[l]
  <2>1. /\ t \in Seq(Calls) /\ Len(t) = Len(stack) /\ t[Len(stack)] = a
        /\ \A l \in 1..(Len(stack) - 1) : t[l] = stack[l]
    BY TurnIs
  <2> QED BY <1>1, <2>1
<1>3. m \in 0..m
  OBVIOUS
<1>4. /\ Frames(stack, m) = Frames(t, m) /\ Groups(stack, m) = Groups(t, m)
      /\ Frames(t, m + 1) = Frames(t, m) /\ Groups(t, m + 1) = Groups(t, m)
  <2>1. Frames(stack, m) = Frames(t, m) /\ Groups(stack, m) = Groups(t, m)
    BY <1>2, <1>3, FramesSame
  <2>2. ~Installs(t[m + 1]) /\ ~Offers(t[m + 1])
    BY <1>2
  <2> QED BY <2>1, <2>2, FrameStep
<1>5. DisabledAs(t, gs)
  <2>1. SUFFICES ASSUME NEW j \in 1..Len(gs) PROVE gs[j].disabled <=> Off(t, m + 1, j)
    BY <1>2 DEF DisabledAs
  <2>2. gs[j].disabled <=> Off(stack, m, j)
    BY <1>1 DEF RemovesFrame
  <2>3. Off(t, m + 1, j) <=> Off(t, m, j)
    <3>1. ~Signalling(t[m + 1])
      BY <1>2 DEF Signalling
    <3> QED BY <3>1, OffStep
  <2>4. Off(stack, m, j) <=> Off(t, m, j)
    BY <1>2, <1>3, OffSame
  <2> QED BY <2>2, <2>3, <2>4
<1>6. Stands(t, gs, qs, m + 1)
  BY <1>2 DEF Stands, FrameOf, GroupOf, WalkOf
<1>7. \A j \in 1..Frames(stack, m) : Agree(handlers, gs, j)
  BY <1>1 DEF RemovesFrame
<1>8. \A j \in 1..Groups(stack, m) : restarts[j] = qs[j]
  BY <1>1 DEF RemovesRestart
<1>9. Len(gs) = Frames(t, Len(t)) /\ Len(qs) = Groups(t, Len(t))
  BY <1>1, <1>2, <1>4 DEF RemovesFrame, RemovesRestart
<1>10. t[m + 1].op # "top"
  BY <1>2
<1> QED BY <1>1, <1>2, <1>5, <1>6, <1>7, <1>8, <1>9, <1>10, StepTo

\* The frames without that of a call that runs no handler.
LEMMA FrameLeft ==
    ASSUME IInv, Act.op # "top", ~Signalling(Act), NEW gs,
           gs = IF Installs(Act) THEN Front(handlers) ELSE handlers
    PROVE  RemovesFrame(gs)
<1>1. PICK m \in Nat \ {0} : m = Len(stack) - 1 /\ Len(stack) = m + 1
  BY FewerFrames
<1>2. gs \in Seq(HandlerFrame) /\ Len(gs) = Frames(stack, m)
      /\ Len(gs) <= Len(handlers) /\ \A j \in 1..Len(gs) : gs[j] = handlers[j]
  <2>1. CASE Installs(Act)
    <3>1. /\ Len(handlers) = Frames(stack, m) + 1 /\ Frames(stack, m) \in Nat
          /\ handlers \in Seq(HandlerFrame) /\ Len(handlers) - 1 \in 0..Len(handlers)
      BY <1>1, <2>1, FewerFrames, Standing, SMTT(30)
    <3> QED BY <3>1, <2>1, FirstPart DEF Front
  <2>2. CASE ~Installs(Act)
    BY <1>1, <2>2, FewerFrames, Standing
  <2> QED BY <2>1, <2>2
<1>3. \A j \in 1..Len(gs) : gs[j].disabled <=> Off(stack, m, j)
  <2>1. SUFFICES ASSUME NEW j \in 1..Len(gs) PROVE gs[j].disabled <=> Off(stack, m, j)
    OBVIOUS
  <2>2. j \in 1..Len(handlers)
    BY <1>2, Standing, FewerFrames
  <2>3. handlers[j].disabled <=> Off(stack, m + 1, j)
    BY <2>2, <1>1 DEF IInv, Shape, DisabledAs
  <2>4. stack[m + 1] = Act
    BY <1>1, Standing
  <2>5. Off(stack, m + 1, j) <=> Off(stack, m, j)
    BY <2>4, OffStep
  <2> QED BY <1>2, <2>3, <2>5
<1> QED BY <1>1, <1>2, <1>3 DEF RemovesFrame, Agree

\* The restarts without that of the innermost call.
LEMMA RestartLeft ==
    ASSUME IInv, Act.op # "top", NEW qs,
           qs = IF Offers(Act) THEN Front(restarts) ELSE restarts
    PROVE  RemovesRestart(qs)
<1>1. PICK m \in Nat \ {0} : m = Len(stack) - 1 /\ Len(stack) = m + 1
  BY FewerFrames
<1>2. qs \in Seq(Ids) /\ Len(qs) = Groups(stack, m) /\ \A j \in 1..Len(qs) : qs[j] = restarts[j]
  <2>1. CASE Offers(Act)
    <3>1. /\ Len(restarts) = Groups(stack, m) + 1 /\ Groups(stack, m) \in Nat
          /\ restarts \in Seq(Ids) /\ Len(restarts) - 1 \in 0..Len(restarts)
      BY <1>1, <2>1, FewerFrames, Standing, SMTT(30)
    <3> QED BY <3>1, <2>1, FirstPart DEF Front
  <2>2. CASE ~Offers(Act)
    BY <1>1, <2>2, FewerFrames, Standing
  <2> QED BY <2>1, <2>2
<1> QED BY <1>1, <1>2 DEF RemovesRestart

\* The frames as they were when the innermost call's handler started.
LEMMA FramesRestored ==
    ASSUME IInv, Signalling(Act)
    PROVE  RemovesFrame(Restored)
<1>1. Act.op = "signal" /\ Act.op # "top" /\ ~Installs(Act) /\ Act.todo > 0
  BY Offering, Standing DEF Signalling
<1>2. PICK m \in Nat \ {0} : m = Len(stack) - 1 /\ Len(stack) = m + 1
  BY <1>1, FewerFrames
<1>3. PICK n \in Nat : n = Frames(stack, m) /\ Len(handlers) = n /\ Frames(stack, m + 1) = n
  BY <1>1, <1>2, FewerFrames, Standing
<1>4. stack[m + 1] = Act
  BY <1>2, Standing
<1>5. PICK at \in Nat : at = Act.at /\ 1 <= at /\ at <= n
  <2>1. WalkOf(stack, m + 1)
    <3>1. m + 1 \in 1..Len(stack)
      BY <1>2
    <3> QED BY <3>1 DEF IInv, Shape, Stands
  <2>2. Act.at \in 1..(n + 1) /\ Act.at <= n
    BY <1>1, <1>3, <1>4, <2>1 DEF WalkOf
  <2> QED BY <2>2
<1>6. PICK saved : saved = Act.saved
  OBVIOUS
<1>7. /\ saved \in Seq(BOOLEAN) /\ Len(saved) = n + 1 - at
      /\ \A i \in 1..Len(saved) : saved[i] <=> Off(stack, m, at + i - 1)
  <2>1. WalkOf(stack, m + 1)
    <3>1. m + 1 \in 1..Len(stack)
      BY <1>2
    <3> QED BY <3>1 DEF IInv, Shape, Stands
  <2>2. Act \in SignalSet
    BY <1>1, Standing, Kinds
  <2>3. saved \in Seq(BOOLEAN)
    BY <1>6, <2>2 DEF SignalSet
  <2>4. (m + 1) - 1 = m
    OBVIOUS
  <2>5. /\ Len(saved) = Frames(stack, m + 1) + 1 - Act.at
        /\ \A i \in 1..Len(saved) : saved[i] <=> Off(stack, (m + 1) - 1, Act.at + i - 1)
    BY <1>1, <1>4, <1>6, <2>1 DEF WalkOf
  <2> QED BY <1>3, <1>5, <2>3, <2>4, <2>5
<1>8. PICK g : g = Restored
  OBVIOUS
<1>9. g = [k \in 1..n |-> IF k - at + 1 \in 1..Len(saved)
                          THEN [handlers[k] EXCEPT !.disabled = saved[k - at + 1]]
                          ELSE handlers[k]]
  <2>1. DOMAIN handlers = 1..n /\ DOMAIN Act.saved = 1..Len(saved)
    <3>1. DOMAIN saved = 1..Len(saved)
      BY <1>7, LenProperties
    <3> QED BY <3>1, <1>3, <1>6, Standing
  <2> QED BY <2>1, <1>5, <1>6, <1>8 DEF Restored
<1>10. \A k \in 1..n : /\ g[k] \in HandlerFrame /\ Agree(handlers, g, k)
                       /\ g[k].disabled <=> Off(stack, m, k)
  <2>1. SUFFICES ASSUME NEW k \in 1..n
                 PROVE  /\ g[k] \in HandlerFrame /\ Agree(handlers, g, k)
                        /\ g[k].disabled <=> Off(stack, m, k)
    OBVIOUS
  <2>2. handlers[k] \in HandlerFrame
    BY <1>3, Standing
  <2>3. handlers[k].disabled <=> Off(stack, m + 1, k)
    <3>1. k \in 1..Len(handlers)
      BY <1>3
    <3> QED BY <3>1, <1>2 DEF IInv, Shape, DisabledAs
  <2>4. CASE k >= at
    <3>1. PICK i \in 1..Len(saved) : i = k - at + 1 /\ k = at + i - 1
      <4>1. k - at + 1 \in 1..Len(saved) /\ k = at + (k - at + 1) - 1
        BY <1>7, <2>4
      <4> QED BY <4>1
    <3>2. g[k] = [handlers[k] EXCEPT !.disabled = saved[i]]
      BY <1>9, <3>1
    <3>3. saved[i] \in BOOLEAN /\ (saved[i] <=> Off(stack, m, k))
      <4>1. saved[i] \in BOOLEAN
        BY <1>7, ElementOfSeq
      <4> QED BY <4>1, <1>7, <3>1
    <3> QED BY <2>2, <3>2, <3>3 DEF HandlerFrame, Agree
  <2>5. CASE ~(k >= at)
    <3>1. ~(k - at + 1 \in 1..Len(saved))
      BY <1>7, <2>5
    <3>2. g[k] = handlers[k]
      BY <1>9, <3>1
    <3>3. Off(stack, m + 1, k) <=> Off(stack, m, k)
      <4>1. ~(Act.at <= k)
        BY <1>5, <2>5
      <4> QED BY <4>1, <1>4, OffStep
    <3> QED BY <2>2, <2>3, <3>2, <3>3 DEF Agree
  <2> QED BY <2>4, <2>5
<1>11. g \in Seq(HandlerFrame) /\ Len(g) = n
  <2>1. g \in [1..n -> HandlerFrame]
    BY <1>9, <1>10
  <2>2. g \in Seq(HandlerFrame)
    BY <2>1
  <2> QED BY <2>1, <2>2, LenProperties
<1>12. Len(stack) - 1 = m
  BY <1>2
<1> QED BY <1>3, <1>8, <1>10, <1>11, <1>12 DEF RemovesFrame

-----------------------------------------------------------------------------
(* The invariant is kept *)

\* The type of what is neither a stack nor the flow.
RestOK ==
    /\ nextId \in 0..MaxIds
    /\ transfer \in Ids \cup {None, Abort}
    /\ record \in Record

\* The invariant gives that type.
LEMMA RestIs ==
    ASSUME IInv
    PROVE  RestOK /\ flow \in Flows
BY DEF IInv, TypeOK, RestOK

\* What flows is one of three kinds.
LEMMA FlowKinds ==
    /\ Running \in Flows /\ Walking \in Flows /\ Running # Walking
    /\ \A f \in Errs : f \in Flows /\ f.how = "err" /\ f # Walking /\ f # Running
    /\ \A f \in Flows : f.how = "err" => f \in Errs
    /\ \A f \in Flows : f # Walking /\ f.how # "err" => f = Running
    /\ Running \in Outcomes /\ \A f : f \in Outcomes <=> f \in Flows /\ f # Walking
    /\ Running.how # "err" /\ Walking.how # "err"
    /\ \A m \in Conds \cup {Transfer}, to \in 0..MaxStack :
           Err(m, to) \in Errs /\ Err(m, to).msg = m /\ Err(m, to).to = to
<1>1. Running.how = "run" /\ Walking.how = "walk"
  BY DEF Running, Walking
<1>2. \A f \in Errs : f.how = "err"
  BY DEF Errs, Err
<1>3. \A m \in Conds \cup {Transfer}, to \in 0..MaxStack :
          Err(m, to) \in Errs /\ Err(m, to).msg = m /\ Err(m, to).to = to
  BY DEF Errs, Err
<1>4. Flows = {Running, Walking} \cup Errs /\ Outcomes = {Running} \cup Errs
  BY DEF Flows, Outcomes
<1>5. Running # Walking
  BY <1>1
<1> QED BY <1>1, <1>2, <1>3, <1>4, <1>5

\* Only the innermost call may be walking, and while it is nothing else runs.
LEMMA WalkersBelow ==
    ASSUME IInv
    PROVE  /\ \A k \in 1..Len(stack) :
                  stack[k].op = "signal" /\ (k < Len(stack) \/ flow # Walking) => stack[k].todo # 0
           /\ flow = Walking => Act.op = "signal" /\ Act.todo = 0
<1>1. /\ \A k \in 1..Len(stack) :
             stack[k].op = "signal" => (stack[k].todo = 0 <=> k = Len(stack) /\ flow = Walking)
      /\ flow = Walking => stack[Len(stack)].op = "signal"
  BY DEF IInv, Walkers
<1>2. Len(stack) \in 1..Len(stack) /\ Act = stack[Len(stack)] /\ Len(stack) \in Nat
  BY Standing
<1> QED BY <1>1, <1>2

\* The innermost call is over.
LEMMA AfterPop ==
    ASSUME IInv, Act.op # "top", Over, RemovesFrame(handlers'), RemovesRestart(restarts'),
           flow' \in Flows, flow' # Walking, RestOK'
    PROVE  IInv'
<1>1. PICK t : t = stack'
  OBVIOUS
<1>2. t = Front(stack)
  BY <1>1 DEF Over
<1>3. PICK gs, qs : gs = handlers' /\ qs = restarts'
  OBVIOUS
<1>4. /\ t \in Seq(Calls) /\ Len(t) = Len(stack) - 1 /\ Len(t) \in 1..MaxStack
      /\ (\A l \in 1..Len(t) : t[l] = stack[l]) /\ Shape(t, gs, qs)
  <2>1. RemovesFrame(gs) /\ RemovesRestart(qs)
    BY <1>3
  <2> QED BY <1>2, <2>1, PopTo
<1>5. \A k \in 1..Len(t) : t[k].op = "signal" => t[k].todo # 0
  <2>1. SUFFICES ASSUME NEW k \in 1..Len(t), t[k].op = "signal" PROVE t[k].todo # 0
    OBVIOUS
  <2>2. t[k] = stack[k] /\ k \in 1..Len(stack) /\ k < Len(stack)
    BY <1>4, Standing
  <2> QED BY <2>1, <2>2, WalkersBelow
<1>6. Walkers(t, flow')
  BY <1>5 DEF Walkers
<1>7. handlers' \in Seq(HandlerFrame) /\ restarts' \in Seq(Ids)
  BY DEF RemovesFrame, RemovesRestart
<1>8. TypeOK'
  BY <1>1, <1>4, <1>7 DEF TypeOK, RestOK
<1> QED BY <1>1, <1>3, <1>4, <1>6, <1>8 DEF IInv

\* The innermost call enters a phase that has no frame and offers no restart.
LEMMA AfterTurn ==
    ASSUME IInv, Act.op # "top", NEW a \in Calls, a.op \notin {"top", "signal"},
           ~Installs(a), ~Offers(a), stack' = Turned(a),
           RemovesFrame(handlers'), RemovesRestart(restarts'),
           flow' \in Flows, flow' # Walking, RestOK'
    PROVE  IInv'
<1>1. PICK t : t = stack'
  OBVIOUS
<1>2. t = Turned(a)
  BY <1>1
<1>3. PICK gs, qs : gs = handlers' /\ qs = restarts'
  OBVIOUS
<1>4. /\ t \in Seq(Calls) /\ Len(t) = Len(stack) /\ t[Len(stack)] = a
      /\ \A l \in 1..(Len(stack) - 1) : t[l] = stack[l]
  BY <1>2, TurnIs, SMTT(30)
<1>5. Shape(t, gs, qs)
  <2>1. RemovesFrame(gs) /\ RemovesRestart(qs)
    BY <1>3
  <2> QED BY <1>2, <2>1, TurnTo
<1>6. \A k \in 1..Len(t) : t[k].op = "signal" => t[k].todo # 0
  <2>1. SUFFICES ASSUME NEW k \in 1..Len(t), t[k].op = "signal" PROVE t[k].todo # 0
    OBVIOUS
  <2>2. k # Len(stack)
    BY <1>4, <2>1
  <2>3. k \in 1..(Len(stack) - 1) /\ k \in 1..Len(stack) /\ k < Len(stack)
    BY <1>4, <2>2, Standing
  <2>4. t[k] = stack[k]
    BY <1>4, <2>3
  <2> QED BY <2>1, <2>3, <2>4, WalkersBelow
<1>7. Walkers(t, flow')
  BY <1>6 DEF Walkers
<1>8. handlers' \in Seq(HandlerFrame) /\ restarts' \in Seq(Ids)
  BY DEF RemovesFrame, RemovesRestart
<1>9. Len(t) \in 1..MaxStack
  BY <1>4, Standing
<1>10. TypeOK'
  BY <1>1, <1>4, <1>8, <1>9 DEF TypeOK, RestOK
<1> QED BY <1>1, <1>3, <1>5, <1>7, <1>10 DEF IInv

\* A call is entered: code runs in it, or it walks the handlers.
LEMMA AfterPush ==
    ASSUME IInv, flow = Running, NEW a \in Calls, a.op # "top",
           a.op = "signal" =>
               a.at = Len(handlers) + 1 /\ a.todo = 0 /\ a.saved = <<>>,
           Enter(a), AddsFrame(a, handlers'), AddsRestart(a, restarts'),
           flow' = IF a.op = "signal" THEN Walking ELSE Running, RestOK'
    PROVE  IInv'
<1>1. PICK t : t = stack'
  OBVIOUS
<1>2. t = Append(stack, a) /\ Len(stack) < MaxStack
  BY <1>1 DEF Enter
<1>3. PICK gs, qs : gs = handlers' /\ qs = restarts'
  OBVIOUS
<1>4. /\ t \in Seq(Calls) /\ Len(t) = Len(stack) + 1 /\ t[Len(stack) + 1] = a
      /\ (\A l \in 1..Len(stack) : t[l] = stack[l]) /\ Shape(t, gs, qs)
  <2>1. AddsFrame(a, gs) /\ AddsRestart(a, qs)
    BY <1>3
  <2>2. ~Signalling(a)
    BY DEF Signalling
  <2> QED BY <1>2, <2>1, <2>2, PushTo
<1>5. flow' \in Flows /\ (flow' = Walking <=> a.op = "signal")
  BY FlowKinds
<1>6. \A k \in 1..Len(stack) : t[k].op = "signal" => t[k].todo # 0
  BY <1>4, WalkersBelow, FlowKinds
<1>7. Walkers(t, flow')
  <2>1. \A k \in 1..Len(t) : k \in 1..Len(stack) \/ k = Len(stack) + 1
    BY <1>4, Standing
  <2>2. \A k \in 1..Len(stack) : k # Len(t)
    BY <1>4, Standing
  <2> QED BY <1>4, <1>5, <1>6, <2>1, <2>2 DEF Walkers
<1>8. handlers' \in Seq(HandlerFrame) /\ restarts' \in Seq(Ids)
  BY DEF AddsFrame, AddsRestart
<1>9. Len(t) \in 1..MaxStack
  BY <1>2, <1>4, Standing
<1>10. TypeOK'
  BY <1>1, <1>4, <1>5, <1>8, <1>9 DEF TypeOK, RestOK
<1> QED BY <1>1, <1>3, <1>4, <1>7, <1>10 DEF IInv

\* Only what flows changes.
LEMMA AfterFlow ==
    ASSUME IInv, flow # Walking, UNCHANGED <<stack, handlers, restarts>>,
           flow' \in Flows, flow' # Walking, RestOK'
    PROVE  IInv'
<1>1. Shape(stack', handlers', restarts')
  BY DEF IInv
<1>2. Walkers(stack, flow')
  BY WalkersBelow DEF Walkers, IInv
<1>3. TypeOK'
  BY DEF IInv, TypeOK, RestOK
<1> QED BY <1>1, <1>2, <1>3 DEF IInv

\* A handler frame is added.
LEMMA FrameAdded ==
    ASSUME IInv, NEW a, Installs(a), NEW f \in HandlerFrame,
           f.calling = (a.op # "tryCatch"), f.muffle = (a.op = "suppressWarnings"),
           a.op = "tryCatch" => f.on = a.on, ~f.disabled,
           handlers' = Append(handlers, f)
    PROVE  AddsFrame(a, handlers')
<1>1. PICK gs : gs = handlers'
  OBVIOUS
<1>2. /\ gs \in Seq(HandlerFrame) /\ Len(gs) = Len(handlers) + 1
      /\ \A j \in 1..Len(handlers) : gs[j] = handlers[j]
      /\ gs[Len(handlers) + 1] = f
  BY <1>1, Standing, AppendProperties
<1> QED BY <1>1, <1>2 DEF AddsFrame

\* No handler frame is added.
LEMMA NoFrameAdded ==
    ASSUME IInv, NEW a, ~Installs(a), handlers' = handlers
    PROVE  AddsFrame(a, handlers')
BY Standing DEF AddsFrame

\* A restart is added.
LEMMA RestartAdded ==
    ASSUME IInv, NEW a, Offers(a), a.id = nextId + 1, PushRestart
    PROVE  AddsRestart(a, restarts') /\ nextId + 1 \in Ids /\ nextId' \in 0..MaxIds
<1>1. nextId + 1 \in Ids /\ nextId' = nextId + 1 /\ nextId' \in 0..MaxIds
  BY ConditionsAssumption, RestIs DEF PushRestart, Ids, RestOK
<1>2. restarts' = Append(restarts, a.id)
  BY <1>1 DEF PushRestart
<1>3. PICK qs : qs = restarts'
  OBVIOUS
<1>4. /\ qs \in Seq(Ids) /\ Len(qs) = Len(restarts) + 1
      /\ \A j \in 1..Len(restarts) : qs[j] = restarts[j]
      /\ qs[Len(restarts) + 1] = a.id
  BY <1>1, <1>2, <1>3, Standing, AppendProperties
<1> QED BY <1>1, <1>3, <1>4 DEF AddsRestart

\* No restart is added.
LEMMA NoRestartAdded ==
    ASSUME IInv, NEW a, ~Offers(a), restarts' = restarts
    PROVE  AddsRestart(a, restarts')
BY Standing DEF AddsRestart

\* tryCatch.
LEMMA TryCatchKeeps ==
    ASSUME IInv, NEW on \in HandlerLists, NEW finally \in BOOLEAN, TryCatch(on, finally)
    PROVE  IInv'
<1>1. PICK a : a = [op |-> "tryCatch", phase |-> "body", on |-> on,
                    cleanup |-> finally, out |-> Running]
  OBVIOUS
<1>2. a \in Calls /\ a.op = "tryCatch" /\ Installs(a) /\ ~Offers(a) /\ a.on = on
  <2>1. a \in TrySet
    BY <1>1, FlowKinds DEF TrySet
  <2> QED BY <1>1, <2>1, OfKind DEF Installs, Offers
<1>3. PICK f : f = [calling |-> FALSE, muffle |-> FALSE, on |-> on, disabled |-> FALSE]
  OBVIOUS
<1>4. f \in HandlerFrame /\ ~f.calling /\ ~f.muffle /\ f.on = on /\ ~f.disabled
  BY <1>3 DEF HandlerFrame
<1>5. handlers' = Append(handlers, f)
  BY <1>3 DEF TryCatch, Install
<1>6. f.calling = (a.op # "tryCatch") /\ f.muffle = (a.op = "suppressWarnings")
  BY <1>2, <1>3
<1>7. AddsFrame(a, handlers')
  BY <1>2, <1>4, <1>5, <1>6, FrameAdded
<1>8. AddsRestart(a, restarts')
  BY <1>2, NoRestartAdded DEF TryCatch
<1>9. Enter(a) /\ flow = Running /\ flow' = Running
  BY <1>1 DEF TryCatch, Enter, Free
<1>10. RestOK'
  BY RestIs DEF TryCatch, RestOK
<1> QED BY <1>2, <1>7, <1>8, <1>9, <1>10, AfterPush

\* withCallingHandlers.
LEMMA WithCallingHandlersKeeps ==
    ASSUME IInv, NEW on \in HandlerLists, WithCallingHandlers(on)
    PROVE  IInv'
<1>1. PICK a : a = [op |-> "withCallingHandlers", phase |-> "body"]
  OBVIOUS
<1>2. a \in Calls /\ a.op = "withCallingHandlers" /\ Installs(a) /\ ~Offers(a)
  <2>1. a \in PlainSet
    BY <1>1 DEF PlainSet
  <2> QED BY <1>1, <2>1, OfKind DEF Installs, Offers
<1>3. PICK f : f = [calling |-> TRUE, muffle |-> FALSE, on |-> on, disabled |-> FALSE]
  OBVIOUS
<1>4. f \in HandlerFrame /\ ~f.disabled
  BY <1>3 DEF HandlerFrame
<1>5. handlers' = Append(handlers, f)
  BY <1>3 DEF WithCallingHandlers, Install
<1>6. f.calling = (a.op # "tryCatch") /\ f.muffle = (a.op = "suppressWarnings")
  BY <1>2, <1>3
<1>7. AddsFrame(a, handlers')
  BY <1>2, <1>4, <1>5, <1>6, FrameAdded
<1>8. AddsRestart(a, restarts')
  BY <1>2, NoRestartAdded DEF WithCallingHandlers
<1>9. Enter(a) /\ flow = Running /\ flow' = Running
  BY <1>1 DEF WithCallingHandlers, Enter, Free
<1>10. RestOK'
  BY RestIs DEF WithCallingHandlers, RestOK
<1> QED BY <1>2, <1>7, <1>8, <1>9, <1>10, AfterPush

\* suppressWarnings.
LEMMA SuppressWarningsKeeps ==
    ASSUME IInv, SuppressWarnings
    PROVE  IInv'
<1>1. PICK a : a = [op |-> "suppressWarnings", phase |-> "body"]
  OBVIOUS
<1>2. a \in Calls /\ a.op = "suppressWarnings" /\ Installs(a) /\ ~Offers(a)
  <2>1. a \in PlainSet
    BY <1>1 DEF PlainSet
  <2> QED BY <1>1, <2>1, OfKind DEF Installs, Offers
<1>3. PICK f : f = [calling |-> TRUE, muffle |-> TRUE, on |-> <<>>, disabled |-> FALSE]
  OBVIOUS
<1>4. f \in HandlerFrame /\ ~f.disabled
  BY <1>3 DEF HandlerFrame
<1>5. handlers' = Append(handlers, f)
  BY <1>3 DEF SuppressWarnings, Install
<1>6. f.calling = (a.op # "tryCatch") /\ f.muffle = (a.op = "suppressWarnings")
  BY <1>2, <1>3
<1>7. AddsFrame(a, handlers')
  BY <1>2, <1>4, <1>5, <1>6, FrameAdded
<1>8. AddsRestart(a, restarts')
  BY <1>2, NoRestartAdded DEF SuppressWarnings
<1>9. Enter(a) /\ flow = Running /\ flow' = Running
  BY <1>1 DEF SuppressWarnings, Enter, Free
<1>10. RestOK'
  BY RestIs DEF SuppressWarnings, RestOK
<1> QED BY <1>2, <1>7, <1>8, <1>9, <1>10, AfterPush

\* try.
LEMMA TryKeeps ==
    ASSUME IInv, Try
    PROVE  IInv'
<1>1. PICK a : a = [op |-> "try", phase |-> "body"]
  OBVIOUS
<1>2. a \in Calls /\ a.op = "try" /\ ~Installs(a) /\ ~Offers(a)
  <2>1. a \in PlainSet
    BY <1>1 DEF PlainSet
  <2> QED BY <1>1, <2>1, OfKind DEF Installs, Offers
<1>3. AddsFrame(a, handlers') /\ AddsRestart(a, restarts')
  BY <1>2, NoFrameAdded, NoRestartAdded DEF Try
<1>4. Enter(a) /\ flow = Running /\ flow' = Running
  BY <1>1 DEF Try, Enter, Free
<1>5. RestOK'
  BY RestIs DEF Try, RestOK
<1> QED BY <1>2, <1>3, <1>4, <1>5, AfterPush

\* A closure call.
LEMMA CallKeeps ==
    ASSUME IInv, NEW exit \in BOOLEAN, Call(exit)
    PROVE  IInv'
<1>1. PICK a : a = [op |-> "call", phase |-> "body", cleanup |-> exit, out |-> Running]
  OBVIOUS
<1>2. a \in Calls /\ a.op = "call" /\ ~Installs(a) /\ ~Offers(a)
  <2>1. a \in CallSet
    BY <1>1, FlowKinds DEF CallSet
  <2> QED BY <1>1, <2>1, OfKind DEF Installs, Offers
<1>3. AddsFrame(a, handlers') /\ AddsRestart(a, restarts')
  BY <1>2, NoFrameAdded, NoRestartAdded DEF Call
<1>4. Enter(a) /\ flow = Running /\ flow' = Running
  BY <1>1 DEF Call, Enter, Free
<1>5. RestOK'
  BY RestIs DEF Call, RestOK
<1> QED BY <1>2, <1>3, <1>4, <1>5, AfterPush

\* withRestarts.
LEMMA WithRestartsKeeps ==
    ASSUME IInv, WithRestarts
    PROVE  IInv'
<1>1. PICK a : a = [op |-> "withRestarts", phase |-> "body", id |-> nextId + 1]
  OBVIOUS
<1>2. a.op = "withRestarts" /\ ~Installs(a) /\ Offers(a) /\ a.id = nextId + 1
  BY <1>1 DEF Installs, Offers
<1>3. PushRestart
  BY DEF WithRestarts
<1>4. AddsRestart(a, restarts') /\ nextId + 1 \in Ids /\ nextId' \in 0..MaxIds
  BY <1>2, <1>3, RestartAdded
<1>5. a \in Calls
  <2>1. a \in RestartSet
    BY <1>1, <1>4 DEF RestartSet
  <2> QED BY <2>1, OfKind
<1>6. AddsFrame(a, handlers')
  BY <1>2, NoFrameAdded DEF WithRestarts
<1>7. Enter(a) /\ flow = Running /\ flow' = Running
  BY <1>1 DEF WithRestarts, Enter, Free
<1>8. RestOK'
  BY <1>4, RestIs DEF WithRestarts, RestOK
<1> QED BY <1>2, <1>4, <1>5, <1>6, <1>7, <1>8, AfterPush

\* The call that signals a condition.
Signaller(by, c) ==
    [op |-> "signal", phase |-> "body", by |-> by, cond |-> c,
     at |-> Len(handlers) + 1, todo |-> 0, saved |-> <<>>,
     id |-> IF by = "warning" THEN nextId + 1 ELSE None]

\* stop, warning, message and signalCondition.
LEMMA SignalKeeps ==
    ASSUME IInv, NEW s \in Signals, Signal(s[1], s[2])
    PROVE  IInv'
<1>1. PICK by, c : by = s[1] /\ c = s[2]
  OBVIOUS
<1>2. by \in {x[1] : x \in Signals} /\ c \in Conds
  BY <1>1 DEF Signals, Conds
<1>3. PICK a : a = Signaller(by, c)
  OBVIOUS
<1>4. /\ a.op = "signal" /\ a.at = Len(handlers) + 1 /\ a.todo = 0 /\ a.saved = <<>>
      /\ a.id = IF by = "warning" THEN nextId + 1 ELSE None
  BY <1>3 DEF Signaller
<1>5. ~Installs(a)
  BY <1>4 DEF Installs
<1>6. nextId + 1 # None
  <2>1. nextId \in Nat
    BY RestIs, ConditionsAssumption DEF RestOK
  <2> QED BY <2>1, ConditionsAssumption
<1>7. IF by = "warning" THEN PushRestart ELSE UNCHANGED <<restarts, nextId>>
  BY <1>1 DEF Signal
<1>8. AddsRestart(a, restarts') /\ a.id \in Ids \cup {None} /\ nextId' \in 0..MaxIds
  <2>1. CASE by = "warning"
    <3>1. Offers(a) /\ a.id = nextId + 1
      BY <1>4, <1>6, <2>1 DEF Offers
    <3> QED BY <3>1, <1>7, <2>1, RestartAdded
  <2>2. CASE by # "warning"
    <3>1. ~Offers(a) /\ a.id = None
      BY <1>4, <2>2 DEF Offers
    <3> QED BY <3>1, <1>7, <2>2, NoRestartAdded, RestIs DEF RestOK
  <2> QED BY <2>1, <2>2
<1>9. a \in Calls
  <2>1. Len(handlers) + 1 \in 1..MaxStack + 1
    BY Standing
  <2>2. <<>> \in Seq(BOOLEAN)
    BY EmptySeq
  <2>3. a \in SignalSet
    BY <1>2, <1>3, <1>4, <1>8, <2>1, <2>2 DEF SignalSet, Signaller
  <2> QED BY <2>3, OfKind
<1>10. AddsFrame(a, handlers')
  BY <1>5, NoFrameAdded DEF Signal
<1>11. Enter(a) /\ flow = Running /\ flow' = Walking
  BY <1>1, <1>3 DEF Signal, Signaller, Enter, Free
<1>12. RestOK'
  BY <1>8, RestIs DEF Signal, RestOK
<1> QED BY <1>4, <1>8, <1>9, <1>10, <1>11, <1>12, AfterPush

\* invokeRestart, a primitive that fails, and the host going on.
LEMMA FlowKeeps ==
    ASSUME IInv,
           \/ \E id \in Ids \cup {Abort} : InvokeRestart(id)
           \/ Fail
           \/ NextStatement
    PROVE  IInv'
<1>1. CASE \E id \in Ids \cup {Abort} : InvokeRestart(id)
  <2>1. flow = Running /\ UNCHANGED <<stack, handlers, restarts>>
    BY <1>1 DEF InvokeRestart, Free
  <2>2. flow' = Err(Transfer, 0) /\ RestOK'
    BY <1>1, RestIs DEF InvokeRestart, RestOK
  <2>3. flow' \in Flows /\ flow' # Walking
    <3>1. 0 \in 0..MaxStack
      BY ConditionsAssumption
    <3>2. Err(Transfer, 0) \in Errs
      BY <3>1, FlowKinds
    <3> QED BY <2>2, <3>2, FlowKinds
  <2> QED BY <2>1, <2>2, <2>3, AfterFlow, FlowKinds
<1>2. CASE Fail
  <2>1. flow = Running /\ UNCHANGED <<stack, handlers, restarts>> /\ RestOK'
    BY <1>2, RestIs DEF Fail, Free, RestOK
  <2>2. PICK j \in 0..Len(handlers) : flow' = Err("simpleError", j)
    BY <1>2 DEF Fail
  <2>3. flow' \in Flows /\ flow' # Walking
    <3>1. j \in 0..MaxStack /\ "simpleError" \in Conds \cup {Transfer}
      BY Standing DEF Conds
    <3>2. Err("simpleError", j) \in Errs
      BY <3>1, FlowKinds
    <3> QED BY <2>2, <3>2, FlowKinds
  <2> QED BY <2>1, <2>3, AfterFlow, FlowKinds
<1>3. CASE NextStatement
  <2>1. flow # Walking
    BY <1>3, FlowKinds DEF NextStatement, Failed
  <2> QED BY <1>3, <2>1, AfterFlow, FlowKinds, RestIs DEF NextStatement, RestOK
<1> QED BY <1>1, <1>2, <1>3

\* A call that holds no handler running leaves its frame and its restart behind.
LEMMA Left ==
    ASSUME IInv, Act.op # "top", ~Signalling(Act)
    PROVE  /\ Installs(Act) => RemovesFrame(Front(handlers))
           /\ ~Installs(Act) => RemovesFrame(handlers)
           /\ Offers(Act) => RemovesRestart(Front(restarts))
           /\ ~Offers(Act) => RemovesRestart(restarts)
<1>1. PICK gs : gs = IF Installs(Act) THEN Front(handlers) ELSE handlers
  OBVIOUS
<1>2. RemovesFrame(gs)
  BY <1>1, FrameLeft
<1>3. PICK qs : qs = IF Offers(Act) THEN Front(restarts) ELSE restarts
  OBVIOUS
<1>4. RemovesRestart(qs)
  BY <1>3, RestartLeft
<1> QED BY <1>1, <1>2, <1>3, <1>4

\* A call other than a signal, being left.
LEMMA LeavingIs ==
    ASSUME IInv, NEW op, NEW ph, Leaving(op, ph), op # "signal"
    PROVE  /\ Act.op = op /\ Act.phase = ph /\ flow \in Outcomes /\ ~Signalling(Act)
           /\ RestOK
<1>1. flow # Walking /\ flow \in Flows /\ RestOK
  BY RestIs DEF Leaving
<1> QED BY <1>1, FlowKinds DEF Leaving, In, Signalling

\* withCallingHandlers and suppressWarnings.
LEMMA LeaveHandlersKeeps ==
    ASSUME IInv, LeaveHandlers
    PROVE  IInv'
<1>1. PICK op : op \in {"withCallingHandlers", "suppressWarnings"} /\ Leaving(op, "body")
  BY DEF LeaveHandlers
<1>2. Act.op = op /\ flow \in Outcomes /\ ~Signalling(Act) /\ RestOK
  BY <1>1, LeavingIs
<1>3. Installs(Act) /\ ~Offers(Act) /\ Act.op # "top"
  BY <1>1, <1>2 DEF Installs, Offers
<1>4. RemovesFrame(handlers') /\ RemovesRestart(restarts')
  BY <1>2, <1>3, Left DEF LeaveHandlers
<1>5. Over /\ flow' = flow /\ RestOK'
  BY <1>2 DEF LeaveHandlers, RestOK
<1> QED BY <1>2, <1>3, <1>4, <1>5, AfterPop, FlowKinds

\* A result of tryCatch is settled.
LEMMA SettleKeeps ==
    ASSUME IInv, Act.op = "tryCatch", NEW out \in Outcomes, Settle(out),
           RemovesFrame(handlers'), RemovesRestart(restarts'), RestOK'
    PROVE  IInv'
<1>1. CASE Act.cleanup
  <2>1. PICK a : a = [Act EXCEPT !.phase = "finally", !.out = out]
    OBVIOUS
  <2>2. Act \in TrySet
    BY Standing, Kinds
  <2>3. a \in TrySet /\ a.op = "tryCatch" /\ a.phase = "finally"
    BY <2>1, <2>2 DEF TrySet
  <2>4. a \in Calls /\ ~Installs(a) /\ ~Offers(a)
    BY <2>3, OfKind DEF Installs, Offers
  <2>5. stack' = Turned(a) /\ flow' = Running
    BY <1>1, <2>1 DEF Settle, Phase, Turned
  <2> QED BY <2>3, <2>4, <2>5, AfterTurn, FlowKinds
<1>2. CASE ~Act.cleanup
  <2>1. Over /\ flow' = out
    BY <1>2 DEF Settle
  <2> QED BY <2>1, AfterPop, FlowKinds
<1> QED BY <1>1, <1>2

\* The body of tryCatch.
LEMMA LeaveTryBodyKeeps ==
    ASSUME IInv, LeaveTryBody
    PROVE  IInv'
<1>1. Act.op = "tryCatch" /\ Act.phase = "body" /\ flow \in Outcomes /\ ~Signalling(Act) /\ RestOK
  BY LeavingIs DEF LeaveTryBody
<1>2. Installs(Act) /\ ~Offers(Act) /\ Act.op # "top"
  BY <1>1 DEF Installs, Offers
<1>3. RemovesFrame(handlers') /\ RemovesRestart(restarts')
  BY <1>1, <1>2, Left DEF LeaveTryBody
<1>4. NoRecord \in Record
  BY DEF NoRecord, Record
<1>5. RestOK'
  BY <1>1, <1>4 DEF LeaveTryBody, Forget, RestOK
<1>6. CASE Takes
  <2>1. PICK a : a = [Act EXCEPT !.phase = "handler"]
    OBVIOUS
  <2>2. Act \in TrySet
    BY <1>1, Standing, Kinds
  <2>3. a \in TrySet /\ a.op = "tryCatch" /\ a.phase = "handler"
    BY <1>1, <2>1, <2>2 DEF TrySet
  <2>4. a \in Calls /\ ~Installs(a) /\ ~Offers(a)
    BY <2>3, OfKind DEF Installs, Offers
  <2>5. stack' = Turned(a) /\ flow' = Running
    BY <1>6, <2>1 DEF LeaveTryBody, Phase, Turned
  <2> QED BY <1>2, <1>3, <1>5, <2>3, <2>4, <2>5, AfterTurn, FlowKinds
<1>7. CASE ~Takes
  <2>1. Settle(flow)
    BY <1>7 DEF LeaveTryBody
  <2> QED BY <1>1, <1>3, <1>5, <2>1, SettleKeeps
<1> QED BY <1>6, <1>7

\* A handler of tryCatch.
LEMMA LeaveTryHandlerKeeps ==
    ASSUME IInv, LeaveTryHandler
    PROVE  IInv'
<1>1. Act.op = "tryCatch" /\ Act.phase = "handler" /\ flow \in Outcomes /\ ~Signalling(Act)
      /\ RestOK
  BY LeavingIs DEF LeaveTryHandler
<1>2. ~Installs(Act) /\ ~Offers(Act) /\ Act.op # "top"
  BY <1>1 DEF Installs, Offers
<1>3. RemovesFrame(handlers') /\ RemovesRestart(restarts')
  BY <1>1, <1>2, Left DEF LeaveTryHandler
<1>4. Settle(flow) /\ RestOK'
  BY <1>1 DEF LeaveTryHandler, RestOK
<1> QED BY <1>1, <1>3, <1>4, SettleKeeps

\* The finally expression of tryCatch.
LEMMA LeaveFinallyKeeps ==
    ASSUME IInv, LeaveFinally
    PROVE  IInv'
<1>1. Act.op = "tryCatch" /\ Act.phase = "finally" /\ flow \in Outcomes /\ ~Signalling(Act)
      /\ RestOK
  BY LeavingIs DEF LeaveFinally
<1>2. ~Installs(Act) /\ ~Offers(Act) /\ Act.op # "top"
  BY <1>1 DEF Installs, Offers
<1>3. RemovesFrame(handlers') /\ RemovesRestart(restarts')
  BY <1>1, <1>2, Left DEF LeaveFinally
<1>4. Act.out \in Outcomes
  <2>1. Act \in TrySet
    BY <1>1, Standing, Kinds
  <2> QED BY <2>1 DEF TrySet
<1>5. Over /\ flow' \in Outcomes /\ RestOK'
  BY <1>1, <1>4 DEF LeaveFinally, RestOK
<1> QED BY <1>2, <1>3, <1>5, AfterPop, FlowKinds

\* try.
LEMMA LeaveTryKeeps ==
    ASSUME IInv, LeaveTry
    PROVE  IInv'
<1>1. Act.op = "try" /\ flow \in Outcomes /\ ~Signalling(Act) /\ RestOK
  BY LeavingIs DEF LeaveTry
<1>2. ~Installs(Act) /\ ~Offers(Act) /\ Act.op # "top"
  BY <1>1 DEF Installs, Offers
<1>3. RemovesFrame(handlers') /\ RemovesRestart(restarts')
  BY <1>1, <1>2, Left DEF LeaveTry
<1>4. NoRecord \in Record
  BY DEF NoRecord, Record
<1>5. Over /\ flow' \in Outcomes /\ RestOK'
  BY <1>1, <1>4, FlowKinds DEF LeaveTry, RestOK
<1> QED BY <1>2, <1>3, <1>5, AfterPop, FlowKinds

\* What is recorded when the target of a transfer is reached is a record.
LEMMA Reached ==
    ASSUME IInv, transfer' = None, record' = [record EXCEPT !.object = None],
           nextId' = nextId
    PROVE  RestOK'
<1>1. record \in Record
  BY RestIs DEF RestOK
<1>2. [record EXCEPT !.object = None] \in Record
  BY <1>1 DEF Record
<1> QED BY <1>2, RestIs DEF RestOK

\* The expression of withRestarts.
LEMMA LeaveRestartsKeeps ==
    ASSUME IInv, LeaveRestarts
    PROVE  IInv'
<1>1. Act.op = "withRestarts" /\ Act.phase = "body" /\ flow \in Outcomes /\ ~Signalling(Act)
      /\ RestOK
  BY LeavingIs DEF LeaveRestarts
<1>2. ~Installs(Act) /\ Offers(Act) /\ Act.op # "top"
  BY <1>1 DEF Installs, Offers
<1>3. RemovesFrame(handlers') /\ RemovesRestart(restarts')
  BY <1>1, <1>2, Left DEF LeaveRestarts
<1>4. CASE Failed /\ transfer = Act.id
  <2>1. PICK a : a = [Act EXCEPT !.phase = "handler"]
    OBVIOUS
  <2>2. Act \in RestartSet
    BY <1>1, Standing, Kinds
  <2>3. a \in RestartSet /\ a.op = "withRestarts" /\ a.phase = "handler"
    BY <1>1, <2>1, <2>2 DEF RestartSet
  <2>4. a \in Calls /\ ~Installs(a) /\ ~Offers(a)
    BY <2>3, OfKind DEF Installs, Offers
  <2>5. stack' = Turned(a) /\ flow' = Running
    BY <1>4, <2>1 DEF LeaveRestarts, Phase, Turned
  <2>6. RestOK'
    BY <1>4, Reached DEF LeaveRestarts
  <2> QED BY <1>2, <1>3, <2>3, <2>4, <2>5, <2>6, AfterTurn, FlowKinds
<1>5. CASE ~(Failed /\ transfer = Act.id)
  <2>1. Over /\ flow' = flow /\ RestOK'
    BY <1>1, <1>5 DEF LeaveRestarts, RestOK
  <2> QED BY <1>1, <1>2, <1>3, <2>1, AfterPop, FlowKinds
<1> QED BY <1>4, <1>5

\* The handler of a restart.
LEMMA LeaveRestartHandlerKeeps ==
    ASSUME IInv, LeaveRestartHandler
    PROVE  IInv'
<1>1. Act.op = "withRestarts" /\ Act.phase = "handler" /\ flow \in Outcomes
      /\ ~Signalling(Act) /\ RestOK
  BY LeavingIs DEF LeaveRestartHandler
<1>2. ~Installs(Act) /\ ~Offers(Act) /\ Act.op # "top"
  BY <1>1 DEF Installs, Offers
<1>3. RemovesFrame(handlers') /\ RemovesRestart(restarts')
  BY <1>1, <1>2, Left DEF LeaveRestartHandler
<1>4. Over /\ flow' \in Outcomes /\ RestOK'
  BY <1>1 DEF LeaveRestartHandler, RestOK
<1> QED BY <1>2, <1>3, <1>4, AfterPop, FlowKinds

\* A closure body.
LEMMA LeaveCallKeeps ==
    ASSUME IInv, LeaveCall
    PROVE  IInv'
<1>1. Act.op = "call" /\ flow \in Outcomes /\ ~Signalling(Act) /\ RestOK
  BY LeavingIs DEF LeaveCall
<1>2. ~Installs(Act) /\ ~Offers(Act) /\ Act.op # "top"
  BY <1>1 DEF Installs, Offers
<1>3. RemovesFrame(handlers') /\ RemovesRestart(restarts')
  BY <1>1, <1>2, Left DEF LeaveCall
<1>4. RestOK'
  BY <1>1 DEF LeaveCall, RestOK
<1>5. CASE Act.cleanup
  <2>1. PICK a : a = [Act EXCEPT !.phase = "on.exit", !.out = flow]
    OBVIOUS
  <2>2. Act \in CallSet
    BY <1>1, Standing, Kinds
  <2>3. a \in CallSet /\ a.op = "call"
    BY <1>1, <2>1, <2>2 DEF CallSet
  <2>4. a \in Calls /\ ~Installs(a) /\ ~Offers(a)
    BY <2>3, OfKind DEF Installs, Offers
  <2>5. stack' = Turned(a) /\ flow' = Running
    BY <1>5, <2>1 DEF LeaveCall, Phase, Turned
  <2> QED BY <1>2, <1>3, <1>4, <2>3, <2>4, <2>5, AfterTurn, FlowKinds
<1>6. CASE ~Act.cleanup
  <2>1. Over /\ flow' = flow
    BY <1>6 DEF LeaveCall
  <2> QED BY <1>1, <1>2, <1>3, <1>4, <2>1, AfterPop, FlowKinds
<1> QED BY <1>5, <1>6

\* An on.exit expression.
LEMMA LeaveOnExitKeeps ==
    ASSUME IInv, LeaveOnExit
    PROVE  IInv'
<1>1. Act.op = "call" /\ flow \in Outcomes /\ ~Signalling(Act) /\ RestOK
  BY LeavingIs DEF LeaveOnExit
<1>2. ~Installs(Act) /\ ~Offers(Act) /\ Act.op # "top"
  BY <1>1 DEF Installs, Offers
<1>3. RemovesFrame(handlers') /\ RemovesRestart(restarts')
  BY <1>1, <1>2, Left DEF LeaveOnExit
<1>4. Act.out \in Outcomes
  <2>1. Act \in CallSet
    BY <1>1, Standing, Kinds
  <2> QED BY <2>1 DEF CallSet
<1>5. Over /\ flow' \in Outcomes /\ RestOK'
  BY <1>1, <1>4 DEF LeaveOnExit, RestOK
<1> QED BY <1>2, <1>3, <1>5, AfterPop, FlowKinds

\* A signal's restart is the one that muffles it, if it has one.
LEMMA Muffled ==
    ASSUME IInv, Act.op = "signal", PopMuffle
    PROVE  RemovesRestart(restarts')
<1>1. Offers(Act) <=> Act.id # None
  BY DEF Offers
<1>2. PICK qs : qs = restarts'
  OBVIOUS
<1>3. qs = IF Offers(Act) THEN Front(restarts) ELSE restarts
  BY <1>1, <1>2 DEF PopMuffle
<1>4. RemovesRestart(qs)
  BY <1>3, RestartLeft
<1> QED BY <1>2, <1>4

\* A calling handler fails or transfers.
LEMMA HandlerFailsKeeps ==
    ASSUME IInv, HandlerFails
    PROVE  IInv'
<1>1. Act.op = "signal" /\ flow # Walking /\ flow \in Flows /\ Act.op # "top"
  BY FlowKinds, RestIs DEF HandlerFails, Failed, In
<1>2. Signalling(Act)
  <2>1. Len(stack) \in 1..Len(stack) /\ Act = stack[Len(stack)] /\ Act \in Calls
    BY Standing
  <2>2. Act.todo # 0
    BY <1>1, <2>1, WalkersBelow
  <2> QED BY <1>1, <2>1, <2>2, Offering
<1>3. RemovesFrame(handlers')
  BY <1>2, FramesRestored DEF HandlerFails
<1>4. RemovesRestart(restarts')
  BY <1>1, Muffled DEF HandlerFails
<1>5. CASE Act.id # None /\ transfer = Act.id
  <2>1. RestOK' /\ flow' = Running
    BY <1>5, Reached DEF HandlerFails
  <2> QED BY <1>1, <1>3, <1>4, <2>1, AfterPop, FlowKinds DEF HandlerFails
<1>6. CASE ~(Act.id # None /\ transfer = Act.id)
  <2>1. RestOK' /\ flow' = flow
    BY <1>6, RestIs DEF HandlerFails, RestOK
  <2> QED BY <1>1, <1>3, <1>4, <2>1, AfterPop DEF HandlerFails
<1> QED BY <1>5, <1>6

\* The innermost call while a walk goes on.
LEMMA WalkIs ==
    ASSUME IInv, Walk
    PROVE  /\ Act.op = "signal" /\ Act \in SignalSet /\ Act.todo = 0 /\ ~Signalling(Act)
           /\ ~Installs(Act) /\ Act.at \in 1..(Len(handlers) + 1)
           /\ flow = Walking /\ Act.op # "top"
<1>1. Act.op = "signal" /\ flow = Walking
  BY DEF Walk, In
<1>2. Act.todo = 0 /\ Act \in SignalSet
  BY <1>1, WalkersBelow, Standing, Kinds
<1>3. PICK n \in Nat \ {0} : n = Len(stack) /\ n \in 1..Len(stack) /\ stack[n] = Act
  <2>1. Len(stack) \in Nat \ {0} /\ Act = stack[Len(stack)]
    BY Standing
  <2>2. Len(stack) \in 1..Len(stack)
    BY <2>1
  <2> QED BY <2>1, <2>2
<1>4. WalkOf(stack, n)
  BY <1>3 DEF IInv, Shape, Stands
<1>5. Act.at \in 1..(Len(handlers) + 1)
  BY <1>1, <1>3, <1>4, Standing DEF WalkOf
<1> QED BY <1>1, <1>2, <1>5 DEF Signalling, Installs

\* A walk is over.
LEMMA WalkEndsKeeps ==
    ASSUME IInv, NEW j \in 0..Len(handlers), WalkEnds(j)
    PROVE  IInv'
<1>1. /\ Act.op = "signal" /\ Act \in SignalSet /\ ~Signalling(Act) /\ ~Installs(Act)
      /\ Act.op # "top"
  BY WalkIs DEF WalkEnds
<1>2. RemovesFrame(handlers')
  BY <1>1, Left DEF WalkEnds
<1>3. RemovesRestart(restarts')
  BY <1>1, Muffled DEF WalkEnds
<1>4. Act.cond \in Conds
  BY <1>1 DEF SignalSet
<1>5. flow' \in Flows /\ flow' # Walking
  <2>1. \A to \in 0..MaxStack : Err(Act.cond, to) \in Flows /\ Err(Act.cond, to) # Walking
    BY <1>4, FlowKinds
  <2>2. j \in 0..MaxStack /\ 0 \in 0..MaxStack
    BY Standing
  <2>3. flow' = Running \/ flow' = Err(Act.cond, j) \/ flow' = Err(Act.cond, 0)
    BY DEF WalkEnds
  <2> QED BY <2>1, <2>2, <2>3, FlowKinds
<1>6. RestOK'
  <2>1. record' \in Record
    <3>1. record \in Record
      BY RestIs DEF RestOK
    <3>2. ClassesOf(Act.cond) \in SUBSET Classes
      BY <1>4 DEF ClassesOf, Conds, Classes
    <3>3. [classes |-> ClassesOf(Act.cond),
           object  |-> IF IsObject(Act.cond) THEN Act.cond ELSE None] \in Record
      BY <1>4, <3>2 DEF Record
    <3> QED BY <3>1, <3>3 DEF WalkEnds
  <2> QED BY <2>1, RestIs DEF WalkEnds, RestOK
<1>7. Over
  BY DEF WalkEnds
<1> QED BY <1>1, <1>2, <1>3, <1>5, <1>6, <1>7, AfterPop

\* The innermost call signals on, at another frame or with another handler.
LEMMA AfterWalk ==
    ASSUME IInv, Act.op = "signal", NEW a \in SignalSet, a.op = "signal", a.id = Act.id,
           stack' = Turned(a), UNCHANGED restarts,
           handlers' \in Seq(HandlerFrame), Len(handlers') = Len(handlers),
           \A i \in 1..Len(handlers) : Agree(handlers, handlers', i),
           a.at \in 1..(Len(handlers) + 1),
           a.todo = 0 => a.saved = <<>>,
           a.todo > 0 =>
               /\ a.at <= Len(handlers)
               /\ Len(a.saved) = Len(handlers) + 1 - a.at
               /\ \A i \in 1..Len(a.saved) :
                      a.saved[i] <=> Off(stack, Len(stack) - 1, a.at + i - 1),
           \A i \in 1..Len(handlers) : handlers'[i].disabled <=>
               Off(stack, Len(stack) - 1, i) \/ (a.todo > 0 /\ a.at <= i),
           flow' \in Flows, flow' = Walking <=> a.todo = 0, RestOK'
    PROVE  IInv'
<1>1. Act.op # "top" /\ a \in Calls /\ a.todo \in Nat
  BY OfKind DEF SignalSet
<1>2. PICK m \in Nat \ {0} : m = Len(stack) - 1 /\ Len(stack) = m + 1 /\ m \in 1..Len(stack)
  BY <1>1, FewerFrames
<1>3. PICK t : t = stack'
  OBVIOUS
<1>4. t \in Seq(Calls) /\ Len(t) = m + 1 /\ t[m + 1] = a /\ \A l \in 1..m : stack[l] = t[l]
  <2>1. t = Turned(a)
    BY <1>3
  <2>2. /\ t \in Seq(Calls) /\ Len(t) = Len(stack) /\ t[Len(stack)] = a
        /\ \A l \in 1..(Len(stack) - 1) : t[l] = stack[l]
    BY <1>1, <2>1, TurnIs
  <2> QED BY <1>2, <2>2
<1>5. PICK gs, qs : gs = handlers' /\ qs = restarts'
  OBVIOUS
<1>6. PICK n \in Nat : n = Len(handlers) /\ n = Frames(stack, m) /\ Frames(t, m + 1) = n
  <2>1. ~Installs(Act) /\ ~Installs(t[m + 1])
    BY <1>4 DEF Installs
  <2>2. Len(handlers) = Frames(stack, m) /\ Frames(stack, m) \in Nat
    BY <1>1, <1>2, <2>1, FewerFrames
  <2>3. m \in 0..m /\ \A l \in 1..m : stack[l] = t[l]
    BY <1>4
  <2>4. Frames(stack, m) = Frames(t, m)
    BY ONLY <2>3, m \in Nat, FramesSame
  <2>5. Frames(t, m + 1) = Frames(t, m)
    BY <2>1, FrameStep
  <2> QED BY <2>2, <2>4, <2>5
<1>7. Len(qs) = Groups(t, m + 1) /\ \A i \in 1..Groups(stack, m) : restarts[i] = qs[i]
  <2>1. m \in 0..m /\ stack[m + 1] = Act /\ \A l \in 1..m : stack[l] = t[l]
    BY <1>2, <1>4, Standing
  <2>2. Groups(stack, m) = Groups(t, m)
    BY ONLY <2>1, m \in Nat, FramesSame
  <2>3. Offers(stack[m + 1]) <=> Offers(t[m + 1])
    BY <1>4, <2>1 DEF Offers
  <2>4. Groups(stack, m + 1) = Groups(t, m + 1)
    BY <2>2, <2>3, FrameStep
  <2>5. Len(restarts) = Groups(stack, m + 1)
    BY <1>2, Standing
  <2> QED BY <1>5, <2>4, <2>5
<1>8. DisabledAs(t, gs)
  <2>1. SUFFICES ASSUME NEW i \in 1..n PROVE gs[i].disabled <=> Off(t, m + 1, i)
    BY <1>4, <1>5, <1>6 DEF DisabledAs
  <2>2. gs[i].disabled <=> Off(stack, m, i) \/ (a.todo > 0 /\ a.at <= i)
    BY <1>2, <1>5, <1>6
  <2>3. Off(stack, m, i) <=> Off(t, m, i)
    <3>1. m \in 0..m
      OBVIOUS
    <3> QED BY <1>4, <3>1, OffSame
  <2>4. Signalling(t[m + 1]) <=> a.todo > 0
    BY <1>4 DEF Signalling
  <2>5. Off(t, m + 1, i) <=> Off(t, m, i) \/ (a.todo > 0 /\ a.at <= i)
    <3>1. i <= Frames(t, m + 1)
      BY <1>6
    <3> QED BY <1>4, <2>4, <3>1, OffStep
  <2> QED BY <2>2, <2>3, <2>5
<1>9. Stands(t, gs, qs, m + 1)
  <2>1. FrameOf(t, gs, m + 1)
    BY <1>4 DEF FrameOf, Installs
  <2>2. GroupOf(t, qs, m + 1)
    <3>1. SUFFICES ASSUME Offers(t[m + 1]) PROVE qs[Groups(t, m + 1)] = t[m + 1].id
      BY DEF GroupOf
    <3>2. Offers(stack[m + 1]) /\ stack[m + 1] = Act
      BY <1>2, <1>4, <3>1, Standing DEF Offers
    <3>3. GroupOf(stack, restarts, m + 1)
      <4>1. m + 1 \in 1..Len(stack)
        BY <1>2
      <4> QED BY <4>1 DEF IInv, Shape, Stands
    <3>4. restarts[Groups(stack, m + 1)] = Act.id
      BY <3>2, <3>3 DEF GroupOf
    <3>5. Groups(stack, m + 1) = Groups(t, m + 1)
      BY <1>2, <1>5, <1>7, Standing
    <3> QED BY <1>4, <1>5, <3>4, <3>5
  <2>3. WalkOf(t, m + 1)
    <3>1. \A j : Off(stack, m, j) <=> Off(t, m, j)
      <4>1. ASSUME NEW j PROVE Off(stack, m, j) <=> Off(t, m, j)
        <5>1. m \in 0..m
          OBVIOUS
        <5> QED BY <1>4, <5>1, OffSame
      <4> QED BY <4>1
    <3>2. PICK k : k = m + 1 /\ k - 1 = m
      OBVIOUS
    <3>3. Frames(t, k) = n /\ t[k] = a
      BY <1>4, <1>6, <3>2
    <3>4. a.todo > 0 =>
              \A i \in 1..Len(a.saved) : a.saved[i] <=> Off(t, m, a.at + i - 1)
      BY <1>2, <3>1
    <3>5. WalkOf(t, k)
      <4>1. t[k].at \in 1..(Frames(t, k) + 1)
        BY <1>6, <3>3
      <4>2. t[k].todo = 0 => t[k].saved = <<>>
        BY <3>3
      <4>3. t[k].todo > 0 =>
                t[k].at <= Frames(t, k) /\ Len(t[k].saved) = Frames(t, k) + 1 - t[k].at
        BY <1>6, <3>3
      <4>4. t[k].todo > 0 =>
                \A i \in 1..Len(t[k].saved) : t[k].saved[i] <=> Off(t, k - 1, t[k].at + i - 1)
        BY <3>2, <3>3, <3>4
      <4> QED BY <4>1, <4>2, <4>3, <4>4 DEF WalkOf
    <3> QED BY <3>2, <3>5
  <2> QED BY <2>1, <2>2, <2>3 DEF Stands
<1>10. Shape(t, gs, qs)
  <2>1. \A i \in 1..Frames(stack, m) : Agree(handlers, gs, i)
    BY <1>5, <1>6
  <2>2. t[m + 1].op # "top"
    BY <1>4
  <2>3. Len(gs) = Frames(t, Len(t)) /\ Len(qs) = Groups(t, Len(t))
    BY <1>4, <1>5, <1>6, <1>7
  <2> QED BY <1>2, <1>4, <1>7, <1>8, <1>9, <2>1, <2>2, <2>3, StepTo
<1>11. Walkers(t, flow')
  <2>1. \A k \in 1..m : t[k].op = "signal" => t[k].todo # 0 /\ k # Len(t)
    <3>1. SUFFICES ASSUME NEW k \in 1..m, t[k].op = "signal"
                   PROVE  t[k].todo # 0 /\ k # Len(t)
      OBVIOUS
    <3>2. t[k] = stack[k] /\ k \in 1..Len(stack) /\ k < Len(stack) /\ k # Len(t)
      BY <1>2, <1>4
    <3> QED BY <3>1, <3>2, WalkersBelow
  <2>2. \A k \in 1..Len(t) : k \in 1..m \/ k = m + 1
    BY <1>4
  <2> QED BY <1>4, <2>1, <2>2 DEF Walkers
<1>12. TypeOK'
  <2>1. Len(t) \in 1..MaxStack
    BY <1>2, <1>4, Standing
  <2>2. restarts' \in Seq(Ids)
    BY Standing
  <2> QED BY <1>3, <1>4, <2>1, <2>2 DEF TypeOK, RestOK
<1> QED BY <1>3, <1>5, <1>10, <1>11, <1>12 DEF IInv

\* How many of a frame's handlers are for a condition.
LEMMA MatchesCount ==
    ASSUME NEW f, f.on \in Seq(Classes), NEW c
    PROVE  /\ Cardinality(Matches(f, c)) \in Nat
           /\ Matches(f, c) # {} => Cardinality(Matches(f, c)) # 0
<1>1. PICK M : M = Matches(f, c)
  OBVIOUS
<1>2. M \in SUBSET (1..Len(f.on)) /\ Len(f.on) \in Nat
  <2>1. DOMAIN f.on = 1..Len(f.on) /\ Len(f.on) \in Nat
    BY LenProperties
  <2> QED BY <1>1, <2>1 DEF Matches
<1>3. IsFiniteSet(M)
  <2>1. IsFiniteSet(1..Len(f.on))
    BY <1>2, FS_Interval
  <2> QED BY <1>2, <2>1, FS_Subset
<1>4. Cardinality(M) \in Nat /\ (Cardinality(M) = 0 <=> M = {})
  BY <1>3, FS_CardinalityType, FS_EmptySet
<1> QED BY <1>1, <1>4

\* The handlers of a frame are for classes.
LEMMA FrameLists ==
    ASSUME NEW f \in HandlerFrame
    PROVE  f.on \in Seq(Classes) /\ f.disabled \in BOOLEAN
<1>1. f.on \in HandlerLists \cup {<<>>} /\ f.disabled \in BOOLEAN
  BY DEF HandlerFrame
<1>2. <<>> \in Seq(Classes)
  BY EmptySeq
<1> QED BY <1>1, <1>2, ConditionsAssumption

\* A calling handler runs.
LEMMA RunCallingKeeps ==
    ASSUME IInv, NEW j \in 1..Len(handlers), RunCalling(j)
    PROVE  IInv'
<1>1. /\ Act.op = "signal" /\ Act \in SignalSet /\ Act.todo = 0 /\ ~Signalling(Act)
      /\ Act.at \in 1..(Len(handlers) + 1) /\ Act.op # "top"
  BY WalkIs DEF RunCalling
<1>2. PICK n \in Nat : n = Len(handlers) /\ DOMAIN handlers = 1..n /\ j \in 1..n
  BY Standing
<1>3. PICK m \in Nat \ {0} : m = Len(stack) - 1 /\ Len(stack) = m + 1
  BY <1>1, FewerFrames
<1>4. PICK todo : todo = Cardinality(Matches(handlers[j], Act.cond))
  OBVIOUS
<1>5. todo \in Nat /\ todo # 0
  <2>1. handlers[j] \in HandlerFrame
    BY Standing
  <2>2. Matches(handlers[j], Act.cond) # {}
    BY DEF RunCalling, Nearest, Answers
  <2> QED BY <1>4, <2>1, <2>2, FrameLists, MatchesCount
<1>6. PICK saved : saved = [k \in 1..(n + 1 - j) |-> handlers[j + k - 1].disabled]
  OBVIOUS
<1>7. \A i \in 1..n : handlers[i].disabled <=> Off(stack, m, i)
  <2>1. SUFFICES ASSUME NEW i \in 1..n PROVE handlers[i].disabled <=> Off(stack, m, i)
    OBVIOUS
  <2>2. handlers[i].disabled <=> Off(stack, m + 1, i)
    BY <1>2, <1>3 DEF IInv, Shape, DisabledAs
  <2>3. stack[m + 1] = Act
    BY <1>3, Standing
  <2> QED BY <1>1, <2>2, <2>3, OffStep
<1>8. /\ saved \in Seq(BOOLEAN) /\ Len(saved) = n + 1 - j
      /\ \A i \in 1..Len(saved) : saved[i] <=> Off(stack, m, j + i - 1)
  <2>1. n + 1 - j \in Nat /\ \A i \in 1..(n + 1 - j) : j + i - 1 \in 1..n
    BY <1>2
  <2>2. \A i \in 1..n : handlers[i].disabled \in BOOLEAN
    BY <1>2, Standing, FrameLists
  <2>3. saved \in [1..(n + 1 - j) -> BOOLEAN]
    BY <1>6, <2>1, <2>2
  <2>4. saved \in Seq(BOOLEAN) /\ Len(saved) = n + 1 - j
    <3>1. saved \in Seq(BOOLEAN)
      BY <2>1, <2>3
    <3> QED BY <2>1, <2>3, <3>1, LenProperties
  <2>5. \A i \in 1..(n + 1 - j) : saved[i] = handlers[j + i - 1].disabled
    BY <1>6
  <2> QED BY <1>7, <2>1, <2>4, <2>5
<1>9. PICK a : a = [Act EXCEPT !.at = j, !.todo = todo, !.saved = saved]
  OBVIOUS
<1>10. /\ a \in SignalSet /\ a.op = "signal" /\ a.id = Act.id /\ a.at = j
       /\ a.todo = todo /\ a.saved = saved
  <2>1. j \in 1..MaxStack + 1
    BY <1>2, Standing
  <2> QED BY <1>1, <1>5, <1>8, <1>9, <2>1 DEF SignalSet
<1>11. stack' = Turned(a)
  BY <1>2, <1>4, <1>6, <1>9 DEF RunCalling, Phase, Turned
<1>12. PICK gs : gs = handlers'
  OBVIOUS
<1>13. gs = [k \in 1..n |-> [handlers[k] EXCEPT !.disabled = @ \/ k >= j]]
  BY <1>2, <1>12 DEF RunCalling, DisabledFrom
<1>14. \A i \in 1..n : /\ gs[i] \in HandlerFrame /\ Agree(handlers, gs, i)
                       /\ gs[i].disabled <=> Off(stack, m, i) \/ j <= i
  <2>1. SUFFICES ASSUME NEW i \in 1..n
                 PROVE  /\ gs[i] \in HandlerFrame /\ Agree(handlers, gs, i)
                        /\ gs[i].disabled <=> Off(stack, m, i) \/ j <= i
    OBVIOUS
  <2>2. PICK f : f = handlers[i]
    OBVIOUS
  <2>3. f \in HandlerFrame
    BY <1>2, <2>2, Standing
  <2>4. PICK b \in BOOLEAN : b = (f.disabled \/ i >= j)
    OBVIOUS
  <2>5. gs[i] = [f EXCEPT !.disabled = b]
    BY <1>13, <2>2, <2>4
  <2>6. i >= j <=> j <= i
    OBVIOUS
  <2>7. /\ gs[i] \in HandlerFrame /\ gs[i].disabled = b /\ gs[i].on = f.on
        /\ gs[i].calling = f.calling /\ gs[i].muffle = f.muffle
    BY <2>3, <2>5 DEF HandlerFrame
  <2> QED BY <1>7, <2>2, <2>4, <2>6, <2>7 DEF Agree
<1>15. gs \in Seq(HandlerFrame) /\ Len(gs) = n
  <2>1. gs \in [1..n -> HandlerFrame]
    BY <1>13, <1>14
  <2>2. gs \in Seq(HandlerFrame)
    BY <2>1
  <2> QED BY <2>1, <2>2, LenProperties
<1>16. a.at \in 1..(Len(handlers) + 1) /\ a.at <= Len(handlers)
  BY <1>2, <1>10
<1>17. a.todo # 0 /\ a.todo > 0
  <2>1. todo > 0
    BY <1>5
  <2> QED BY <1>5, <1>10, <2>1
<1>18. /\ Len(a.saved) = Len(handlers) + 1 - a.at
       /\ \A i \in 1..Len(a.saved) : a.saved[i] <=> Off(stack, Len(stack) - 1, a.at + i - 1)
  BY <1>2, <1>3, <1>8, <1>10
<1>19. /\ handlers' \in Seq(HandlerFrame) /\ Len(handlers') = Len(handlers)
       /\ \A i \in 1..Len(handlers) : Agree(handlers, handlers', i)
       /\ \A i \in 1..Len(handlers) : handlers'[i].disabled <=>
              Off(stack, Len(stack) - 1, i) \/ (a.todo > 0 /\ a.at <= i)
  BY <1>2, <1>3, <1>10, <1>12, <1>14, <1>15, <1>17
<1>20. flow' = Running /\ UNCHANGED restarts /\ RestOK'
  BY RestIs DEF RunCalling, RestOK
<1>21. flow' \in Flows /\ (flow' = Walking <=> a.todo = 0)
  BY <1>17, <1>20, FlowKinds
<1> QED BY <1>1, <1>10, <1>11, <1>16, <1>17, <1>18, <1>19, <1>20, <1>21, AfterWalk

\* A calling handler returns.
LEMMA HandlerReturnsKeeps ==
    ASSUME IInv, HandlerReturns
    PROVE  IInv'
<1>1. Act.op = "signal" /\ flow = Running /\ Act.op # "top" /\ Act \in SignalSet
  BY Standing, Kinds DEF HandlerReturns, In
<1>2. PICK m \in Nat \ {0} : m = Len(stack) - 1 /\ Len(stack) = m + 1
  BY <1>1, FewerFrames
<1>3. PICK n \in Nat : n = Len(handlers) /\ n = Frames(stack, m) /\ n = Frames(stack, m + 1)
  <2>1. ~Installs(Act)
    BY <1>1 DEF Installs
  <2> QED BY <1>1, <1>2, <2>1, FewerFrames, Standing
<1>4. stack[m + 1] = Act /\ m + 1 \in 1..Len(stack)
  BY <1>2, Standing
<1>5. Act.todo \in Nat /\ Act.todo # 0 /\ Signalling(Act)
  <2>1. Act.todo # 0
    BY <1>1, <1>4, WalkersBelow, FlowKinds
  <2> QED BY <1>1, <2>1, Standing, Offering
<1>6. /\ Act.at \in 1..(n + 1) /\ Act.at <= n
      /\ Len(Act.saved) = n + 1 - Act.at
      /\ \A i \in 1..Len(Act.saved) : Act.saved[i] <=> Off(stack, m, Act.at + i - 1)
  <2>1. PICK k : k = m + 1 /\ k - 1 = m
    OBVIOUS
  <2>2. WalkOf(stack, k)
    BY <1>4, <2>1 DEF IInv, Shape, Stands
  <2>3. Act.todo > 0
    BY <1>5
  <2>4. stack[k] = Act /\ Frames(stack, k) = n
    BY <1>3, <1>4, <2>1
  <2> QED BY <1>1, <2>1, <2>2, <2>3, <2>4 DEF WalkOf
<1>7. RestOK' /\ UNCHANGED restarts
  BY RestIs DEF HandlerReturns, RestOK
<1>8. CASE Act.todo > 1
  <2>1. PICK a : a = [Act EXCEPT !.todo = @ - 1]
    OBVIOUS
  <2>2. Act.todo - 1 \in Nat /\ Act.todo - 1 # 0
    BY <1>5, <1>8
  <2>3. /\ a \in SignalSet /\ a.op = "signal" /\ a.id = Act.id /\ a.at = Act.at
        /\ a.todo = Act.todo - 1 /\ a.saved = Act.saved
    BY <1>1, <2>1, <2>2 DEF SignalSet
  <2>4. stack' = Turned(a) /\ handlers' = handlers /\ flow' = Running
    BY <1>1, <1>8, <2>1 DEF HandlerReturns, Phase, Turned
  <2>5. a.todo # 0 /\ a.todo > 0
    <3>1. PICK x \in Nat \ {0} : x = Act.todo - 1
      BY <2>2
    <3>2. x > 0
      OBVIOUS
    <3> QED BY <2>3, <3>1, <3>2
  <2>6. /\ handlers' \in Seq(HandlerFrame) /\ Len(handlers') = Len(handlers)
        /\ \A i \in 1..Len(handlers) : Agree(handlers, handlers', i)
    BY <2>4, Standing DEF Agree
  <2>7. \A i \in 1..Len(handlers) : handlers'[i].disabled <=>
            Off(stack, Len(stack) - 1, i) \/ (a.todo > 0 /\ a.at <= i)
    <3>1. SUFFICES ASSUME NEW i \in 1..n
                   PROVE  handlers[i].disabled <=> Off(stack, m, i) \/ Act.at <= i
      BY <1>2, <1>3, <2>3, <2>4, <2>5
    <3>2. handlers[i].disabled <=> Off(stack, m + 1, i)
      BY <1>2, <1>3 DEF IInv, Shape, DisabledAs
    <3>3. i <= Frames(stack, m + 1)
      BY <1>3
    <3> QED BY <1>4, <1>5, <3>2, <3>3, OffStep
  <2>8. /\ a.at \in 1..(Len(handlers) + 1) /\ a.at <= Len(handlers)
        /\ Len(a.saved) = Len(handlers) + 1 - a.at
        /\ \A i \in 1..Len(a.saved) : a.saved[i] <=> Off(stack, Len(stack) - 1, a.at + i - 1)
    BY <1>2, <1>3, <1>6, <2>3
  <2>9. flow' \in Flows /\ (flow' = Walking <=> a.todo = 0)
    BY <2>4, <2>5, FlowKinds
  <2> QED BY <1>1, <1>7, <2>3, <2>4, <2>5, <2>6, <2>7, <2>8, <2>9, AfterWalk
<1>9. CASE ~(Act.todo > 1)
  <2>1. PICK a : a = [Act EXCEPT !.todo = 0, !.saved = <<>>]
    OBVIOUS
  <2>2. <<>> \in Seq(BOOLEAN) /\ 0 \in Nat
    BY EmptySeq
  <2>3. /\ a \in SignalSet /\ a.op = "signal" /\ a.id = Act.id /\ a.at = Act.at
        /\ a.todo = 0 /\ a.saved = <<>>
    BY <1>1, <2>1, <2>2 DEF SignalSet
  <2>4. stack' = Turned(a) /\ handlers' = Restored /\ flow' = Walking
    BY <1>9, <2>1 DEF HandlerReturns, Phase, Turned
  <2>5. RemovesFrame(handlers')
    BY <1>5, <2>4, FramesRestored
  <2>6. ~(a.todo > 0)
    BY <2>3
  <2>7. /\ handlers' \in Seq(HandlerFrame) /\ Len(handlers') = Len(handlers)
        /\ \A i \in 1..Len(handlers) : Agree(handlers, handlers', i)
        /\ \A i \in 1..Len(handlers) : handlers'[i].disabled <=>
               Off(stack, Len(stack) - 1, i) \/ (a.todo > 0 /\ a.at <= i)
    BY <1>2, <1>3, <2>5, <2>6 DEF RemovesFrame
  <2>8. a.at \in 1..(Len(handlers) + 1)
    BY <1>3, <1>6, <2>3
  <2>9. flow' \in Flows /\ (flow' = Walking <=> a.todo = 0)
    BY <2>3, <2>4, FlowKinds
  <2> QED BY <1>1, <1>7, <2>3, <2>4, <2>6, <2>7, <2>8, <2>9, AfterWalk
<1> QED BY <1>8, <1>9

\* A program starts with nothing but its top level.
LEMMA InitKeeps == Init => IInv
<1> SUFFICES ASSUME Init PROVE IInv
  OBVIOUS
<1>1. PICK p \in Programs : stack = <<[op |-> "top", phase |-> "body", program |-> p]>>
  BY DEF Init
<1>2. PICK a : a = [op |-> "top", phase |-> "body", program |-> p]
  OBVIOUS
<1>3. a \in TopSet /\ a.op = "top"
  BY <1>2 DEF TopSet
<1>4. a \in Calls /\ ~Installs(a) /\ ~Offers(a)
  BY <1>3, OfKind DEF Installs, Offers
<1>5. /\ stack = <<a>> /\ stack \in Seq(Calls) /\ Len(stack) = 1 /\ stack[1] = a
      /\ \A k \in 1..Len(stack) : k = 1
  BY <1>1, <1>2, <1>4
<1>6. handlers = <<>> /\ restarts = <<>> /\ Len(handlers) = 0 /\ Len(restarts) = 0
  BY DEF Init
<1>7. handlers \in Seq(HandlerFrame) /\ restarts \in Seq(Ids)
  BY <1>6, EmptySeq
<1>8. TypeOK
  <2>1. Len(stack) \in 1..MaxStack /\ nextId \in 0..MaxIds
    BY <1>5, ConditionsAssumption DEF Init
  <2>2. NoRecord \in Record
    BY DEF NoRecord, Record
  <2> QED BY <1>5, <1>7, <2>1, <2>2, FlowKinds DEF TypeOK, Init
<1>9. Frames(stack, 1) = 0 /\ Groups(stack, 1) = 0
  <2>1. PICK z \in Nat : z = 0 /\ z + 1 = 1
    OBVIOUS
  <2>2. /\ Frames(stack, z) \in Nat /\ Frames(stack, z) <= z
        /\ Groups(stack, z) \in Nat /\ Groups(stack, z) <= z
        /\ Frames(stack, z + 1) = Frames(stack, z)
        /\ Groups(stack, z + 1) = Groups(stack, z)
    BY <1>4, <1>5, <2>1, FrameStep
  <2> QED BY <2>1, <2>2
<1>10. Shape(stack, handlers, restarts)
  <2>1. Stands(stack, handlers, restarts, 1)
    BY <1>3, <1>4, <1>5 DEF Stands, FrameOf, GroupOf, WalkOf
  <2>2. DisabledAs(stack, handlers)
    BY <1>6 DEF DisabledAs
  <2> QED BY <1>3, <1>5, <1>6, <1>9, <2>1, <2>2 DEF Shape
<1>11. Walkers(stack, flow)
  BY <1>3, <1>5, FlowKinds DEF Walkers, Init
<1> QED BY <1>8, <1>10, <1>11 DEF IInv

\* Every step keeps the invariant.
LEMMA NextKeeps == IInv /\ [Next]_vars => IInv'
<1> SUFFICES ASSUME IInv, [Next]_vars PROVE IInv'
  OBVIOUS
<1>1. CASE \E on \in HandlerLists, finally \in BOOLEAN : TryCatch(on, finally)
  BY <1>1, TryCatchKeeps
<1>2. CASE \E on \in HandlerLists : WithCallingHandlers(on)
  BY <1>2, WithCallingHandlersKeeps
<1>3. CASE SuppressWarnings \/ Try \/ WithRestarts
  BY <1>3, SuppressWarningsKeeps, TryKeeps, WithRestartsKeeps
<1>4. CASE \E exit \in BOOLEAN : Call(exit)
  BY <1>4, CallKeeps
<1>5. CASE \E id \in Ids \cup {Abort} : InvokeRestart(id)
  BY <1>5, FlowKeeps
<1>6. CASE \E s \in Signals : Signal(s[1], s[2])
  BY <1>6, SignalKeeps
<1>7. CASE Fail \/ NextStatement
  BY <1>7, FlowKeeps
<1>8. CASE \E j \in 1..Len(handlers) : RunCalling(j)
  BY <1>8, RunCallingKeeps
<1>9. CASE \E j \in 0..Len(handlers) : WalkEnds(j)
  BY <1>9, WalkEndsKeeps
<1>10. CASE HandlerReturns
  BY <1>10, HandlerReturnsKeeps
<1>11. CASE Leave
  BY <1>11, LeaveHandlersKeeps, LeaveTryBodyKeeps, LeaveTryHandlerKeeps, LeaveFinallyKeeps,
     LeaveTryKeeps, LeaveRestartsKeeps, LeaveRestartHandlerKeeps, LeaveCallKeeps,
     LeaveOnExitKeeps, HandlerFailsKeeps DEF Leave
<1>12. CASE UNCHANGED vars
  <2>1. /\ stack' = stack /\ flow' = flow /\ handlers' = handlers /\ restarts' = restarts
        /\ nextId' = nextId /\ transfer' = transfer /\ record' = record
    BY <1>12 DEF vars
  <2>2. TypeOK'
    BY <2>1 DEF IInv, TypeOK
  <2> QED BY <2>1, <2>2 DEF IInv
<1> QED BY <1>1, <1>2, <1>3, <1>4, <1>5, <1>6, <1>7, <1>8, <1>9, <1>10, <1>11, <1>12
    DEF Next

\* However deep calls nest and however they are left, the state keeps its type.
THEOREM TypeCorrect == Spec => []TypeOK
<1>1. IInv => TypeOK
  BY DEF IInv
<1> QED BY <1>1, InitKeeps, NextKeeps, PTL DEF Spec

\* The host's stacks are those of the calls in progress.
LEMMA StacksAre ==
    ASSUME IInv
    PROVE  StacksKept
<1>1. PICK n \in Nat \ {0} : n = Len(stack) /\ DOMAIN stack = 1..n
  BY Standing
<1>2. Handling = {l \in 1..n : Installs(stack[l])}
  BY <1>1 DEF Handling, Installs
<1>3. Restarting = {l \in 1..n : Offers(stack[l])}
  BY <1>1 DEF Restarting, Offers
<1>4. \A k \in 1..n : Rank(Handling, k) = Frames(stack, k) /\ Rank(Restarting, k) = Groups(stack, k)
  <2>1. SUFFICES ASSUME NEW k \in 1..n
                 PROVE  Rank(Handling, k) = Frames(stack, k) /\ Rank(Restarting, k) = Groups(stack, k)
    OBVIOUS
  <2>2. {l \in Handling : l <= k} = {l \in 1..k : Installs(stack[l])}
    BY <1>2
  <2>3. {l \in Restarting : l <= k} = {l \in 1..k : Offers(stack[l])}
    BY <1>3
  <2> QED BY <2>2, <2>3 DEF Rank, Frames, Groups
<1>5. Len(handlers) = Cardinality(Handling) /\ Len(restarts) = Cardinality(Restarting)
  BY <1>1, <1>2, <1>3, Standing DEF Frames, Groups
<1>6. \A k \in 1..n : Stands(stack, handlers, restarts, k)
  BY <1>1 DEF IInv, Shape
<1>7. \A k \in Handling : handlers[Rank(Handling, k)].calling = (stack[k].op # "tryCatch")
  BY <1>2, <1>4, <1>6 DEF Stands, FrameOf
<1>8. \A k \in Restarting : restarts[Rank(Restarting, k)] = stack[k].id
  BY <1>3, <1>4, <1>6 DEF Stands, GroupOf
<1>9. \A j : Off(stack, n, j) <=>
          \E k \in HandlersRunning : stack[k].at <= j /\ j <= Frames(stack, k)
  BY <1>1 DEF Off, HandlersRunning, Signalling
<1>10. \A k \in HandlersRunning :
           stack[k].at \in Nat /\ stack[k].at + Len(stack[k].saved) - 1 = Frames(stack, k)
  <2>1. SUFFICES ASSUME NEW k \in HandlersRunning
                 PROVE  /\ stack[k].at \in Nat
                        /\ stack[k].at + Len(stack[k].saved) - 1 = Frames(stack, k)
    OBVIOUS
  <2>2. k \in 1..n /\ stack[k].op = "signal" /\ stack[k].todo > 0 /\ k \in Nat
    BY <1>1 DEF HandlersRunning
  <2>3. /\ stack[k].at \in 1..(Frames(stack, k) + 1)
        /\ Len(stack[k].saved) = Frames(stack, k) + 1 - stack[k].at
    BY <1>6, <2>2 DEF Stands, WalkOf
  <2>4. Frames(stack, k) \in Nat
    BY <2>2, FrameStep
  <2> QED BY <2>3, <2>4
<1>11. DisabledInside
  <2>1. SUFFICES ASSUME NEW j \in 1..Len(handlers)
                 PROVE  handlers[j].disabled <=>
                            \E k \in HandlersRunning :
                                j \in stack[k].at..stack[k].at + Len(stack[k].saved) - 1
    BY Standing DEF DisabledInside
  <2>2. handlers[j].disabled <=> Off(stack, n, j)
    BY <1>1 DEF IInv, Shape, DisabledAs
  <2>3. \A k \in HandlersRunning :
            j \in stack[k].at..stack[k].at + Len(stack[k].saved) - 1
            <=> stack[k].at <= j /\ j <= Frames(stack, k)
    <3>1. SUFFICES ASSUME NEW k \in HandlersRunning
                   PROVE  j \in stack[k].at..stack[k].at + Len(stack[k].saved) - 1
                          <=> stack[k].at <= j /\ j <= Frames(stack, k)
      OBVIOUS
    <3>2. PICK x \in Nat : x = stack[k].at
      BY <1>10
    <3>3. PICK y : y = Frames(stack, k) /\ y = x + Len(stack[k].saved) - 1
      BY <1>10, <3>2
    <3>4. y \in Nat /\ j \in Nat
      <4>1. k \in Nat
        BY <1>1 DEF HandlersRunning
      <4>2. Frames(stack, k) \in Nat
        BY <4>1, FrameStep
      <4>3. Len(handlers) \in Nat
        BY Standing
      <4> QED BY <3>3, <4>2, <4>3
    <3> QED BY <3>2, <3>3, <3>4
  <2> QED BY <1>9, <2>2, <2>3
<1> QED BY <1>5, <1>7, <1>8, <1>11 DEF StacksKept, Balanced

\* However calls are left, by a value, an error or a transfer, the handler and restart
\* stacks hold what the calls in progress established, in their order, and a frame is
\* disabled exactly while a handler of it or of one outside it runs.
THEOREM HostStacksKept == Spec => []StacksKept
BY StacksAre, InitKeeps, NextKeeps, PTL DEF Spec

\* Entering a call and turning to another phase leave no call.
LEMMA NoCallLeft ==
    ASSUME TypeOK, NEW a,
           \/ stack' = Append(stack, a)
           \/ stack' = [stack EXCEPT ![Len(stack)] = a]
           \/ stack' = stack
    PROVE  ~(Len(stack') < Len(stack))
<1>1. stack \in Seq(Calls) /\ Len(stack) \in 1..Len(stack) /\ Len(stack) \in Nat
  BY DEF TypeOK
<1>2. PICK T : T = Calls \cup {a}
  OBVIOUS
<1>3. stack \in Seq(T) /\ a \in T
  BY <1>1, <1>2, SeqMonotonic
<1>4. CASE stack' = Append(stack, a)
  <2>1. Len(stack') = Len(stack) + 1
    BY <1>3, <1>4, AppendProperties
  <2> QED BY <1>1, <2>1
<1>5. CASE stack' = [stack EXCEPT ![Len(stack)] = a]
  <2>1. Len(stack') = Len(stack)
    BY <1>1, <1>3, <1>5, ExceptSeq
  <2> QED BY <1>1, <2>1
<1>6. CASE stack' = stack
  BY <1>1, <1>6
<1> QED BY <1>4, <1>5, <1>6

\* A call that has a cleanup is not left before it runs it.
LEMMA CleanupFirst ==
    ASSUME TypeOK, Next, Len(stack') < Len(stack),
           Act.op \in {"tryCatch", "call"}, Act.cleanup
    PROVE  Act.phase \in {"finally", "on.exit"}
<1>1. \A a : /\ stack' # Append(stack, a) /\ stack' # stack
             /\ stack' # [stack EXCEPT ![Len(stack)] = a]
  BY NoCallLeft
<1>2. ~(\E a : Enter(a)) /\ ~(\E a : Phase(a)) /\ stack' # stack
  BY <1>1 DEF Enter, Phase
<1>3. ~(\E on \in HandlerLists, finally \in BOOLEAN : TryCatch(on, finally))
  BY <1>2 DEF TryCatch
<1>4. ~(\E on \in HandlerLists : WithCallingHandlers(on))
  BY <1>2 DEF WithCallingHandlers
<1>5. ~SuppressWarnings /\ ~Try /\ ~WithRestarts
  BY <1>2 DEF SuppressWarnings, Try, WithRestarts
<1>6. ~(\E exit \in BOOLEAN : Call(exit))
  BY <1>2 DEF Call
<1>7. ~(\E id \in Ids \cup {Abort} : InvokeRestart(id)) /\ ~Fail /\ ~NextStatement
  BY <1>2 DEF InvokeRestart, Fail, NextStatement
<1>8. ~(\E s \in Signals : Signal(s[1], s[2]))
  BY <1>2 DEF Signal
<1>9. ~(\E j \in 1..Len(handlers) : RunCalling(j)) /\ ~HandlerReturns
  BY <1>2 DEF RunCalling, HandlerReturns
<1>10. ~(\E j \in 0..Len(handlers) : WalkEnds(j))
  BY DEF WalkEnds, Walk, In
<1>11. Leave
  BY <1>3, <1>4, <1>5, <1>6, <1>7, <1>8, <1>9, <1>10 DEF Next
<1>12. ~LeaveHandlers /\ ~LeaveTry /\ ~LeaveRestarts /\ ~LeaveRestartHandler /\ ~HandlerFails
  BY DEF LeaveHandlers, LeaveTry, LeaveRestarts, LeaveRestartHandler, HandlerFails, Leaving, In
<1>13. ~LeaveTryBody /\ ~LeaveTryHandler /\ ~LeaveCall
  BY <1>2 DEF LeaveTryBody, LeaveTryHandler, LeaveCall, Settle
<1>14. LeaveFinally \/ LeaveOnExit
  BY <1>11, <1>12, <1>13 DEF Leave
<1> QED BY <1>14 DEF LeaveFinally, LeaveOnExit, Leaving, In

\* finally and on.exit run whichever way the call is left, be it by a value, an error
\* or a restart transfer.
THEOREM CleanupsAlwaysRun == Spec => CleanupsRun
<1>1. TypeOK /\ [Next]_vars =>
          [/\ Len(stack') < Len(stack)
           /\ Act.op \in {"tryCatch", "call"}
           /\ Act.cleanup
           => Act.phase \in {"finally", "on.exit"}]_vars
  BY CleanupFirst
<1> QED BY <1>1, TypeCorrect, PTL DEF Spec, CleanupsRun

-----------------------------------------------------------------------------
(* Errors and transfers: what is recorded *)

\* A script whose cleanups use no conditions and whose host ends with it.
Quiet == Program.quiet /\ ~Program.persistent

\* Such a cleanup runs to its end, with nothing inside it.
Cleans(a) == a.phase \in {"finally", "on.exit"}
OneCleanup(s, f) == \A k \in 1..Len(s) : Cleans(s[k]) => k = Len(s) /\ f = Running

\* What is on its way: the outcome a cleanup has put aside, or the flow.
Outcome(s, f) == IF Cleans(s[Len(s)]) THEN s[Len(s)].out ELSE f

\* The fields of the host, transfer, record and restarts, that stand beside it.
MatchedBy(r) == IF r.classes = {} THEN {"error"} ELSE r.classes
Beside(f, tr, r, rs) ==
    /\ f.how # "err" => tr = None /\ r = NoRecord
    /\ f.how = "err" /\ f.msg # Transfer =>
           /\ tr = None /\ MatchedBy(r) = ClassesOf(f.msg)
           /\ r.object = IF IsObject(f.msg) THEN f.msg ELSE None
    /\ f.how = "err" /\ f.msg = Transfer =>
           /\ tr # None /\ r = NoRecord
           /\ tr # Abort => \E k \in 1..Len(rs) : rs[k] = tr

Told(s, f, tr, r, rs) == OneCleanup(s, f) /\ Beside(Outcome(s, f), tr, r, rs)

IInvRecord ==
    /\ IInv
    /\ Quiet => Told(stack, flow, transfer, record, restarts)

-----------------------------------------------------------------------------
(* The stack, step by step *)

\* A call entered.
LEMMA Pushes ==
    ASSUME IInv, NEW a, stack' = Append(stack, a)
    PROVE  /\ Len(stack') = Len(stack) + 1 /\ stack'[Len(stack) + 1] = a
           /\ \A l \in 1..Len(stack) : stack'[l] = stack[l]
<1>1. PICK n \in Nat \ {0} : n = Len(stack)
  BY Standing
<1>2. stack \in Seq(Calls)
  BY Standing
<1>3. PICK T : T = Calls \cup {a}
  OBVIOUS
<1>4. stack \in Seq(T) /\ a \in T
  BY <1>2, <1>3, SeqMonotonic
<1>5. PICK t : t = Append(stack, a)
  OBVIOUS
<1>6. /\ Len(t) = Len(stack) + 1 /\ t[Len(stack) + 1] = a
      /\ \A l \in 1..Len(stack) : t[l] = stack[l]
  BY <1>4, <1>5, AppendProperties
<1> QED BY <1>5, <1>6

\* A call left.
LEMMA Pops ==
    ASSUME IInv, Act.op # "top", Over
    PROVE  /\ Len(stack') = Len(stack) - 1 /\ Len(stack) - 1 \in Nat \ {0}
           /\ \A l \in 1..(Len(stack) - 1) : stack'[l] = stack[l]
BY FrontIs, FewerFrames DEF Over

\* A call that enters another phase.
LEMMA Turns ==
    ASSUME IInv, NEW a, Phase(a)
    PROVE  /\ Len(stack') = Len(stack) /\ stack'[Len(stack)] = a
           /\ \A l \in 1..(Len(stack) - 1) : stack'[l] = stack[l]
<1>1. PICK n \in Nat \ {0} : n = Len(stack) /\ DOMAIN stack = 1..n
  BY Standing
<1>2. PICK t : t = stack'
  OBVIOUS
<1>3. t = [stack EXCEPT ![n] = a]
  BY <1>1, <1>2 DEF Phase
<1>4. Len(t) = n
  <2>1. DOMAIN t = 1..n
    BY <1>1, <1>3
  <2>2. stack \in Seq(Calls \cup {a}) /\ n \in 1..Len(stack)
    BY <1>1, Standing, SeqMonotonic
  <2> QED BY <1>1, <1>3, <2>2, ExceptSeq
<1>5. t[n] = a /\ \A l \in 1..(n - 1) : t[l] = stack[l]
  <2>1. n \in DOMAIN stack
    BY <1>1
  <2>2. \A l \in DOMAIN stack : l # n => t[l] = stack[l]
    BY <1>3
  <2>3. \A l \in 1..(n - 1) : l \in DOMAIN stack /\ l # n
    BY <1>1
  <2>4. t[n] = a
    BY <1>3, <2>1
  <2> QED BY <2>2, <2>3, <2>4
<1> QED BY <1>1, <1>2, <1>4, <1>5

\* The program stays.
LEMMA ProgramStays ==
    ASSUME IInv, [Next]_vars
    PROVE  Program' = Program
<1>1. PICK n \in Nat \ {0} : n = Len(stack)
  BY Standing
<1>2. ASSUME NEW a, Enter(a)
      PROVE  stack'[1] = stack[1]
  <2>1. \A l \in 1..n : stack'[l] = stack[l]
    BY <1>1, <1>2, Pushes DEF Enter
  <2> QED BY <1>1, <2>1
<1>3. ASSUME Act.op # "top", Over
      PROVE  stack'[1] = stack[1]
  <2>1. n - 1 \in Nat \ {0} /\ \A l \in 1..(n - 1) : stack'[l] = stack[l]
    BY <1>1, <1>3, Pops
  <2> QED BY <2>1
<1>4. ASSUME Act.op # "top", NEW a, Phase(a)
      PROVE  stack'[1] = stack[1]
  <2>1. \A l \in 1..(n - 1) : stack'[l] = stack[l]
    BY <1>1, <1>4, Turns
  <2>2. n - 1 \in Nat \ {0}
    BY <1>1, <1>4, FewerFrames
  <2> QED BY <2>1, <2>2
<1>5. stack'[1] = stack[1]
  <2>1. CASE \E on \in HandlerLists, finally \in BOOLEAN : TryCatch(on, finally)
    BY <1>2, <2>1 DEF TryCatch
  <2>2. CASE \E on \in HandlerLists : WithCallingHandlers(on)
    BY <1>2, <2>2 DEF WithCallingHandlers
  <2>3. CASE SuppressWarnings \/ Try \/ WithRestarts
    BY <1>2, <2>3 DEF SuppressWarnings, Try, WithRestarts
  <2>4. CASE \E exit \in BOOLEAN : Call(exit)
    BY <1>2, <2>4 DEF Call
  <2>5. CASE \E s \in Signals : Signal(s[1], s[2])
    BY <1>2, <2>5 DEF Signal
  <2>6. CASE \/ \E id \in Ids \cup {Abort} : InvokeRestart(id)
             \/ Fail \/ NextStatement
    BY <2>6 DEF InvokeRestart, Fail, NextStatement
  <2>7. CASE \E j \in 1..Len(handlers) : RunCalling(j)
    <3>1. Act.op = "signal"
      BY <2>7 DEF RunCalling, Walk, In
    <3> QED BY <1>4, <2>7, <3>1 DEF RunCalling
  <2>8. CASE \E j \in 0..Len(handlers) : WalkEnds(j)
    <3>1. Act.op = "signal" /\ Over
      BY <2>8 DEF WalkEnds, Walk, In
    <3> QED BY <1>3, <3>1
  <2>9. CASE HandlerReturns
    <3>1. Act.op = "signal" /\ \E a : Phase(a)
      BY <2>9 DEF HandlerReturns, In
    <3> QED BY <1>4, <3>1
  <2>10. CASE Leave
    <3>1. Act.op # "top" /\ (Over \/ \E a : Phase(a))
      <4>1. CASE LeaveHandlers \/ LeaveTryHandler \/ LeaveFinally
        BY <4>1 DEF LeaveHandlers, LeaveTryHandler, LeaveFinally, Leaving, In, Settle
      <4>2. CASE LeaveTryBody
        BY <4>2 DEF LeaveTryBody, Leaving, In, Settle
      <4>3. CASE LeaveTry \/ LeaveRestarts \/ LeaveRestartHandler
        BY <4>3 DEF LeaveTry, LeaveRestarts, LeaveRestartHandler, Leaving, In
      <4>4. CASE LeaveCall \/ LeaveOnExit \/ HandlerFails
        BY <4>4 DEF LeaveCall, LeaveOnExit, HandlerFails, Leaving, In
      <4> QED BY <2>10, <4>1, <4>2, <4>3, <4>4 DEF Leave
    <3> QED BY <1>3, <1>4, <3>1
  <2>11. CASE UNCHANGED vars
    BY <2>11 DEF vars
  <2> QED BY <2>1, <2>2, <2>3, <2>4, <2>5, <2>6, <2>7, <2>8, <2>9, <2>10, <2>11 DEF Next
<1> QED BY <1>5 DEF Program

-----------------------------------------------------------------------------
(* The record is kept *)

\* What holds of the calls while nothing but the innermost one may clean up.
LEMMA Below ==
    ASSUME IInv, OneCleanup(stack, flow)
    PROVE  /\ Len(stack) \in 1..Len(stack) /\ Len(stack) \in Nat \ {0}
           /\ \A k \in 1..(Len(stack) - 1) : ~Cleans(stack[k])
           /\ flow # Running => ~Cleans(Act)
           /\ ~Cleans(Act) => Outcome(stack, flow) = flow
           /\ Cleans(Act) => Outcome(stack, flow) = Act.out
<1>1. PICK n \in Nat \ {0} : n = Len(stack) /\ Act = stack[n]
  BY Standing
<1>2. \A k \in 1..(n - 1) : k \in 1..n /\ k # n
  OBVIOUS
<1>3. \A k \in 1..(n - 1) : ~Cleans(stack[k])
  BY <1>1, <1>2 DEF OneCleanup
<1>4. n \in 1..n
  OBVIOUS
<1> QED BY <1>1, <1>3, <1>4 DEF OneCleanup, Outcome

\* A call is entered from code that is not a cleanup.
LEMMA TellPush ==
    ASSUME IInv, OneCleanup(stack, flow), ~Cleans(Act), NEW a, ~Cleans(a),
           stack' = Append(stack, a), NEW f
    PROVE  OneCleanup(stack', f) /\ Outcome(stack', f) = f
<1>1. PICK n \in Nat \ {0} : n = Len(stack) /\ Act = stack[n]
  BY Standing
<1>2. PICK t : t = stack'
  OBVIOUS
<1>3. Len(t) = n + 1 /\ t[n + 1] = a /\ \A l \in 1..n : t[l] = stack[l]
  BY <1>1, <1>2, Pushes
<1>4. \A l \in 1..(n - 1) : ~Cleans(stack[l])
  BY <1>1, Below
<1>5. \A l \in 1..(n + 1) : l \in 1..(n - 1) \/ l = n \/ l = n + 1
  OBVIOUS
<1>6. \A l \in 1..(n - 1) : l \in 1..n
  OBVIOUS
<1>7. n \in 1..n
  OBVIOUS
<1>8. \A l \in 1..(n + 1) : ~Cleans(t[l])
  BY <1>1, <1>3, <1>4, <1>5, <1>6, <1>7
<1>9. n + 1 \in 1..(n + 1)
  OBVIOUS
<1> QED BY <1>2, <1>3, <1>8, <1>9 DEF OneCleanup, Outcome

\* A call is left.
LEMMA TellPop ==
    ASSUME IInv, OneCleanup(stack, flow), Act.op # "top", Over, NEW f
    PROVE  OneCleanup(stack', f) /\ Outcome(stack', f) = f
<1>1. PICK m \in Nat \ {0} : m = Len(stack) - 1
  BY Pops
<1>2. PICK t : t = stack'
  OBVIOUS
<1>3. Len(t) = m /\ \A l \in 1..m : t[l] = stack[l]
  BY <1>1, <1>2, Pops
<1>4. \A l \in 1..m : ~Cleans(t[l])
  BY <1>1, <1>3, Below
<1>5. m \in 1..m
  OBVIOUS
<1> QED BY <1>2, <1>3, <1>4, <1>5 DEF OneCleanup, Outcome

\* A call enters another phase.
LEMMA TellTurn ==
    ASSUME IInv, OneCleanup(stack, flow), NEW a, Phase(a), NEW f, Cleans(a) => f = Running
    PROVE  /\ OneCleanup(stack', f)
           /\ Outcome(stack', f) = IF Cleans(a) THEN a.out ELSE f
<1>1. PICK n \in Nat \ {0} : n = Len(stack)
  BY Standing
<1>2. PICK t : t = stack'
  OBVIOUS
<1>3. Len(t) = n /\ t[n] = a /\ \A l \in 1..(n - 1) : t[l] = stack[l]
  BY <1>1, <1>2, Turns
<1>4. \A l \in 1..(n - 1) : ~Cleans(t[l])
  BY <1>1, <1>3, Below
<1>5. \A l \in 1..n : l \in 1..(n - 1) \/ l = n
  OBVIOUS
<1>6. \A l \in 1..n : Cleans(t[l]) => l = n
  BY <1>4, <1>5
<1>7. OneCleanup(t, f)
  BY <1>3, <1>6 DEF OneCleanup
<1> QED BY <1>2, <1>3, <1>7 DEF Outcome

\* The flow changes in code that is not a cleanup.
LEMMA TellSame ==
    ASSUME IInv, OneCleanup(stack, flow), ~Cleans(Act), NEW f
    PROVE  OneCleanup(stack, f) /\ Outcome(stack, f) = f
<1>1. PICK n \in Nat \ {0} : n = Len(stack) /\ Act = stack[n] /\ n \in 1..n
  BY Below, Standing
<1>2. \A l \in 1..(n - 1) : ~Cleans(stack[l])
  BY <1>1, Below
<1>3. \A l \in 1..n : l \in 1..(n - 1) \/ l = n
  OBVIOUS
<1>4. \A l \in 1..n : ~Cleans(stack[l])
  BY <1>1, <1>2, <1>3
<1> QED BY <1>1, <1>4 DEF OneCleanup, Outcome

\* Outside a cleanup, what the host's fields stand beside is the flow.
LEMMA BesideFlow ==
    ASSUME IInv, Told(stack, flow, transfer, record, restarts), ~Cleans(Act)
    PROVE  Beside(flow, transfer, record, restarts)
BY Below DEF Told

\* A target that is established stays so while the restarts are those of before.
LEMMA BesideRestarts ==
    ASSUME NEW f, NEW tr, NEW r, NEW rs, Beside(f, tr, r, rs), NEW qs,
           f.how = "err" /\ f.msg = Transfer =>
               \A k \in 1..Len(rs) : rs[k] = tr => \E l \in 1..Len(qs) : qs[l] = tr
    PROVE  Beside(f, tr, r, qs)
BY DEF Beside

\* Nothing unwinds: the fields are clear.
LEMMA BesideClear ==
    ASSUME NEW f, f \in {Running, Walking}, NEW tr, tr = None, NEW r, r = NoRecord, NEW rs
    PROVE  Beside(f, tr, r, rs)
BY FlowKinds DEF Beside

\* Code that may go on is no cleanup, and the fields are clear.
LEMMA FreeIs ==
    ASSUME IInv, Quiet, Told(stack, flow, transfer, record, restarts), Free
    PROVE  ~Cleans(Act) /\ flow = Running /\ transfer = None /\ record = NoRecord
<1>1. ~Cleans(Act) /\ flow = Running
  <2>1. Len(stack) \in DOMAIN stack /\ Act = stack[Len(stack)]
    BY Standing
  <2> QED BY <2>1 DEF Free, Quiet, Cleaning, Cleans
<1>2. Beside(flow, transfer, record, restarts)
  BY <1>1, BesideFlow
<1> QED BY <1>1, <1>2, FlowKinds DEF Beside

\* A call is entered.
LEMMA PushTells ==
    ASSUME IInv, Quiet, Told(stack, flow, transfer, record, restarts),
           NEW a, Enter(a), a.phase = "body",
           flow' \in {Running, Walking}, UNCHANGED <<transfer, record>>
    PROVE  Told(stack, flow, transfer, record, restarts)'
<1>1. ~Cleans(Act) /\ transfer = None /\ record = NoRecord
  BY FreeIs DEF Enter
<1>2. OneCleanup(stack, flow) /\ ~Cleans(a) /\ stack' = Append(stack, a)
  BY DEF Told, Enter, Cleans
<1>3. PICK f : f = flow'
  OBVIOUS
<1>4. OneCleanup(stack', f) /\ Outcome(stack', f) = f
  BY <1>1, <1>2, TellPush
<1>5. Beside(f, transfer', record', restarts')
  BY <1>1, <1>3, BesideClear
<1> QED BY <1>3, <1>4, <1>5 DEF Told

\* The program's own steps.
LEMMA ProgramTells ==
    ASSUME IInv, Quiet, Told(stack, flow, transfer, record, restarts),
           \/ \E on \in HandlerLists, finally \in BOOLEAN : TryCatch(on, finally)
           \/ \E on \in HandlerLists : WithCallingHandlers(on)
           \/ SuppressWarnings \/ Try \/ WithRestarts
           \/ \E exit \in BOOLEAN : Call(exit)
           \/ \E s \in Signals : Signal(s[1], s[2])
    PROVE  Told(stack, flow, transfer, record, restarts)'
<1>1. \E a : Enter(a) /\ a.phase = "body"
  <2>1. CASE \E on \in HandlerLists, finally \in BOOLEAN : TryCatch(on, finally)
    <3>1. PICK on \in HandlerLists, finally \in BOOLEAN : TryCatch(on, finally)
      BY <2>1
    <3>2. PICK a : a = [op |-> "tryCatch", phase |-> "body", on |-> on,
                        cleanup |-> finally, out |-> Running]
      OBVIOUS
    <3> QED BY <3>1, <3>2 DEF TryCatch
  <2>2. CASE (\E on \in HandlerLists : WithCallingHandlers(on)) \/ SuppressWarnings \/ Try
    <3>1. PICK op : Enter([op |-> op, phase |-> "body"])
      BY <2>2 DEF WithCallingHandlers, SuppressWarnings, Try
    <3>2. PICK a : a = [op |-> op, phase |-> "body"]
      OBVIOUS
    <3> QED BY <3>1, <3>2
  <2>3. CASE WithRestarts
    <3>1. PICK a : a = [op |-> "withRestarts", phase |-> "body", id |-> nextId + 1]
      OBVIOUS
    <3> QED BY <2>3, <3>1 DEF WithRestarts
  <2>4. CASE \E exit \in BOOLEAN : Call(exit)
    <3>1. PICK exit \in BOOLEAN : Call(exit)
      BY <2>4
    <3>2. PICK a : a = [op |-> "call", phase |-> "body", cleanup |-> exit, out |-> Running]
      OBVIOUS
    <3> QED BY <3>1, <3>2 DEF Call
  <2>5. CASE \E s \in Signals : Signal(s[1], s[2])
    <3>1. PICK s \in Signals : Signal(s[1], s[2])
      BY <2>5
    <3>2. PICK a : a = Signaller(s[1], s[2])
      OBVIOUS
    <3>3. Enter(a)
      BY <3>1, <3>2 DEF Signal, Signaller
    <3>4. a.phase = "body"
      BY <3>2 DEF Signaller
    <3> QED BY <3>3, <3>4
  <2> QED BY <2>1, <2>2, <2>3, <2>4, <2>5
<1>2. flow' \in {Running, Walking} /\ UNCHANGED <<transfer, record>>
  <2>1. CASE \/ \E on \in HandlerLists, finally \in BOOLEAN : TryCatch(on, finally)
             \/ \E on \in HandlerLists : WithCallingHandlers(on)
             \/ \E exit \in BOOLEAN : Call(exit)
    BY <2>1 DEF TryCatch, WithCallingHandlers, Call, Enter, Free
  <2>2. CASE SuppressWarnings \/ Try \/ WithRestarts
    BY <2>2 DEF SuppressWarnings, Try, WithRestarts, Enter, Free
  <2>3. CASE \E s \in Signals : Signal(s[1], s[2])
    BY <2>3 DEF Signal
  <2> QED BY <2>1, <2>2, <2>3
<1> QED BY <1>1, <1>2, PushTells

\* invokeRestart, and a primitive that fails.
LEMMA FlowTells ==
    ASSUME IInv, Quiet, Told(stack, flow, transfer, record, restarts),
           Fail \/ \E id \in Ids \cup {Abort} : InvokeRestart(id)
    PROVE  Told(stack, flow, transfer, record, restarts)'
<1>1. Free /\ stack' = stack /\ restarts' = restarts /\ record' = record
  BY DEF Fail, InvokeRestart
<1>2. ~Cleans(Act) /\ transfer = None /\ record = NoRecord /\ OneCleanup(stack, flow)
  BY <1>1, FreeIs DEF Told
<1>3. PICK f : f = flow'
  OBVIOUS
<1>4. OneCleanup(stack', f) /\ Outcome(stack', f) = f
  BY <1>1, <1>2, TellSame
<1>5. Beside(f, transfer', record', restarts')
  <2>1. CASE Fail
    <3>1. PICK j \in 0..Len(handlers) : f = Err("simpleError", j)
      BY <1>3, <2>1 DEF Fail
    <3>2. f.how = "err" /\ f.msg = "simpleError" /\ "simpleError" # Transfer
      BY <3>1 DEF Err, Transfer
    <3>3. transfer' = None
      BY <1>2, <2>1 DEF Fail
    <3>4. NoRecord.classes = {} /\ NoRecord.object = None
      BY DEF NoRecord
    <3>5. MatchedBy(record') = ClassesOf(f.msg)
      BY <1>1, <1>2, <3>2, <3>4 DEF MatchedBy, ClassesOf
    <3>6. record'.object = IF IsObject(f.msg) THEN f.msg ELSE None
      BY <1>1, <1>2, <3>2, <3>4 DEF IsObject
    <3> QED BY <3>2, <3>3, <3>5, <3>6 DEF Beside
  <2>2. CASE \E id \in Ids \cup {Abort} : InvokeRestart(id)
    <3>1. PICK id \in Ids \cup {Abort} : InvokeRestart(id)
      BY <2>2
    <3>2. f.how = "err" /\ f.msg = Transfer
      BY <1>3, <3>1 DEF InvokeRestart, Err
    <3>3. transfer' = id /\ id # None
      BY <3>1, ConditionsAssumption DEF InvokeRestart, Ids, Abort
    <3>4. id # Abort => \E k \in 1..Len(restarts) : restarts[k] = id
      BY <3>1, Standing DEF InvokeRestart
    <3> QED BY <1>1, <1>2, <3>2, <3>3, <3>4 DEF Beside
  <2> QED BY <2>1, <2>2
<1> QED BY <1>3, <1>4, <1>5 DEF Told

\* The last restart is that of the innermost call, if that offers one.
LEMMA LastRestart ==
    ASSUME IInv, Offers(Act)
    PROVE  Len(restarts) \in Nat \ {0} /\ restarts[Len(restarts)] = Act.id
<1>1. PICK n \in Nat \ {0} : n = Len(stack) /\ Act = stack[n] /\ n \in 1..n
  <2>1. Len(stack) \in Nat \ {0} /\ Act = stack[Len(stack)]
    BY Standing
  <2>2. Len(stack) \in 1..Len(stack)
    BY <2>1
  <2> QED BY <2>1, <2>2
<1>2. GroupOf(stack, restarts, n) /\ Len(restarts) = Groups(stack, n)
  BY <1>1 DEF IInv, Shape, Stands
<1>3. PICK m \in Nat : n = m + 1
  <2>1. n - 1 \in Nat /\ n = (n - 1) + 1
    OBVIOUS
  <2> QED BY <2>1
<1>4. Groups(stack, n) = Groups(stack, m) + 1 /\ Groups(stack, m) \in Nat
  BY <1>1, <1>3, FrameStep
<1> QED BY <1>1, <1>2, <1>4 DEF GroupOf

\* A transfer past the innermost call's restart finds its target further out.
LEMMA TargetBelow ==
    ASSUME IInv, Offers(Act), transfer # Act.id, NEW k \in 1..Len(restarts),
           restarts[k] = transfer
    PROVE  \E l \in 1..Len(Front(restarts)) : Front(restarts)[l] = transfer
<1>1. PICK n \in Nat \ {0} : n = Len(restarts) /\ restarts[n] = Act.id
  BY LastRestart
<1>2. k \in 1..(n - 1) /\ n - 1 \in 0..n
  BY <1>1
<1>3. /\ Len(Front(restarts)) = n - 1
      /\ \A i \in 1..(n - 1) : Front(restarts)[i] = restarts[i]
  BY <1>1, <1>2, Standing, FirstPart DEF Front
<1> QED BY <1>2, <1>3

\* The walk.
LEMMA WalkTells ==
    ASSUME IInv, Quiet, Told(stack, flow, transfer, record, restarts),
           \/ \E j \in 1..Len(handlers) : RunCalling(j)
           \/ HandlerReturns
    PROVE  Told(stack, flow, transfer, record, restarts)'
<1>1. /\ Act.op = "signal" /\ Act.phase = "body" /\ flow \in {Running, Walking}
      /\ flow' \in {Running, Walking} /\ UNCHANGED <<restarts, transfer, record>>
      /\ \E a : Phase(a) /\ a.phase = Act.phase
  <2>1. CASE \E j \in 1..Len(handlers) : RunCalling(j)
    <3>1. PICK j \in 1..Len(handlers) : RunCalling(j)
      BY <2>1
    <3>2. PICK todo, saved : Phase([Act EXCEPT !.at = j, !.todo = todo, !.saved = saved])
      BY <3>1 DEF RunCalling
    <3>3. Act \in SignalSet
      BY <3>1, WalkIs DEF RunCalling
    <3>4. PICK a : a = [Act EXCEPT !.at = j, !.todo = todo, !.saved = saved]
      OBVIOUS
    <3>5. a.phase = Act.phase
      BY <3>3, <3>4 DEF SignalSet
    <3> QED BY <3>1, <3>2, <3>4, <3>5 DEF RunCalling, Walk, In
  <2>2. CASE HandlerReturns
    <3>1. Act.op = "signal" /\ Act \in SignalSet
      BY <2>2, Standing, Kinds DEF HandlerReturns, In
    <3>2. PICK todo, saved : Phase([Act EXCEPT !.todo = todo])
                             \/ Phase([Act EXCEPT !.todo = todo, !.saved = saved])
      BY <2>2 DEF HandlerReturns
    <3>3. PICK a, b : /\ a = [Act EXCEPT !.todo = todo]
                      /\ b = [Act EXCEPT !.todo = todo, !.saved = saved]
      OBVIOUS
    <3>4. a.phase = Act.phase /\ b.phase = Act.phase
      BY <3>1, <3>3 DEF SignalSet
    <3> QED BY <2>2, <3>2, <3>3, <3>4 DEF HandlerReturns, In
  <2> QED BY <2>1, <2>2
<1>2. PICK a : Phase(a) /\ ~Cleans(a)
  BY <1>1 DEF Cleans
<1>3. ~Cleans(Act) /\ OneCleanup(stack, flow)
  BY <1>1 DEF Cleans, Told
<1>4. PICK f : f = flow'
  OBVIOUS
<1>5. OneCleanup(stack', f) /\ Outcome(stack', f) = f
  BY <1>2, <1>3, TellTurn
<1>6. transfer = None /\ record = NoRecord
  BY <1>1, <1>3, BesideFlow, FlowKinds DEF Beside
<1>7. Beside(f, transfer', record', restarts')
  BY <1>1, <1>4, <1>6, BesideClear
<1> QED BY <1>4, <1>5, <1>7 DEF Told

\* A walk is over.
LEMMA WalkEndsTells ==
    ASSUME IInv, Quiet, Told(stack, flow, transfer, record, restarts),
           NEW j \in 0..Len(handlers), WalkEnds(j)
    PROVE  Told(stack, flow, transfer, record, restarts)'
<1>1. /\ Act.op = "signal" /\ Act \in SignalSet /\ Act.op # "top" /\ flow = Walking
      /\ ~Cleans(Act) /\ Over
  BY WalkIs DEF WalkEnds, SignalSet, Cleans
<1>2. OneCleanup(stack, flow)
  BY DEF Told
<1>3. PICK f : f = flow'
  OBVIOUS
<1>4. OneCleanup(stack', f) /\ Outcome(stack', f) = f
  BY <1>1, <1>2, TellPop
<1>5. transfer = None /\ record = NoRecord /\ transfer' = transfer
  BY <1>1, BesideFlow, FlowKinds DEF Beside, WalkEnds
<1>6. PICK c : c = Act.cond /\ c \in Conds
  BY <1>1 DEF SignalSet
<1>7. \/ f = Running /\ record' = record
      \/ /\ \E to : f = Err(c, to)
         /\ record' = [classes |-> ClassesOf(c), object |-> IF IsObject(c) THEN c ELSE None]
  <2>1. PICK raises \in BOOLEAN :
            raises = (Act.by = "stop" \/ (j # 0 /\ ~handlers[j].calling))
    OBVIOUS
  <2>2. CASE raises
    BY <1>3, <1>6, <2>1, <2>2 DEF WalkEnds
  <2>3. CASE ~raises
    BY <1>3, <1>6, <2>1, <2>3 DEF WalkEnds
  <2> QED BY <2>2, <2>3
<1>8. Beside(f, transfer', record', restarts')
  <2>1. CASE f = Running /\ record' = record
    BY <1>5, <2>1, BesideClear
  <2>2. CASE /\ \E to : f = Err(c, to)
             /\ record' = [classes |-> ClassesOf(c), object |-> IF IsObject(c) THEN c ELSE None]
    <3>1. f.how = "err" /\ f.msg = c /\ c # Transfer
      BY <1>6, <2>2 DEF Err, Transfer, Conds
    <3>2. ClassesOf(c) # {}
      BY <1>6 DEF ClassesOf, Conds
    <3>3. MatchedBy(record') = ClassesOf(c)
      BY <2>2, <3>2 DEF MatchedBy
    <3>4. record'.object = IF IsObject(c) THEN c ELSE None
      BY <2>2
    <3> QED BY <1>5, <3>1, <3>3, <3>4 DEF Beside
  <2> QED BY <1>7, <2>1, <2>2
<1> QED BY <1>3, <1>4, <1>8 DEF Told

\* A call is left and what flows goes on, the fields beside it as they are.
LEMMA PopTells ==
    ASSUME IInv, Told(stack, flow, transfer, record, restarts),
           Act.op # "top", Over, flow' = Outcome(stack, flow),
           UNCHANGED <<transfer, record, restarts>>
    PROVE  Told(stack, flow, transfer, record, restarts)'
<1>1. OneCleanup(stack, flow)
  BY DEF Told
<1>2. PICK f : f = flow'
  OBVIOUS
<1>3. OneCleanup(stack', f) /\ Outcome(stack', f) = f
  BY <1>1, TellPop
<1>4. Beside(f, transfer', record', restarts')
  BY <1>2 DEF Told
<1> QED BY <1>2, <1>3, <1>4 DEF Told

\* tryCatch's result is settled.
LEMMA SettleTells ==
    ASSUME IInv, Told(stack, flow, transfer, record, restarts),
           Act.op = "tryCatch", ~Cleans(Act), Settle(flow),
           UNCHANGED <<transfer, record, restarts>>
    PROVE  Told(stack, flow, transfer, record, restarts)'
<1>1. OneCleanup(stack, flow) /\ Outcome(stack, flow) = flow
  BY Below DEF Told
<1>2. CASE Act.cleanup
  <2>1. PICK a : a = [Act EXCEPT !.phase = "finally", !.out = flow]
    OBVIOUS
  <2>2. Act \in TrySet
    BY Standing, Kinds
  <2>3. Cleans(a) /\ a.out = flow
    BY <2>1, <2>2 DEF TrySet, Cleans
  <2>4. Phase(a) /\ flow' = Running
    BY <1>2, <2>1 DEF Settle
  <2>5. PICK f : f = flow' /\ f = Running
    BY <2>4
  <2>6. OneCleanup(stack', f) /\ Outcome(stack', f) = flow
    BY <1>1, <2>3, <2>4, <2>5, TellTurn
  <2>7. Beside(flow, transfer', record', restarts')
    BY <1>1 DEF Told
  <2> QED BY <2>5, <2>6, <2>7 DEF Told
<1>3. CASE ~Act.cleanup
  <2>1. Over /\ flow' = Outcome(stack, flow)
    BY <1>1, <1>3 DEF Settle
  <2> QED BY <2>1, PopTells
<1> QED BY <1>2, <1>3

\* The body of tryCatch.
LEMMA LeaveTryBodyTells ==
    ASSUME IInv, Told(stack, flow, transfer, record, restarts), LeaveTryBody
    PROVE  Told(stack, flow, transfer, record, restarts)'
<1>1. /\ Act.op = "tryCatch" /\ Act.phase = "body" /\ ~Cleans(Act) /\ flow \in Outcomes
      /\ transfer' = transfer /\ restarts' = restarts
  BY LeavingIs DEF LeaveTryBody, Cleans
<1>2. OneCleanup(stack, flow) /\ Beside(flow, transfer, record, restarts)
  BY <1>1, BesideFlow DEF Told
<1>3. CASE Takes
  <2>1. PICK a : a = [Act EXCEPT !.phase = "handler"]
    OBVIOUS
  <2>2. Act \in TrySet
    BY <1>1, Standing, Kinds
  <2>3. ~Cleans(a)
    BY <2>1, <2>2 DEF TrySet, Cleans
  <2>4. Phase(a) /\ flow' = Running /\ record' = NoRecord /\ transfer' = None
    BY <1>1, <1>3, <2>1 DEF LeaveTryBody, Forget, Takes
  <2>5. PICK f : f = flow' /\ f = Running
    BY <2>4
  <2>6. OneCleanup(stack', f) /\ Outcome(stack', f) = f
    BY <1>2, <2>3, <2>4, TellTurn
  <2>7. Beside(f, transfer', record', restarts')
    BY <2>4, <2>5, BesideClear
  <2> QED BY <2>5, <2>6, <2>7 DEF Told
<1>4. CASE ~Takes
  <2>1. Settle(flow) /\ record' = IF flow = Running THEN NoRecord ELSE record
    BY <1>4 DEF LeaveTryBody, Forget
  <2>2. record' = record
    BY <1>2, <2>1, FlowKinds DEF Beside
  <2> QED BY <1>1, <2>1, <2>2, SettleTells
<1> QED BY <1>3, <1>4

\* Calls that are left with what flows.
LEMMA PlainTells ==
    ASSUME IInv, Told(stack, flow, transfer, record, restarts),
           LeaveHandlers \/ LeaveTryHandler \/ LeaveRestartHandler
    PROVE  Told(stack, flow, transfer, record, restarts)'
<1>1. ~Cleans(Act) /\ Act.op # "top" /\ UNCHANGED <<transfer, record, restarts>>
  BY DEF LeaveHandlers, LeaveTryHandler, LeaveRestartHandler, Leaving, In, Cleans
<1>2. Outcome(stack, flow) = flow
  BY <1>1, Below DEF Told
<1>3. CASE LeaveHandlers \/ LeaveRestartHandler
  <2>1. Over /\ flow' = flow
    BY <1>3 DEF LeaveHandlers, LeaveRestartHandler
  <2> QED BY <1>1, <1>2, <2>1, PopTells
<1>4. CASE LeaveTryHandler
  <2>1. Act.op = "tryCatch" /\ Settle(flow)
    BY <1>4 DEF LeaveTryHandler, Leaving, In
  <2> QED BY <1>1, <2>1, SettleTells
<1> QED BY <1>3, <1>4

\* Cleanups.
LEMMA CleanupTells ==
    ASSUME IInv, Told(stack, flow, transfer, record, restarts), LeaveFinally \/ LeaveOnExit
    PROVE  Told(stack, flow, transfer, record, restarts)'
<1>1. Cleans(Act) /\ Act.op # "top" /\ Over /\ UNCHANGED <<transfer, record, restarts>>
  BY DEF LeaveFinally, LeaveOnExit, Leaving, In, Cleans
<1>2. flow = Running /\ Outcome(stack, flow) = Act.out
  BY <1>1, Below DEF Told
<1>3. flow' = Act.out
  BY <1>2, FlowKinds DEF LeaveFinally, LeaveOnExit, Failed
<1> QED BY <1>1, <1>2, <1>3, PopTells

\* try.
LEMMA LeaveTryTells ==
    ASSUME IInv, Told(stack, flow, transfer, record, restarts), LeaveTry
    PROVE  Told(stack, flow, transfer, record, restarts)'
<1>1. ~Cleans(Act) /\ Act.op # "top" /\ Over /\ transfer' = transfer /\ restarts' = restarts
  BY DEF LeaveTry, Leaving, In, Cleans
<1>2. OneCleanup(stack, flow) /\ Outcome(stack, flow) = flow
  BY <1>1, Below DEF Told
<1>3. CASE Failed /\ transfer = None
  <2>1. flow' = Running /\ record' = NoRecord /\ transfer' = None
    BY <1>1, <1>3 DEF LeaveTry
  <2>2. PICK f : f = flow' /\ f = Running
    BY <2>1
  <2>3. OneCleanup(stack', f) /\ Outcome(stack', f) = f
    BY <1>1, <1>2, TellPop
  <2>4. Beside(f, transfer', record', restarts')
    BY <2>1, <2>2, BesideClear
  <2> QED BY <2>2, <2>3, <2>4 DEF Told
<1>4. CASE ~(Failed /\ transfer = None)
  <2>1. flow' = flow /\ record' = record
    BY <1>4 DEF LeaveTry
  <2> QED BY <1>1, <1>2, <2>1, PopTells
<1> QED BY <1>3, <1>4

\* A transfer that reaches its target leaves nothing recorded.
LEMMA ReachedIs ==
    ASSUME IInv, Told(stack, flow, transfer, record, restarts), ~Cleans(Act),
           Failed, transfer # None
    PROVE  [record EXCEPT !.object = None] = NoRecord
<1>1. Beside(flow, transfer, record, restarts)
  BY BesideFlow
<1>2. record = NoRecord
  BY <1>1 DEF Beside, Failed
<1> QED BY <1>2 DEF NoRecord

\* A call that offers a restart is left, and it is not the transfer's target.
LEMMA OfferTells ==
    ASSUME IInv, Told(stack, flow, transfer, record, restarts), ~Cleans(Act),
           Act.op # "top", Over, UNCHANGED <<flow, transfer, record>>,
           (restarts' = Front(restarts) /\ Offers(Act)) \/ restarts' = restarts,
           Failed /\ Offers(Act) => transfer # Act.id
    PROVE  Told(stack, flow, transfer, record, restarts)'
<1>1. OneCleanup(stack, flow) /\ Beside(flow, transfer, record, restarts)
  BY BesideFlow DEF Told
<1>2. PICK f : f = flow'
  OBVIOUS
<1>3. OneCleanup(stack', f) /\ Outcome(stack', f) = f
  BY <1>1, TellPop
<1>4. PICK qs : qs = restarts'
  OBVIOUS
<1>5. Beside(flow, transfer, record, qs)
  <2>1. CASE restarts' = restarts
    BY <1>1, <1>4, <2>1
  <2>2. CASE restarts' = Front(restarts) /\ Offers(Act)
    <3>1. SUFFICES ASSUME flow.how = "err", NEW k \in 1..Len(restarts), restarts[k] = transfer
                   PROVE  \E l \in 1..Len(qs) : qs[l] = transfer
      BY <1>1, BesideRestarts
    <3>2. transfer # Act.id
      BY <2>2, <3>1 DEF Failed
    <3> QED BY <1>4, <2>2, <3>1, <3>2, TargetBelow
  <2> QED BY <2>1, <2>2
<1> QED BY <1>2, <1>3, <1>4, <1>5 DEF Told

\* The expression of withRestarts.
LEMMA LeaveRestartsTells ==
    ASSUME IInv, Told(stack, flow, transfer, record, restarts), LeaveRestarts
    PROVE  Told(stack, flow, transfer, record, restarts)'
<1>1. /\ Act.op = "withRestarts" /\ Act.phase = "body" /\ Act \in Calls /\ ~Cleans(Act)
      /\ Offers(Act) /\ Act.op # "top" /\ restarts' = Front(restarts)
  BY Standing DEF LeaveRestarts, Leaving, In, Cleans, Offers
<1>2. CASE Failed /\ transfer = Act.id
  <2>1. transfer # None
    BY <1>1, <1>2, Offering, ConditionsAssumption DEF Ids
  <2>2. flow' = Running /\ transfer' = None /\ record' = NoRecord
    BY <1>1, <1>2, <2>1, ReachedIs DEF LeaveRestarts
  <2>3. PICK a : a = [Act EXCEPT !.phase = "handler"]
    OBVIOUS
  <2>4. Act \in RestartSet
    BY <1>1, Kinds
  <2>5. ~Cleans(a)
    BY <2>3, <2>4 DEF RestartSet, Cleans
  <2>6. Phase(a) /\ OneCleanup(stack, flow)
    BY <1>2, <2>3 DEF LeaveRestarts, Told
  <2>7. PICK f : f = flow' /\ f = Running
    BY <2>2
  <2>8. OneCleanup(stack', f) /\ Outcome(stack', f) = f
    BY <2>5, <2>6, TellTurn
  <2>9. Beside(f, transfer', record', restarts')
    BY <2>2, <2>7, BesideClear
  <2> QED BY <2>7, <2>8, <2>9 DEF Told
<1>3. CASE ~(Failed /\ transfer = Act.id)
  <2>1. Over /\ UNCHANGED <<flow, transfer, record>>
    BY <1>3 DEF LeaveRestarts
  <2> QED BY <1>1, <1>3, <2>1, OfferTells
<1> QED BY <1>2, <1>3

\* A calling handler fails or transfers.
LEMMA HandlerFailsTells ==
    ASSUME IInv, Told(stack, flow, transfer, record, restarts), HandlerFails
    PROVE  Told(stack, flow, transfer, record, restarts)'
<1>1. /\ Act.op = "signal" /\ ~Cleans(Act) /\ Act.op # "top" /\ Over
      /\ (Offers(Act) <=> Act.id # None) /\ Failed
  BY DEF HandlerFails, In, Cleans, Offers
<1>2. (restarts' = Front(restarts) /\ Offers(Act)) \/ restarts' = restarts
  BY <1>1 DEF HandlerFails, PopMuffle
<1>3. CASE Act.id # None /\ transfer = Act.id
  <2>1. flow' = Running /\ transfer' = None /\ record' = NoRecord
    BY <1>1, <1>3, ReachedIs DEF HandlerFails
  <2>2. PICK f : f = flow' /\ f = Running
    BY <2>1
  <2>3. OneCleanup(stack, flow)
    BY DEF Told
  <2>4. OneCleanup(stack', f) /\ Outcome(stack', f) = f
    BY <1>1, <2>3, TellPop
  <2>5. Beside(f, transfer', record', restarts')
    BY <2>1, <2>2, BesideClear
  <2> QED BY <2>2, <2>4, <2>5 DEF Told
<1>4. CASE ~(Act.id # None /\ transfer = Act.id)
  <2>1. UNCHANGED <<flow, transfer, record>>
    BY <1>4 DEF HandlerFails
  <2> QED BY <1>1, <1>2, <1>4, <2>1, OfferTells
<1> QED BY <1>3, <1>4

\* A closure body.
LEMMA LeaveCallTells ==
    ASSUME IInv, Told(stack, flow, transfer, record, restarts), LeaveCall
    PROVE  Told(stack, flow, transfer, record, restarts)'
<1>1. /\ Act.op = "call" /\ ~Cleans(Act) /\ Act.op # "top"
      /\ UNCHANGED <<transfer, record, restarts>>
  BY DEF LeaveCall, Leaving, In, Cleans
<1>2. OneCleanup(stack, flow) /\ Outcome(stack, flow) = flow
  BY <1>1, Below DEF Told
<1>3. CASE Act.cleanup
  <2>1. PICK a : a = [Act EXCEPT !.phase = "on.exit", !.out = flow]
    OBVIOUS
  <2>2. Act \in CallSet
    BY <1>1, Standing, Kinds
  <2>3. Cleans(a) /\ a.out = flow
    BY <2>1, <2>2 DEF CallSet, Cleans
  <2>4. Phase(a) /\ flow' = Running
    BY <1>3, <2>1 DEF LeaveCall
  <2>5. PICK f : f = flow' /\ f = Running
    BY <2>4
  <2>6. OneCleanup(stack', f) /\ Outcome(stack', f) = flow
    BY <1>2, <2>3, <2>4, <2>5, TellTurn
  <2>7. Beside(flow, transfer', record', restarts')
    BY <1>1, <1>2 DEF Told
  <2> QED BY <2>5, <2>6, <2>7 DEF Told
<1>4. CASE ~Act.cleanup
  <2>1. Over /\ flow' = Outcome(stack, flow)
    BY <1>2, <1>4 DEF LeaveCall
  <2> QED BY <1>1, <2>1, PopTells
<1> QED BY <1>3, <1>4

\* Every step keeps the record.
LEMMA NextTells == IInvRecord /\ [Next]_vars => IInvRecord'
<1> SUFFICES ASSUME IInvRecord, [Next]_vars PROVE IInvRecord'
  OBVIOUS
<1>1. IInv /\ IInv'
  BY NextKeeps DEF IInvRecord
<1>2. Quiet' <=> Quiet
  BY <1>1, ProgramStays DEF Quiet
<1>3. SUFFICES ASSUME Quiet PROVE Told(stack, flow, transfer, record, restarts)'
  BY <1>1, <1>2 DEF IInvRecord
<1>4. Told(stack, flow, transfer, record, restarts)
  BY <1>3 DEF IInvRecord
<1>5. CASE \/ \E on \in HandlerLists, finally \in BOOLEAN : TryCatch(on, finally)
           \/ \E on \in HandlerLists : WithCallingHandlers(on)
           \/ SuppressWarnings \/ Try \/ WithRestarts
           \/ \E exit \in BOOLEAN : Call(exit)
           \/ \E s \in Signals : Signal(s[1], s[2])
  BY <1>1, <1>3, <1>4, <1>5, ProgramTells
<1>6. CASE Fail \/ \E id \in Ids \cup {Abort} : InvokeRestart(id)
  BY <1>1, <1>3, <1>4, <1>6, FlowTells
<1>7. CASE (\E j \in 1..Len(handlers) : RunCalling(j)) \/ HandlerReturns
  BY <1>1, <1>3, <1>4, <1>7, WalkTells
<1>8. CASE \E j \in 0..Len(handlers) : WalkEnds(j)
  BY <1>1, <1>3, <1>4, <1>8, WalkEndsTells
<1>9. CASE Leave
  BY <1>1, <1>4, <1>9, PlainTells, LeaveTryBodyTells, CleanupTells, LeaveTryTells,
     LeaveRestartsTells, LeaveCallTells, HandlerFailsTells DEF Leave
<1>10. CASE NextStatement
  BY <1>3, <1>10 DEF NextStatement, Quiet
<1>11. CASE UNCHANGED vars
  BY <1>4, <1>11 DEF vars, Told
<1> QED BY <1>5, <1>6, <1>7, <1>8, <1>9, <1>10, <1>11 DEF Next

\* A program starts with nothing recorded.
LEMMA InitTells == Init => IInvRecord
<1> SUFFICES ASSUME Init PROVE IInvRecord
  OBVIOUS
<1>1. IInv
  BY InitKeeps
<1>2. PICK p \in Programs : stack = <<[op |-> "top", phase |-> "body", program |-> p]>>
  BY DEF Init
<1>3. Len(stack) = 1 /\ stack[1].phase = "body" /\ ~Cleans(stack[1])
  BY <1>2 DEF Cleans
<1>4. OneCleanup(stack, flow) /\ Outcome(stack, flow) = flow
  BY <1>3 DEF OneCleanup, Outcome
<1>5. flow = Running /\ transfer = None /\ record = NoRecord
  BY DEF Init
<1>6. Beside(flow, transfer, record, restarts)
  BY <1>5, BesideClear
<1> QED BY <1>1, <1>4, <1>6 DEF IInvRecord, Told

\* What is told is what RecordKept says.
LEMMA ToldIs == IInvRecord => RecordKept
<1> SUFFICES ASSUME IInv, Told(stack, flow, transfer, record, restarts)
             PROVE  /\ ErrorRecorded /\ TransferCarried
                    /\ flow = Running /\ ~Cleaning => transfer = None /\ record = NoRecord
  BY DEF IInvRecord, RecordKept, Quiet
<1>1. PICK n \in Nat \ {0} : n = Len(stack) /\ DOMAIN stack = 1..n /\ n \in 1..n
  BY Standing, Below DEF Told
<1>2. PICK o : o = Outcome(stack, flow)
  OBVIOUS
<1>3. Beside(o, transfer, record, restarts) /\ OneCleanup(stack, flow)
  BY <1>2 DEF Told
<1>4. /\ ~Cleans(stack[n]) => o = flow
      /\ Cleans(stack[n]) => o = stack[n].out
      /\ \A k \in 1..n : Cleans(stack[k]) => k = n /\ flow = Running
  BY <1>1, <1>2, <1>3 DEF OneCleanup, Outcome
<1>5. flow.how = "err" => o = flow
  BY <1>1, <1>4, FlowKinds
<1>6. ErrorRecorded
  BY <1>3, <1>5 DEF ErrorRecorded, Failed, Beside, Raised, MatchedBy
<1>7. Carried(o) <=> Carried(flow) \/ \E k \in DOMAIN stack : Suspended(k)
  <2>1. ASSUME Carried(o) PROVE Carried(flow) \/ \E k \in DOMAIN stack : Suspended(k)
    BY <1>1, <1>4, <2>1 DEF Suspended, Cleans
  <2>2. ASSUME Carried(flow) PROVE Carried(o)
    BY <1>5, <2>2 DEF Carried
  <2>3. ASSUME NEW k \in DOMAIN stack, Suspended(k) PROVE Carried(o)
    BY <1>1, <1>4, <2>3 DEF Suspended, Cleans
  <2> QED BY <2>1, <2>2, <2>3
<1>8. transfer # None <=> Carried(o)
  BY <1>3 DEF Beside, Carried
<1>9. transfer \in Ids => \E k \in DOMAIN restarts : restarts[k] = transfer
  <2>1. SUFFICES ASSUME transfer \in Ids PROVE \E k \in DOMAIN restarts : restarts[k] = transfer
    OBVIOUS
  <2>2. transfer # Abort /\ transfer # None
    BY <2>1, ConditionsAssumption DEF Ids, Abort
  <2> QED BY <1>3, <2>2, Standing DEF Beside
<1>10. flow = Running /\ ~Cleaning => transfer = None /\ record = NoRecord
  BY <1>1, <1>3, <1>4, FlowKinds DEF Cleaning, Cleans, Beside
<1> QED BY <1>6, <1>7, <1>8, <1>9, <1>10 DEF TransferCarried

\* What the host has recorded about an error, and about a restart transfer, describes
\* what unwinds and nothing else, and the call a transfer is to has not been left: for
\* scripts whose cleanups use no conditions.
THEOREM WhatUnwindsIsRecorded == Spec => []RecordKept
BY InitTells, NextTells, ToldIs, PTL DEF Spec

-----------------------------------------------------------------------------
(* Where an error lands *)

\* The calls that absorb an error of condition c.
Catcher(a, c) == a.op = "tryCatch" /\ a.phase = "body" /\ Matches(a, c) # {}
Catches(a, c) == a.op = "try" \/ Catcher(a, c)

\* Of the first k calls, those inside the running handler catch c.
CaughtBy(s, k, c) ==
    \A l \in 1..k : s[l].op = "signal" => \E m \in (l + 1)..k : Catches(s[m], c)

\* No tryCatch of the first k calls whose frame is i or inside it takes c: those
\* that have a handler for it are off.
Unanswered(s, k, i, c) ==
    \A l \in 1..k : Catcher(s[l], c) /\ i <= Frames(s, l) => Off(s, k, Frames(s, l))

\* What the walk of the k-th call has passed, and why it was started.
Walked(s, k) ==
    s[k].op = "signal" =>
        /\ <<s[k].by, s[k].cond>> \in Signals
        /\ Unanswered(s, k - 1, s[k].at, s[k].cond)
        /\ \/ CaughtBy(s, k - 1, s[k].cond)
           \/ s[k].by # "stop" /\ Unanswered(s, k - 1, 1, s[k].cond)

\* An error of condition c that comes out of the first n calls is caught inside the
\* handler that raised it, and by the tryCatch of frame to unless a try is inside it.
Lands(s, n, c, to) ==
    /\ CaughtBy(s, n, c)
    /\ \A k \in 1..n :
           Catcher(s[k], c) /\ (\A l \in (k + 1)..n : ~Catches(s[l], c)) => Frames(s, k) = to

Landing(s, o) == o.how = "err" /\ o.msg # Transfer => Lands(s, Len(s), o.msg, o.to)
AllWalked(s)  == \A k \in 1..Len(s) : Walked(s, k)

Promised(s, f) == AllWalked(s) /\ Landing(s, Outcome(s, f))

\* A script whose calling handlers catch the errors they raise, besides.
Contained == Quiet /\ Program.contained

IInvTaken ==
    /\ IInvRecord
    /\ Contained => Promised(stack, flow)

\* The frame of a tryCatch that has a handler for c is for c.
LEMMA CatcherFrame ==
    ASSUME NEW s, Len(s) \in Nat, NEW hs, NEW rs, Shape(s, hs, rs),
           NEW k \in 1..Len(s), NEW c, Catcher(s[k], c), NEW i, i = Frames(s, k)
    PROVE  /\ i \in 1..Len(hs) /\ ~hs[i].calling
           /\ Answers(hs[i], c) <=> ~Off(s, Len(s), i)
<1>1. Installs(s[k]) /\ s[k].op = "tryCatch" /\ k \in Nat /\ k <= Len(s)
  BY DEF Catcher, Installs
<1>2. FrameOf(s, hs, k) /\ Len(hs) = Frames(s, Len(s)) /\ DisabledAs(s, hs)
  BY DEF Shape, Stands
<1>3. i \in 1..Len(hs)
  <2>1. Frames(s, k) <= Frames(s, Len(s)) /\ Frames(s, Len(s)) \in Nat
    BY <1>1, FramesGrow, FrameStep
  <2>2. PICK m \in Nat : k = m + 1
    <3>1. k - 1 \in Nat /\ k = (k - 1) + 1
      OBVIOUS
    <3> QED BY <3>1
  <2>3. Frames(s, k) = Frames(s, m) + 1 /\ Frames(s, m) \in Nat
    BY <1>1, <2>2, FrameStep
  <2> QED BY <1>2, <2>1, <2>3
<1>4. hs[i].on = s[k].on /\ ~hs[i].calling /\ ~hs[i].muffle
  BY <1>1, <1>2 DEF FrameOf
<1>5. Matches(hs[i], c) = Matches(s[k], c)
  BY <1>4 DEF Matches
<1>6. Matches(hs[i], c) # {}
  BY <1>5 DEF Catcher
<1>7. hs[i].disabled <=> Off(s, Len(s), i)
  BY <1>2, <1>3 DEF DisabledAs
<1> QED BY <1>3, <1>4, <1>6, <1>7 DEF Answers

\* An exiting frame that answers c is that of a tryCatch that has a handler for it.
LEMMA FrameCatcher ==
    ASSUME NEW s, Len(s) \in Nat, NEW hs, NEW rs, Shape(s, hs, rs),
           NEW i \in 1..Len(hs), ~hs[i].calling, NEW c, Answers(hs[i], c)
    PROVE  \E k \in 1..Len(s) : Catcher(s[k], c) /\ Frames(s, k) = i
<1>1. i \in 1..Frames(s, Len(s))
  BY DEF Shape
<1>2. PICK k \in 1..Len(s) : Installs(s[k]) /\ Frames(s, k) = i
  BY <1>1, FrameIsOf
<1>3. FrameOf(s, hs, k)
  BY DEF Shape, Stands
<1>4. s[k].op = "tryCatch" /\ s[k].phase = "body" /\ hs[i].on = s[k].on /\ ~hs[i].muffle
  BY <1>2, <1>3 DEF FrameOf, Installs
<1>5. Matches(hs[i], c) = Matches(s[k], c)
  BY <1>4 DEF Matches
<1>6. Matches(hs[i], c) # {}
  BY <1>4 DEF Answers
<1> QED BY <1>2, <1>4, <1>5, <1>6 DEF Catcher

\* Where the walk for an error ends: at j, and not inside it.
EndsAt(hs, c, j) ==
    /\ j # 0 => ~hs[j].calling /\ Answers(hs[j], c)
    /\ \A k \in j + 1..Len(hs) : hs[k].calling \/ ~Answers(hs[k], c)

\* An error caught inside the handler that raised it lands where its walk ends: the
\* innermost tryCatch that has a handler for it is inside every handler that runs.
LEMMA LandsThere ==
    ASSUME NEW s, Len(s) \in Nat, NEW hs, NEW rs, Shape(s, hs, rs), Len(hs) \in Nat,
           NEW c, CaughtBy(s, Len(s), c), NEW j \in 0..Len(hs), EndsAt(hs, c, j)
    PROVE  Lands(s, Len(s), c, j)
<1>1. SUFFICES ASSUME NEW k \in 1..Len(s), Catcher(s[k], c),
                      \A l \in (k + 1)..Len(s) : ~Catches(s[l], c)
               PROVE  Frames(s, k) = j
  BY DEF Lands
<1>2. PICK i : i = Frames(s, k)
  OBVIOUS
<1>3. /\ i \in 1..Len(hs) /\ ~hs[i].calling
      /\ Answers(hs[i], c) <=> ~Off(s, Len(s), i)
  BY <1>1, <1>2, CatcherFrame
<1>4. ~Off(s, Len(s), i)
  <2>1. SUFFICES ASSUME NEW l \in 1..Len(s), Signalling(s[l]), i <= Frames(s, l)
                 PROVE  FALSE
    BY DEF Off
  <2>2. PICK m \in (l + 1)..Len(s) : Catches(s[m], c)
    BY <2>1 DEF CaughtBy, Signalling
  <2>3. ~(m \in (k + 1)..Len(s))
    BY <1>1, <2>2
  <2>4. l \in Nat /\ k \in Nat /\ l < k
    BY <2>3
  <2>5. Installs(s[k])
    BY <1>1 DEF Catcher, Installs
  <2>6. Frames(s, l) < Frames(s, k) /\ Frames(s, l) \in Nat
    BY <2>4, <2>5, FramesGrow, FrameStep
  <2> QED BY <1>2, <1>3, <2>1, <2>6
<1>5. Answers(hs[i], c)
  BY <1>3, <1>4
<1>6. ~(j < i)
  BY <1>3, <1>5 DEF EndsAt
<1>7. ~(i < j)
  <2>1. SUFFICES ASSUME i < j PROVE FALSE
    OBVIOUS
  <2>2. j \in 1..Len(hs) /\ j # 0
    BY <2>1, <1>3
  <2>3. ~hs[j].calling /\ Answers(hs[j], c)
    BY <2>2 DEF EndsAt
  <2>4. PICK m \in 1..Len(s) : Catcher(s[m], c) /\ Frames(s, m) = j
    BY <2>2, <2>3, FrameCatcher
  <2>5. k < m
    <3>1. SUFFICES ASSUME m <= k PROVE FALSE
      OBVIOUS
    <3>2. Frames(s, m) <= Frames(s, k)
      <4>1. m \in Nat /\ k \in Nat
        OBVIOUS
      <4> QED BY <3>1, <4>1, FramesGrow
    <3> QED BY <1>2, <1>3, <2>1, <2>4, <3>2
  <2>6. m \in (k + 1)..Len(s)
    BY <2>5
  <2> QED BY <1>1, <2>4, <2>6 DEF Catches
<1> QED BY <1>2, <1>3, <1>6, <1>7

\* The calls below a walk decide what it has passed.
LEMMA PassedSame ==
    ASSUME NEW s, NEW t, NEW n \in Nat, \A l \in 1..n : s[l] = t[l]
    PROVE  /\ \A i, c : Unanswered(s, n, i, c) <=> Unanswered(t, n, i, c)
           /\ \A c : CaughtBy(s, n, c) <=> CaughtBy(t, n, c)
<1>1. \A l \in 1..n : s[l] = t[l] /\ Frames(s, l) = Frames(t, l)
  <2>1. SUFFICES ASSUME NEW l \in 1..n PROVE s[l] = t[l] /\ Frames(s, l) = Frames(t, l)
    OBVIOUS
  <2>2. l \in 0..n
    OBVIOUS
  <2> QED BY <2>2, FramesSame
<1>2. \A j : Off(s, n, j) <=> Off(t, n, j)
  <2>1. ASSUME NEW j PROVE Off(s, n, j) <=> Off(t, n, j)
    <3>1. n \in 0..n
      OBVIOUS
    <3> QED BY <3>1, OffSame
  <2> QED BY <2>1
<1>3. \A i, c : Unanswered(s, n, i, c) <=> Unanswered(t, n, i, c)
  BY <1>1, <1>2 DEF Unanswered
<1>4. \A c : CaughtBy(s, n, c) <=> CaughtBy(t, n, c)
  <2>1. \A l \in 1..n : \A i \in (l + 1)..n : s[i] = t[i]
    OBVIOUS
  <2> QED BY <1>1, <2>1 DEF CaughtBy
<1> QED BY <1>3, <1>4

\* And what the walk itself says of them.
LEMMA WalkedSame ==
    ASSUME NEW s, NEW t, NEW m \in Nat, \A l \in 1..m : s[l] = t[l],
           NEW k \in 1..m, Walked(s, k)
    PROVE  Walked(t, k)
<1>1. PICK n \in Nat : n = k - 1 /\ n <= m
  <2>1. k - 1 \in Nat /\ k - 1 <= m
    OBVIOUS
  <2> QED BY <2>1
<1>2. \A l \in 1..n : s[l] = t[l]
  BY <1>1
<1>3. /\ \A i, c : Unanswered(s, n, i, c) <=> Unanswered(t, n, i, c)
      /\ \A c : CaughtBy(s, n, c) <=> CaughtBy(t, n, c)
  BY <1>2, PassedSame
<1> QED BY <1>1, <1>3 DEF Walked

\* A call that neither signals nor catches does not change where an error lands.
LEMMA LandsBelow ==
    ASSUME NEW s, NEW n \in Nat, NEW m \in Nat, NEW t, \A l \in 1..m : s[l] = t[l],
           n = m + 1, NEW c, s[n].op # "signal", ~Catches(s[n], c),
           NEW to, Lands(s, n, c, to)
    PROVE  Lands(t, m, c, to)
<1>1. CaughtBy(t, m, c)
  <2>1. SUFFICES ASSUME NEW l \in 1..m, t[l].op = "signal"
                 PROVE  \E i \in (l + 1)..m : Catches(t[i], c)
    BY DEF CaughtBy
  <2>2. l \in 1..n /\ s[l].op = "signal"
    BY <2>1
  <2>3. PICK i \in (l + 1)..n : Catches(s[i], c)
    BY <2>2 DEF Lands, CaughtBy
  <2>4. i # n
    BY <2>3
  <2>5. i \in (l + 1)..m /\ i \in 1..m
    BY <2>4
  <2> QED BY <2>3, <2>5
<1>2. SUFFICES ASSUME NEW k \in 1..m, Catcher(t[k], c),
                      \A l \in (k + 1)..m : ~Catches(t[l], c)
               PROVE  Frames(t, k) = to
  BY <1>1 DEF Lands
<1>3. k \in 1..n /\ k \in 0..m /\ s[k] = t[k]
  OBVIOUS
<1>4. \A l \in (k + 1)..n : ~Catches(s[l], c)
  <2>1. \A l \in (k + 1)..n : l = n \/ (l \in (k + 1)..m /\ l \in 1..m)
    OBVIOUS
  <2> QED BY <1>2, <2>1
<1>5. Frames(s, k) = to
  BY <1>2, <1>3, <1>4 DEF Lands
<1> QED BY <1>3, <1>5, FramesSame

\* Nor does one that takes its place.
LEMMA LandsAbove ==
    ASSUME NEW t, NEW n \in Nat, NEW m \in Nat, n = m + 1, NEW c,
           t[n].op # "signal", ~Catches(t[n], c), NEW to, Lands(t, m, c, to)
    PROVE  Lands(t, n, c, to)
<1>1. CaughtBy(t, n, c)
  <2>1. SUFFICES ASSUME NEW l \in 1..n, t[l].op = "signal"
                 PROVE  \E i \in (l + 1)..n : Catches(t[i], c)
    BY DEF CaughtBy
  <2>2. l \in 1..m
    BY <2>1
  <2>3. PICK i \in (l + 1)..m : Catches(t[i], c)
    BY <2>1, <2>2 DEF Lands, CaughtBy
  <2>4. i \in (l + 1)..n
    OBVIOUS
  <2> QED BY <2>3, <2>4
<1>2. SUFFICES ASSUME NEW k \in 1..n, Catcher(t[k], c),
                      \A l \in (k + 1)..n : ~Catches(t[l], c)
               PROVE  Frames(t, k) = to
  BY <1>1 DEF Lands
<1>3. k # n
  BY <1>2 DEF Catches
<1>4. k \in 1..m /\ \A l \in (k + 1)..m : l \in (k + 1)..n
  BY <1>3
<1> QED BY <1>2, <1>4 DEF Lands

-----------------------------------------------------------------------------
(* Where errors land is kept *)

\* Only the innermost call is new.
LEMMA WalkedTo ==
    ASSUME IInv, AllWalked(stack), NEW t, NEW m \in Nat, m <= Len(stack),
           \A l \in 1..m : stack[l] = t[l], Len(t) = m \/ Len(t) = m + 1,
           Len(t) = m + 1 => Walked(t, m + 1)
    PROVE  AllWalked(t)
<1>1. SUFFICES ASSUME NEW k \in 1..Len(t) PROVE Walked(t, k)
  BY DEF AllWalked
<1>2. CASE k \in 1..m
  <2>1. k \in 1..Len(stack)
    BY <1>2, Standing
  <2>2. Walked(stack, k)
    BY <2>1 DEF AllWalked
  <2> QED BY <1>2, <2>2, WalkedSame
<1>3. CASE ~(k \in 1..m)
  <2>1. Len(t) = m + 1 /\ k = m + 1
    BY <1>3
  <2> QED BY <2>1
<1> QED BY <1>2, <1>3

\* A call is entered.
LEMMA WalkedPush ==
    ASSUME IInv, AllWalked(stack), NEW a, stack' = Append(stack, a),
           Walked(stack', Len(stack) + 1)
    PROVE  AllWalked(stack')
<1>1. PICK n \in Nat : n = Len(stack) /\ n <= n
  <2>1. Len(stack) \in Nat
    BY Standing
  <2>2. Len(stack) <= Len(stack)
    BY <2>1
  <2> QED BY <2>1, <2>2
<1>2. Len(stack') = n + 1 /\ \A l \in 1..n : stack[l] = stack'[l]
  BY <1>1, Pushes
<1>3. PICK t : t = stack'
  OBVIOUS
<1>4. AllWalked(t)
  BY <1>1, <1>2, <1>3, WalkedTo
<1> QED BY <1>3, <1>4

\* A call is left.
LEMMA WalkedPop ==
    ASSUME IInv, AllWalked(stack), Act.op # "top", Over
    PROVE  AllWalked(stack')
<1>1. PICK m \in Nat : m = Len(stack) - 1 /\ m <= Len(stack) /\ m # m + 1
  <2>1. Len(stack) - 1 \in Nat /\ Len(stack) \in Nat
    BY Pops, Standing
  <2>2. Len(stack) - 1 <= Len(stack) /\ Len(stack) - 1 # (Len(stack) - 1) + 1
    BY <2>1
  <2> QED BY <2>1, <2>2
<1>2. Len(stack') = m /\ \A l \in 1..m : stack[l] = stack'[l]
  BY <1>1, Pops
<1>3. PICK t : t = stack'
  OBVIOUS
<1>4. AllWalked(t)
  BY <1>1, <1>2, <1>3, WalkedTo
<1> QED BY <1>3, <1>4

\* A call enters another phase.
LEMMA WalkedTurn ==
    ASSUME IInv, AllWalked(stack), NEW a, Phase(a), Walked(stack', Len(stack))
    PROVE  AllWalked(stack')
<1>1. PICK m \in Nat : m = Len(stack) - 1 /\ m <= Len(stack) /\ Len(stack) = m + 1
  <2>1. Len(stack) \in Nat \ {0}
    BY Standing
  <2>2. Len(stack) - 1 \in Nat /\ Len(stack) - 1 <= Len(stack)
        /\ Len(stack) = (Len(stack) - 1) + 1
    BY <2>1
  <2> QED BY <2>2
<1>2. Len(stack') = m + 1 /\ \A l \in 1..m : stack[l] = stack'[l]
  BY <1>1, Turns
<1>3. PICK t : t = stack'
  OBVIOUS
<1>4. Walked(t, m + 1)
  BY <1>1, <1>3
<1>5. AllWalked(t)
  BY <1>1, <1>2, <1>3, <1>4, WalkedTo
<1> QED BY <1>3, <1>5

\* Nothing that has to land.
LEMMA LandsNone ==
    ASSUME NEW f, f \in {Running, Walking}, NEW s
    PROVE  Landing(s, f)
BY FlowKinds DEF Landing

\* A call is left that neither signals nor catches what is on its way.
LEMMA PopLands ==
    ASSUME IInv, NEW o, Landing(stack, o), Act.op \notin {"top", "signal"}, Over,
           o.how = "err" /\ o.msg # Transfer => ~Catches(Act, o.msg)
    PROVE  Landing(stack', o)
<1>1. SUFFICES ASSUME o.how = "err", o.msg # Transfer
               PROVE  Lands(stack', Len(stack'), o.msg, o.to)
  BY DEF Landing
<1>2. PICK m \in Nat : m = Len(stack) - 1 /\ Len(stack) = m + 1
  BY FewerFrames
<1>3. PICK t : t = stack' /\ Len(t) = m /\ \A l \in 1..m : stack[l] = t[l]
  BY <1>2, Pops
<1>4. PICK n \in Nat : n = m + 1 /\ stack[n] = Act
  BY <1>2, Standing
<1>5. PICK c, to : c = o.msg /\ to = o.to
  OBVIOUS
<1>6. Lands(stack, n, c, to)
  BY <1>1, <1>2, <1>4, <1>5 DEF Landing
<1>7. stack[n].op # "signal" /\ ~Catches(stack[n], c)
  BY <1>1, <1>4, <1>5
<1>8. Lands(t, m, c, to)
  BY <1>3, <1>4, <1>6, <1>7, LandsBelow
<1> QED BY <1>3, <1>5, <1>8

\* Such a call enters another phase that neither signals nor catches.
LEMMA TurnLands ==
    ASSUME IInv, NEW o, Landing(stack, o), Act.op \notin {"top", "signal"},
           o.how = "err" /\ o.msg # Transfer => ~Catches(Act, o.msg),
           NEW a, Phase(a), a.op # "signal", \A c : ~Catches(a, c)
    PROVE  Landing(stack', o)
<1>1. SUFFICES ASSUME o.how = "err", o.msg # Transfer
               PROVE  Lands(stack', Len(stack'), o.msg, o.to)
  BY DEF Landing
<1>2. PICK m \in Nat : m = Len(stack) - 1 /\ Len(stack) = m + 1
  BY FewerFrames
<1>3. PICK t : t = stack' /\ Len(t) = m + 1 /\ t[m + 1] = a /\ \A l \in 1..m : stack[l] = t[l]
  BY <1>2, Turns
<1>4. PICK n \in Nat : n = m + 1 /\ stack[n] = Act
  BY <1>2, Standing
<1>5. PICK c, to : c = o.msg /\ to = o.to
  OBVIOUS
<1>6. Lands(stack, n, c, to)
  BY <1>1, <1>2, <1>4, <1>5 DEF Landing
<1>7. stack[n].op # "signal" /\ ~Catches(stack[n], c)
  BY <1>1, <1>4, <1>5
<1>8. Lands(t, m, c, to)
  BY <1>3, <1>4, <1>6, <1>7, LandsBelow
<1>9. t[n].op # "signal" /\ ~Catches(t[n], c)
  BY <1>3, <1>4
<1>10. Lands(t, n, c, to)
  BY <1>4, <1>8, <1>9, LandsAbove
<1> QED BY <1>3, <1>4, <1>5, <1>10

\* What is not a tryCatch whose body runs, nor a try, catches nothing.
LEMMA CatchesNot ==
    ASSUME NEW a, a.op # "try", a.op # "tryCatch" \/ a.phase # "body"
    PROVE  \A c : ~Catches(a, c)
BY DEF Catches, Catcher

\* A call is left with what is on its way.
LEMMA PopPromises ==
    ASSUME IInv, Told(stack, flow, transfer, record, restarts), Promised(stack, flow),
           Act.op \notin {"top", "signal"}, Over,
           LET o == Outcome(stack, flow)
           IN  /\ o.how = "err" /\ o.msg # Transfer => ~Catches(Act, o.msg)
               /\ flow' = o \/ flow' = Running
    PROVE  Promised(stack, flow)'
<1>1. PICK o : o = Outcome(stack, flow)
  OBVIOUS
<1>2. AllWalked(stack')
  BY WalkedPop DEF Promised
<1>3. Landing(stack, o) /\ OneCleanup(stack, flow)
  BY <1>1 DEF Promised, Told
<1>4. Landing(stack', o)
  BY <1>1, <1>3, PopLands
<1>5. PICK f : f = flow'
  OBVIOUS
<1>6. Outcome(stack', f) = f
  BY <1>3, TellPop
<1>7. Landing(stack', f)
  BY <1>1, <1>4, <1>5, LandsNone
<1> QED BY <1>2, <1>5, <1>6, <1>7 DEF Promised

\* A call enters a phase that neither signals nor catches, with what is on its way put
\* aside if that is a cleanup.
LEMMA TurnPromises ==
    ASSUME IInv, Told(stack, flow, transfer, record, restarts), Promised(stack, flow),
           Act.op \notin {"top", "signal"}, ~Cleans(Act),
           flow.how = "err" /\ flow.msg # Transfer => ~Catches(Act, flow.msg),
           NEW a, Phase(a), a.op # "signal", \A c : ~Catches(a, c), flow' = Running,
           Cleans(a) => a.out = flow
    PROVE  Promised(stack, flow)'
<1>1. OneCleanup(stack, flow) /\ Outcome(stack, flow) = flow
  BY Below DEF Told
<1>2. PICK n \in Nat \ {0} : n = Len(stack)
  BY Standing
<1>3. stack'[n] = a
  BY <1>2, Turns
<1>4. AllWalked(stack')
  <2>1. Walked(stack', n)
    BY <1>3 DEF Walked
  <2> QED BY <1>2, <2>1, WalkedTurn DEF Promised
<1>5. Landing(stack', flow)
  BY <1>1, TurnLands DEF Promised
<1>6. PICK f : f = flow' /\ f = Running
  OBVIOUS
<1>7. Outcome(stack', f) = IF Cleans(a) THEN a.out ELSE f
  BY <1>1, <1>6, TellTurn
<1>8. PICK t : t = stack'
  OBVIOUS
<1>9. Landing(t, Outcome(t, f))
  <2>1. CASE Cleans(a)
    BY <1>5, <1>7, <1>8, <2>1
  <2>2. CASE ~Cleans(a)
    <3>1. f \in {Running, Walking}
      BY <1>6
    <3>2. Landing(t, f)
      BY <3>1, LandsNone
    <3> QED BY <1>7, <1>8, <2>2, <3>2
  <2> QED BY <2>1, <2>2
<1> QED BY <1>4, <1>6, <1>8, <1>9 DEF Promised


-----------------------------------------------------------------------------
(* Calls entered *)

\* What CaughtLocally says is that every handler that runs has a call inside it that
\* catches the error.
LEMMA LocallyCaught ==
    ASSUME IInv, NEW c, CaughtLocally(c)
    PROVE  CaughtBy(stack, Len(stack), c)
<1>1. PICK n \in Nat : n = Len(stack) /\ DOMAIN stack = 1..n
  BY Standing
<1>2. SUFFICES ASSUME NEW l \in 1..n, stack[l].op = "signal"
               PROVE  \E m \in (l + 1)..n : Catches(stack[m], c)
  BY <1>1 DEF CaughtBy
<1> DEFINE T == {x \in 1..n : stack[x].op = "signal"}
<1>3. T \subseteq Nat /\ T # {} /\ \A x \in T : x <= n
  BY <1>2
<1>4. PICK g \in T : \A y \in T : y <= g
  BY <1>3, GreatestElement
<1>5. g \in Innermost("signal")
  <2>1. \A x \in (g + 1)..n : x \in 1..n /\ ~(x <= g)
    OBVIOUS
  <2>2. \A x \in (g + 1)..n : stack[x].op # "signal"
    BY <1>4, <2>1
  <2> QED BY <1>1, <2>2 DEF Innermost
<1>6. PICK m \in (g + 1)..n : Catches(stack[m], c)
  BY <1>1, <1>5 DEF CaughtLocally, Catches, Catcher
<1>7. l <= g
  BY <1>2, <1>4
<1>8. m \in (l + 1)..n
  BY <1>7
<1> QED BY <1>6, <1>8

\* A walk that no exiting handler would answer leaves none unanswered.
LEMMA NoExit ==
    ASSUME IInv, NEW c, ExitFor(c, 0)
    PROVE  Unanswered(stack, Len(stack), 1, c)
<1>1. SUFFICES ASSUME NEW l \in 1..Len(stack), Catcher(stack[l], c)
               PROVE  Off(stack, Len(stack), Frames(stack, l))
  BY DEF Unanswered
<1>2. PICK i : i = Frames(stack, l)
  OBVIOUS
<1>3. Len(stack) \in Nat /\ Shape(stack, handlers, restarts) /\ Len(handlers) \in Nat
  BY Standing DEF IInv
<1>4. /\ i \in 1..Len(handlers) /\ ~handlers[i].calling
      /\ Answers(handlers[i], c) <=> ~Off(stack, Len(stack), i)
  BY <1>1, <1>2, <1>3, CatcherFrame
<1>5. ~Answers(handlers[i], c)
  BY <1>3, <1>4 DEF ExitFor
<1> QED BY <1>2, <1>4, <1>5

\* A call is entered that does not signal.
LEMMA PushPromises ==
    ASSUME IInv, Quiet, Told(stack, flow, transfer, record, restarts),
           Promised(stack, flow),
           NEW a, Enter(a), a.phase = "body", a.op # "signal", flow' = Running
    PROVE  Promised(stack, flow)'
<1>1. ~Cleans(Act)
  BY FreeIs DEF Enter
<1>2. OneCleanup(stack, flow) /\ ~Cleans(a) /\ stack' = Append(stack, a)
  BY DEF Told, Enter, Cleans
<1>3. Walked(stack', Len(stack) + 1)
  <2>1. stack'[Len(stack) + 1] = a
    BY <1>2, Pushes
  <2> QED BY <2>1 DEF Walked
<1>4. AllWalked(stack')
  BY <1>2, <1>3, WalkedPush DEF Promised
<1>5. PICK f : f = flow' /\ f = Running
  OBVIOUS
<1>6. Outcome(stack', f) = f
  BY <1>1, <1>2, TellPush
<1>7. PICK t : t = stack'
  OBVIOUS
<1>8. f \in {Running, Walking}
  BY <1>5
<1>9. Landing(t, f)
  BY <1>8, LandsNone
<1> QED BY <1>4, <1>5, <1>6, <1>7, <1>9 DEF Promised

\* The calls a program enters but signals.
LEMMA EnterPromises ==
    ASSUME IInv, Quiet, Told(stack, flow, transfer, record, restarts),
           Promised(stack, flow),
           \/ \E on \in HandlerLists, finally \in BOOLEAN : TryCatch(on, finally)
           \/ \E on \in HandlerLists : WithCallingHandlers(on)
           \/ SuppressWarnings \/ Try \/ WithRestarts
           \/ \E exit \in BOOLEAN : Call(exit)
    PROVE  Promised(stack, flow)'
<1>1. \E a : Enter(a) /\ a.phase = "body" /\ a.op # "signal"
  <2>1. CASE \E on \in HandlerLists, finally \in BOOLEAN : TryCatch(on, finally)
    <3>1. PICK on \in HandlerLists, finally \in BOOLEAN : TryCatch(on, finally)
      BY <2>1
    <3>2. PICK a : a = [op |-> "tryCatch", phase |-> "body", on |-> on,
                        cleanup |-> finally, out |-> Running]
      OBVIOUS
    <3> QED BY <3>1, <3>2 DEF TryCatch
  <2>2. CASE (\E on \in HandlerLists : WithCallingHandlers(on)) \/ SuppressWarnings \/ Try
    <3>1. PICK op \in {"withCallingHandlers", "suppressWarnings", "try"} :
              Enter([op |-> op, phase |-> "body"])
      BY <2>2 DEF WithCallingHandlers, SuppressWarnings, Try
    <3>2. PICK a : a = [op |-> op, phase |-> "body"]
      OBVIOUS
    <3>3. a.phase = "body" /\ a.op # "signal"
      BY <3>1, <3>2
    <3> QED BY <3>1, <3>2, <3>3
  <2>3. CASE WithRestarts
    <3>1. PICK a : a = [op |-> "withRestarts", phase |-> "body", id |-> nextId + 1]
      OBVIOUS
    <3> QED BY <2>3, <3>1 DEF WithRestarts
  <2>4. CASE \E exit \in BOOLEAN : Call(exit)
    <3>1. PICK exit \in BOOLEAN : Call(exit)
      BY <2>4
    <3>2. PICK a : a = [op |-> "call", phase |-> "body", cleanup |-> exit, out |-> Running]
      OBVIOUS
    <3> QED BY <3>1, <3>2 DEF Call
  <2> QED BY <2>1, <2>2, <2>3, <2>4
<1>2. flow' = Running
  <2>1. CASE \/ \E on \in HandlerLists, finally \in BOOLEAN : TryCatch(on, finally)
             \/ \E on \in HandlerLists : WithCallingHandlers(on)
             \/ \E exit \in BOOLEAN : Call(exit)
    BY <2>1 DEF TryCatch, WithCallingHandlers, Call, Enter, Free
  <2>2. CASE SuppressWarnings \/ Try \/ WithRestarts
    BY <2>2 DEF SuppressWarnings, Try, WithRestarts, Enter, Free
  <2> QED BY <2>1, <2>2
<1> QED BY <1>1, <1>2, PushPromises

\* A condition is signalled: its walk has passed nothing yet.
LEMMA SignalPromises ==
    ASSUME IInv, Contained, Told(stack, flow, transfer, record, restarts),
           Promised(stack, flow), NEW s \in Signals, Signal(s[1], s[2])
    PROVE  Promised(stack, flow)'
<1>1. PICK n \in Nat : n = Len(stack)
  BY Standing
<1>2. PICK by, c : by = s[1] /\ c = s[2]
  OBVIOUS
<1>3. <<by, c>> \in Signals
  BY <1>2 DEF Signals
<1>4. PICK a : a = Signaller(by, c)
  OBVIOUS
<1>5. /\ Enter(a) /\ a.op = "signal" /\ ~Cleans(a)
      /\ a.by = by /\ a.cond = c /\ a.at = Len(handlers) + 1
  BY <1>2, <1>4 DEF Signal, Signaller, Cleans
<1>6. ~Cleans(Act) /\ OneCleanup(stack, flow) /\ stack' = Append(stack, a)
  BY <1>5, FreeIs DEF Enter, Told, Contained
<1>7. PICK t : t = stack' /\ t[n + 1] = a /\ \A l \in 1..n : stack[l] = t[l]
  BY <1>1, <1>6, Pushes
<1>8. /\ \A i, d : Unanswered(stack, n, i, d) <=> Unanswered(t, n, i, d)
      /\ \A d : CaughtBy(stack, n, d) <=> CaughtBy(t, n, d)
  BY <1>7, PassedSame
<1>9. Unanswered(stack, n, a.at, c)
  <2>1. SUFFICES ASSUME NEW l \in 1..n, a.at <= Frames(stack, l) PROVE FALSE
    BY DEF Unanswered
  <2>2. Frames(stack, l) <= Frames(stack, n) /\ Frames(stack, l) \in Nat
    BY FramesGrow, FrameStep
  <2>3. Len(handlers) = Frames(stack, n) /\ Len(handlers) \in Nat
    BY <1>1, Standing
  <2> QED BY <1>5, <2>1, <2>2, <2>3
<1>10. CaughtBy(stack, n, c) \/ (by # "stop" /\ Unanswered(stack, n, 1, c))
  <2>1. CaughtLocally(c) \/ (by # "stop" /\ ExitFor(c, 0))
    BY <1>2 DEF Signal, Contained
  <2> QED BY <1>1, <2>1, LocallyCaught, NoExit
<1>11. Walked(t, n + 1)
  <2>1. PICK k : k = n + 1 /\ k - 1 = n
    OBVIOUS
  <2>2. Walked(t, k)
    BY <1>3, <1>5, <1>7, <1>8, <1>9, <1>10, <2>1 DEF Walked
  <2> QED BY <2>1, <2>2
<1>12. AllWalked(stack')
  BY <1>1, <1>6, <1>7, <1>11, WalkedPush DEF Promised
<1>13. PICK f : f = flow' /\ f = Walking
  BY DEF Signal
<1>14. Outcome(stack', f) = f
  BY <1>5, <1>6, TellPush
<1>15. f \in {Running, Walking}
  BY <1>13
<1>16. Landing(t, f)
  BY <1>15, LandsNone
<1> QED BY <1>7, <1>12, <1>13, <1>14, <1>16 DEF Promised

\* invokeRestart, and a primitive that fails: its error lands where a walk would end.
LEMMA FlowPromises ==
    ASSUME IInv, Contained, Told(stack, flow, transfer, record, restarts),
           Promised(stack, flow),
           Fail \/ \E id \in Ids \cup {Abort} : InvokeRestart(id)
    PROVE  Promised(stack, flow)'
<1>1. Free /\ stack' = stack
  BY DEF Fail, InvokeRestart
<1>2. ~Cleans(Act) /\ OneCleanup(stack, flow)
  BY <1>1, FreeIs DEF Told, Contained
<1>3. PICK f : f = flow'
  OBVIOUS
<1>4. Outcome(stack, f) = f
  BY <1>2, TellSame
<1>5. Landing(stack, f)
  <2>1. CASE Fail
    <3>1. PICK c : c = "simpleError"
      OBVIOUS
    <3>2. PICK j \in 0..Len(handlers) : ExitFor(c, j) /\ f = Err(c, j)
      BY <1>3, <2>1, <3>1 DEF Fail
    <3>3. f.msg = c /\ f.to = j
      BY <3>2 DEF Err
    <3>4. CaughtBy(stack, Len(stack), c)
      BY <2>1, <3>1, LocallyCaught DEF Fail, Contained
    <3>5. EndsAt(handlers, c, j)
      BY <3>2 DEF ExitFor, EndsAt
    <3>6. Len(stack) \in Nat /\ Shape(stack, handlers, restarts) /\ Len(handlers) \in Nat
      BY Standing DEF IInv
    <3>7. Lands(stack, Len(stack), c, j)
      BY <3>4, <3>5, <3>6, LandsThere
    <3> QED BY <3>3, <3>7 DEF Landing
  <2>2. CASE \E id \in Ids \cup {Abort} : InvokeRestart(id)
    BY <1>3, <2>2 DEF InvokeRestart, Landing, Err
  <2> QED BY <2>1, <2>2
<1> QED BY <1>1, <1>3, <1>4, <1>5 DEF Promised

-----------------------------------------------------------------------------
(* The walk goes on *)

\* The innermost call signals on, and what it has passed is unanswered.
LEMMA TurnWalks ==
    ASSUME IInv, Told(stack, flow, transfer, record, restarts), Promised(stack, flow),
           Act.op = "signal", ~Cleans(Act), Walked(stack, Len(stack)),
           NEW a, Phase(a), a.op = "signal", ~Cleans(a),
           a.by = Act.by, a.cond = Act.cond,
           Unanswered(stack, Len(stack) - 1, a.at, a.cond),
           flow' \in {Running, Walking}
    PROVE  Promised(stack, flow)'
<1>1. PICK n \in Nat \ {0} : n = Len(stack) /\ Act = stack[n]
  BY Standing
<1>2. PICK m \in Nat : m = n - 1
  BY <1>1
<1>3. PICK t : t = stack' /\ t[n] = a /\ \A l \in 1..m : stack[l] = t[l]
  BY <1>1, <1>2, Turns
<1>4. /\ \A i, d : Unanswered(stack, m, i, d) <=> Unanswered(t, m, i, d)
      /\ \A d : CaughtBy(stack, m, d) <=> CaughtBy(t, m, d)
  BY <1>3, PassedSame
<1>5. Walked(t, n)
  <2>1. /\ <<Act.by, Act.cond>> \in Signals
        /\ \/ CaughtBy(stack, m, Act.cond)
           \/ Act.by # "stop" /\ Unanswered(stack, m, 1, Act.cond)
    BY <1>1, <1>2 DEF Walked
  <2>2. Unanswered(t, m, a.at, a.cond)
    BY <1>1, <1>2, <1>4
  <2> QED BY <1>2, <1>3, <1>4, <2>1, <2>2 DEF Walked
<1>6. AllWalked(stack')
  BY <1>1, <1>3, <1>5, WalkedTurn DEF Promised
<1>7. PICK f : f = flow' /\ f \in {Running, Walking}
  OBVIOUS
<1>8. Outcome(stack', f) = f
  BY TellTurn DEF Told
<1>9. Landing(t, f)
  BY <1>7, LandsNone
<1> QED BY <1>3, <1>6, <1>7, <1>8, <1>9 DEF Promised

\* The innermost call's walk.
LEMMA ActWalked ==
    ASSUME IInv, Promised(stack, flow)
    PROVE  Walked(stack, Len(stack))
<1>1. Len(stack) \in Nat \ {0}
  BY Standing
<1>2. Len(stack) \in 1..Len(stack)
  BY <1>1
<1> QED BY <1>2 DEF Promised, AllWalked

\* A calling handler runs: between where the walk stood and its frame, none answers.
LEMMA RunCallingPromises ==
    ASSUME IInv, Told(stack, flow, transfer, record, restarts), Promised(stack, flow),
           NEW j \in 1..Len(handlers), RunCalling(j)
    PROVE  Promised(stack, flow)'
<1>1. Walk /\ Nearest(Act.at, Act.cond, j) /\ handlers[j].calling
  BY DEF RunCalling
<1>2. /\ Act.op = "signal" /\ Act \in SignalSet /\ ~Signalling(Act)
      /\ Act.at \in 1..(Len(handlers) + 1) /\ ~Cleans(Act)
  BY <1>1, WalkIs DEF SignalSet, Cleans
<1>3. PICK todo, saved :
          Phase([Act EXCEPT !.at = j, !.todo = todo, !.saved = saved])
  BY DEF RunCalling
<1>4. PICK a : a = [Act EXCEPT !.at = j, !.todo = todo, !.saved = saved]
  OBVIOUS
<1>5. /\ Phase(a) /\ a.op = "signal" /\ ~Cleans(a)
      /\ a.by = Act.by /\ a.cond = Act.cond /\ a.at = j
  BY <1>2, <1>3, <1>4 DEF SignalSet, Cleans
<1>6. PICK n \in Nat \ {0} : n = Len(stack) /\ Act = stack[n]
  BY Standing
<1>7. PICK m \in Nat : m = n - 1 /\ n = m + 1
  <2>1. n - 1 \in Nat /\ n = (n - 1) + 1
    OBVIOUS
  <2> QED BY <2>1
<1>8. PICK c : c = Act.cond
  OBVIOUS
<1>9. Unanswered(stack, m, j, c)
  <2>1. SUFFICES ASSUME NEW l \in 1..m, Catcher(stack[l], c), j <= Frames(stack, l)
                 PROVE  Off(stack, m, Frames(stack, l))
    BY DEF Unanswered
  <2>2. PICK i : i = Frames(stack, l)
    OBVIOUS
  <2>3. l \in 1..n
    BY <1>7
  <2>4. n \in Nat /\ Shape(stack, handlers, restarts) /\ Len(handlers) \in Nat
    BY Standing DEF IInv
  <2>5. /\ i \in 1..Len(handlers) /\ ~handlers[i].calling
        /\ Answers(handlers[i], c) <=> ~Off(stack, n, i)
    BY <1>6, <2>1, <2>2, <2>3, <2>4, CatcherFrame
  <2>6. CASE Act.at <= i
    <3>1. Unanswered(stack, m, Act.at, c)
      BY <1>2, <1>6, <1>7, <1>8, ActWalked DEF Walked
    <3> QED BY <2>1, <2>2, <2>6, <3>1 DEF Unanswered
  <2>7. CASE ~(Act.at <= i)
    <3>1. i # j
      BY <1>1, <2>5
    <3>2. i \in (j + 1)..(Act.at - 1)
      BY <1>2, <2>1, <2>2, <2>4, <2>5, <2>7, <3>1
    <3>3. ~Answers(handlers[i], c)
      BY <1>1, <1>8, <3>2 DEF Nearest
    <3>4. Off(stack, m + 1, i)
      BY <1>7, <2>5, <3>3
    <3>5. ~Signalling(stack[m + 1])
      BY <1>2, <1>6, <1>7
    <3>6. Off(stack, m, i)
      BY <3>4, <3>5, OffStep
    <3> QED BY <2>2, <3>6
  <2> QED BY <2>6, <2>7
<1>10. Unanswered(stack, Len(stack) - 1, a.at, a.cond)
  BY <1>5, <1>6, <1>7, <1>8, <1>9
<1>11. flow' \in {Running, Walking}
  BY DEF RunCalling
<1> QED BY <1>2, <1>5, <1>10, <1>11, ActWalked, TurnWalks

\* A calling handler returns: the walk stands where it stood.
LEMMA HandlerReturnsPromises ==
    ASSUME IInv, Told(stack, flow, transfer, record, restarts), Promised(stack, flow),
           HandlerReturns
    PROVE  Promised(stack, flow)'
<1>1. Act.op = "signal" /\ Act \in SignalSet /\ ~Cleans(Act)
  BY Standing, Kinds DEF HandlerReturns, In, Cleans
<1>2. PICK todo, saved : Phase([Act EXCEPT !.todo = todo])
                         \/ Phase([Act EXCEPT !.todo = todo, !.saved = saved])
  BY DEF HandlerReturns
<1>3. PICK a : /\ Phase(a)
               /\ \/ a = [Act EXCEPT !.todo = todo]
                  \/ a = [Act EXCEPT !.todo = todo, !.saved = saved]
  BY <1>2
<1>4. a.op = "signal" /\ a.phase = Act.phase
  BY <1>1, <1>3 DEF SignalSet
<1>5. a.by = Act.by /\ a.cond = Act.cond /\ a.at = Act.at
  BY <1>1, <1>3 DEF SignalSet
<1>6. ~Cleans(a)
  BY <1>1, <1>4 DEF Cleans
<1>7. Walked(stack, Len(stack)) /\ Act = stack[Len(stack)]
  BY ActWalked, Standing
<1>8. Unanswered(stack, Len(stack) - 1, Act.at, Act.cond)
  BY <1>1, <1>7 DEF Walked
<1>9. Unanswered(stack, Len(stack) - 1, a.at, a.cond)
  BY <1>5, <1>8
<1>10. flow' \in {Running, Walking}
  BY DEF HandlerReturns
<1> QED BY <1>1, <1>3, <1>4, <1>5, <1>6, <1>7, <1>9, <1>10, TurnWalks

\* Where a walk has passed, no exiting handler answers.
LEMMA Unopposed ==
    ASSUME NEW t, Len(t) \in Nat, NEW hs, NEW rs, Shape(t, hs, rs), NEW at, NEW c,
           Unanswered(t, Len(t), at, c), NEW k \in 1..Len(hs), at <= k, ~hs[k].calling
    PROVE  ~Answers(hs[k], c)
<1>1. SUFFICES ASSUME Answers(hs[k], c) PROVE FALSE
  OBVIOUS
<1>2. PICK l \in 1..Len(t) : Catcher(t[l], c) /\ Frames(t, l) = k
  BY <1>1, FrameCatcher
<1>3. Off(t, Len(t), k)
  BY <1>2 DEF Unanswered
<1>4. Answers(hs[k], c) <=> ~Off(t, Len(t), k)
  BY <1>2, CatcherFrame
<1> QED BY <1>1, <1>3, <1>4

\* A walk is over: the error it raises lands where it ended.
LEMMA WalkEndsPromises ==
    ASSUME IInv, IInv', Told(stack, flow, transfer, record, restarts),
           Promised(stack, flow), NEW j \in 0..Len(handlers), WalkEnds(j)
    PROVE  Promised(stack, flow)'
<1>1. /\ Act.op = "signal" /\ Act.op # "top" /\ Act.at \in 1..(Len(handlers) + 1) /\ Over
      /\ Nearest(Act.at, Act.cond, j) /\ handlers' = handlers
  BY WalkIs DEF WalkEnds
<1>2. PICK n \in Nat \ {0} : n = Len(stack) /\ Act = stack[n]
  BY Standing
<1>3. PICK m \in Nat : m = n - 1
  BY <1>2
<1>4. PICK t : t = stack' /\ Len(t) = m /\ \A l \in 1..m : stack[l] = t[l]
  BY <1>1, <1>2, <1>3, Pops
<1>5. PICK by, c : by = Act.by /\ c = Act.cond
  OBVIOUS
<1>6. /\ <<by, c>> \in Signals /\ Unanswered(t, m, Act.at, c)
      /\ \/ CaughtBy(t, m, c)
         \/ by # "stop" /\ Unanswered(t, m, 1, c)
  <2>1. /\ \A i, d : Unanswered(stack, m, i, d) <=> Unanswered(t, m, i, d)
        /\ \A d : CaughtBy(stack, m, d) <=> CaughtBy(t, m, d)
    BY <1>4, PassedSame
  <2>2. Walked(stack, n)
    BY <1>2, ActWalked
  <2> QED BY <1>1, <1>2, <1>3, <1>5, <2>1, <2>2 DEF Walked
<1>7. PICK hs, rs : hs = handlers /\ Shape(t, hs, rs) /\ Len(hs) \in Nat
  <2>1. Shape(stack', handlers', restarts')
    BY DEF IInv
  <2>2. Len(handlers) \in Nat
    BY Standing
  <2> QED BY <1>1, <1>4, <2>1, <2>2
<1>8. PICK at \in 1..(Len(hs) + 1) : at = Act.at
  BY <1>1, <1>7
<1>9. \A k \in 1..Len(hs) : at <= k /\ ~hs[k].calling => ~Answers(hs[k], c)
  <2>1. ASSUME NEW k \in 1..Len(hs), at <= k, ~hs[k].calling PROVE ~Answers(hs[k], c)
    <3>1. Unanswered(t, Len(t), at, c) /\ Len(t) \in Nat
      BY <1>4, <1>6, <1>8
    <3> QED BY <1>7, <2>1, <3>1, Unopposed
  <2> QED BY <2>1
<1>10. /\ j < at /\ (j # 0 => Answers(hs[j], c))
       /\ \A k \in (j + 1)..(at - 1) : ~Answers(hs[k], c)
  BY <1>1, <1>5, <1>7, <1>8 DEF Nearest
<1>11. j \in 0..Len(hs)
  BY <1>7
<1>12. \A k \in (j + 1)..Len(hs) : hs[k].calling \/ ~Answers(hs[k], c)
  <2>1. ASSUME NEW k \in (j + 1)..Len(hs) PROVE hs[k].calling \/ ~Answers(hs[k], c)
    <3>1. k \in 1..Len(hs) /\ (at <= k \/ k \in (j + 1)..(at - 1))
      BY <1>7, <1>8, <1>11
    <3> QED BY <1>9, <1>10, <3>1
  <2> QED BY <2>1
<1>13. PICK exits \in BOOLEAN : exits = (j # 0 /\ ~hs[j].calling)
  OBVIOUS
<1>14. PICK to : to = IF exits THEN j ELSE 0
  OBVIOUS
<1>15. PICK f : f = flow'
  OBVIOUS
<1>16. /\ by = "stop" \/ exits => f = Err(c, to)
       /\ ~(by = "stop" \/ exits) => f = Running
       /\ j # 0 => exits \/ hs[j].muffle
  BY <1>5, <1>7, <1>13, <1>14, <1>15 DEF WalkEnds
<1>17. ASSUME by = "stop" \/ exits PROVE Lands(t, m, c, to)
  <2>1. EndsAt(hs, c, to)
    <3>1. CASE exits
      BY <1>10, <1>12, <1>13, <1>14, <3>1 DEF EndsAt
    <3>2. CASE ~exits
      <4>1. by = "stop" /\ to = 0
        BY <1>14, <1>17, <3>2
      <4>2. "warning" \notin ClassesOf(c)
        BY <1>6, <4>1 DEF Signals, ClassesOf
      <4>3. j = 0
        <5>1. SUFFICES ASSUME j # 0 PROVE FALSE
          OBVIOUS
        <5>2. hs[j].muffle /\ Answers(hs[j], c)
          BY <1>10, <1>16, <3>2, <5>1
        <5> QED BY <4>2, <5>2 DEF Answers
      <4> QED BY <1>12, <4>1, <4>3 DEF EndsAt
    <3> QED BY <3>1, <3>2
  <2>2. CaughtBy(t, m, c)
    <3>1. SUFFICES ASSUME by # "stop", Unanswered(t, m, 1, c) PROVE FALSE
      BY <1>6
    <3>2. exits /\ j # 0 /\ ~hs[j].calling /\ Answers(hs[j], c)
      BY <1>10, <1>13, <1>17, <3>1
    <3>3. j \in 1..Len(hs) /\ 1 <= j
      BY <1>11, <3>2
    <3>4. Unanswered(t, Len(t), 1, c) /\ Len(t) \in Nat
      BY <1>4, <3>1
    <3>5. PICK one \in Nat : one = 1
      OBVIOUS
    <3>6. Unanswered(t, Len(t), one, c) /\ one <= j
      BY <3>3, <3>4, <3>5
    <3>7. ~Answers(hs[j], c)
      BY <1>7, <3>2, <3>3, <3>4, <3>6, Unopposed
    <3> QED BY <3>2, <3>7
  <2>3. to \in 0..Len(hs)
    BY <1>7, <1>11, <1>14
  <2>4. Len(t) \in Nat /\ CaughtBy(t, Len(t), c)
    BY <1>4, <2>2
  <2>5. Lands(t, Len(t), c, to)
    BY <1>7, <2>1, <2>3, <2>4, LandsThere
  <2> QED BY <1>4, <2>5
<1>18. Landing(t, f)
  <2>1. CASE by = "stop" \/ exits
    <3>1. f.msg = c /\ f.to = to
      BY <1>16, <2>1 DEF Err
    <3>2. Lands(t, Len(t), f.msg, f.to)
      BY <1>4, <1>17, <2>1, <3>1
    <3> QED BY <3>2 DEF Landing
  <2>2. CASE ~(by = "stop" \/ exits)
    <3>1. f \in {Running, Walking}
      BY <1>16, <2>2
    <3> QED BY <3>1, LandsNone
  <2> QED BY <2>1, <2>2
<1>19. AllWalked(stack')
  BY <1>1, WalkedPop DEF Promised
<1>20. Outcome(stack', f) = f
  BY <1>1, TellPop DEF Told
<1> QED BY <1>4, <1>15, <1>18, <1>19, <1>20 DEF Promised

-----------------------------------------------------------------------------
(* Calls left *)

\* A call is left and code runs.
LEMMA PopRuns ==
    ASSUME IInv, Told(stack, flow, transfer, record, restarts), Promised(stack, flow),
           Act.op # "top", Over, flow' = Running
    PROVE  Promised(stack, flow)'
<1>1. AllWalked(stack') /\ OneCleanup(stack, flow)
  BY WalkedPop DEF Promised, Told
<1>2. PICK f : f = flow' /\ f \in {Running, Walking}
  OBVIOUS
<1>3. Outcome(stack', f) = f
  BY <1>1, TellPop
<1>4. PICK t : t = stack'
  OBVIOUS
<1>5. Landing(t, f)
  BY <1>2, LandsNone
<1> QED BY <1>1, <1>2, <1>3, <1>4, <1>5 DEF Promised

\* A call's handler runs.
LEMMA TurnRuns ==
    ASSUME IInv, Told(stack, flow, transfer, record, restarts), Promised(stack, flow),
           NEW a, Phase(a), a.op # "signal", ~Cleans(a), flow' = Running
    PROVE  Promised(stack, flow)'
<1>1. PICK n \in Nat \ {0} : n = Len(stack)
  BY Standing
<1>2. stack'[n] = a
  BY <1>1, Turns
<1>3. Walked(stack', n)
  BY <1>2 DEF Walked
<1>4. AllWalked(stack')
  BY <1>1, <1>3, WalkedTurn DEF Promised
<1>5. PICK f : f = flow' /\ f \in {Running, Walking}
  OBVIOUS
<1>6. Outcome(stack', f) = f
  BY <1>5, TellTurn DEF Told
<1>7. PICK t : t = stack'
  OBVIOUS
<1>8. Landing(t, f)
  BY <1>5, LandsNone
<1> QED BY <1>4, <1>5, <1>6, <1>7, <1>8 DEF Promised

\* tryCatch's result is settled, and it does not catch what is on its way.
LEMMA SettlePromises ==
    ASSUME IInv, Told(stack, flow, transfer, record, restarts), Promised(stack, flow),
           Act.op = "tryCatch", ~Cleans(Act),
           flow.how = "err" /\ flow.msg # Transfer => ~Catches(Act, flow.msg),
           Settle(flow)
    PROVE  Promised(stack, flow)'
<1>1. Outcome(stack, flow) = flow
  BY Below DEF Told
<1>2. CASE Act.cleanup
  <2>1. PICK a : a = [Act EXCEPT !.phase = "finally", !.out = flow]
    OBVIOUS
  <2>2. Act \in TrySet
    BY Standing, Kinds
  <2>3. a.op = "tryCatch" /\ a.phase = "finally" /\ a.out = flow
    BY <2>1, <2>2 DEF TrySet
  <2>4. Phase(a) /\ flow' = Running
    BY <1>2, <2>1 DEF Settle
  <2>5. \A c : ~Catches(a, c)
    BY <2>3, CatchesNot
  <2> QED BY <2>3, <2>4, <2>5, TurnPromises
<1>3. CASE ~Act.cleanup
  <2>1. Over /\ flow' = flow
    BY <1>3 DEF Settle
  <2> QED BY <1>1, <2>1, PopPromises
<1> QED BY <1>2, <1>3

\* The body of tryCatch: an error is not taken only if there is no handler for it.
LEMMA LeaveTryBodyPromises ==
    ASSUME IInv, Told(stack, flow, transfer, record, restarts), Promised(stack, flow),
           LeaveTryBody
    PROVE  Promised(stack, flow)'
<1>1. Act.op = "tryCatch" /\ Act.phase = "body" /\ ~Cleans(Act) /\ Act \in TrySet
  BY Standing, Kinds DEF LeaveTryBody, Leaving, In, Cleans
<1>2. CASE Takes
  <2>1. PICK a : a = [Act EXCEPT !.phase = "handler"]
    OBVIOUS
  <2>2. a.op = "tryCatch" /\ ~Cleans(a)
    BY <1>1, <2>1 DEF TrySet, Cleans
  <2>3. Phase(a) /\ flow' = Running
    BY <1>2, <2>1 DEF LeaveTryBody
  <2> QED BY <2>2, <2>3, TurnRuns
<1>3. CASE ~Takes
  <2>1. ASSUME flow.how = "err", flow.msg # Transfer PROVE ~Catches(Act, flow.msg)
    <3>1. SUFFICES ASSUME Catches(Act, flow.msg) PROVE FALSE
      OBVIOUS
    <3>2. Beside(flow, transfer, record, restarts)
      BY <1>1, BesideFlow
    <3>3. transfer = None /\ Raised = ClassesOf(flow.msg)
      BY <2>1, <3>2 DEF Beside, Raised, MatchedBy
    <3>4. \E k \in DOMAIN Act.on : Act.on[k] \in ClassesOf(flow.msg)
      BY <1>1, <3>1 DEF Catches, Catcher, Matches
    <3> QED BY <1>3, <2>1, <3>3, <3>4 DEF Takes, Failed
  <2>2. Settle(flow)
    BY <1>3 DEF LeaveTryBody
  <2> QED BY <1>1, <2>1, <2>2, SettlePromises
<1> QED BY <1>2, <1>3

\* Calls that neither signal nor catch.
LEMMA PlainPromises ==
    ASSUME IInv, Told(stack, flow, transfer, record, restarts), Promised(stack, flow),
           LeaveHandlers \/ LeaveTryHandler \/ LeaveRestartHandler
    PROVE  Promised(stack, flow)'
<1>1. /\ ~Cleans(Act) /\ Act.op \notin {"top", "signal", "try"}
      /\ Act.op # "tryCatch" \/ Act.phase # "body"
  BY DEF LeaveHandlers, LeaveTryHandler, LeaveRestartHandler, Leaving, In, Cleans
<1>2. Outcome(stack, flow) = flow /\ \A c : ~Catches(Act, c)
  BY <1>1, Below, CatchesNot DEF Told
<1>3. CASE LeaveHandlers \/ LeaveRestartHandler
  <2>1. Over /\ flow' = flow
    BY <1>3 DEF LeaveHandlers, LeaveRestartHandler
  <2> QED BY <1>1, <1>2, <2>1, PopPromises
<1>4. CASE LeaveTryHandler
  <2>1. Act.op = "tryCatch" /\ Settle(flow)
    BY <1>4 DEF LeaveTryHandler, Leaving, In
  <2> QED BY <1>1, <1>2, <2>1, SettlePromises
<1> QED BY <1>3, <1>4

\* Cleanups.
LEMMA CleanupPromises ==
    ASSUME IInv, Told(stack, flow, transfer, record, restarts), Promised(stack, flow),
           LeaveFinally \/ LeaveOnExit
    PROVE  Promised(stack, flow)'
<1>1. /\ Cleans(Act) /\ Act.op \notin {"top", "signal", "try"} /\ Act.phase # "body" /\ Over
  BY DEF LeaveFinally, LeaveOnExit, Leaving, In, Cleans
<1>2. flow = Running /\ Outcome(stack, flow) = Act.out /\ \A c : ~Catches(Act, c)
  BY <1>1, Below, CatchesNot DEF Told
<1>3. flow' = Act.out
  BY <1>2, FlowKinds DEF LeaveFinally, LeaveOnExit, Failed
<1> QED BY <1>1, <1>2, <1>3, PopPromises

\* try.
LEMMA LeaveTryPromises ==
    ASSUME IInv, Told(stack, flow, transfer, record, restarts), Promised(stack, flow),
           LeaveTry
    PROVE  Promised(stack, flow)'
<1>1. ~Cleans(Act) /\ Act.op = "try" /\ Over
  BY DEF LeaveTry, Leaving, In, Cleans
<1>2. Outcome(stack, flow) = flow /\ Beside(flow, transfer, record, restarts)
  BY <1>1, Below, BesideFlow DEF Told
<1>3. CASE Failed /\ transfer = None
  <2>1. flow' = Running
    BY <1>3 DEF LeaveTry
  <2> QED BY <1>1, <2>1, PopRuns
<1>4. CASE ~(Failed /\ transfer = None)
  <2>1. flow' = flow
    BY <1>4 DEF LeaveTry
  <2>2. ~(flow.how = "err" /\ flow.msg # Transfer)
    BY <1>2, <1>4 DEF Beside, Failed
  <2> QED BY <1>1, <1>2, <2>1, <2>2, PopPromises
<1> QED BY <1>3, <1>4

\* The expression of withRestarts.
LEMMA LeaveRestartsPromises ==
    ASSUME IInv, Told(stack, flow, transfer, record, restarts), Promised(stack, flow),
           LeaveRestarts
    PROVE  Promised(stack, flow)'
<1>1. Act.op = "withRestarts" /\ ~Cleans(Act) /\ Act \in RestartSet
  BY Standing, Kinds DEF LeaveRestarts, Leaving, In, Cleans
<1>2. Outcome(stack, flow) = flow /\ \A c : ~Catches(Act, c)
  BY <1>1, Below, CatchesNot DEF Told
<1>3. CASE Failed /\ transfer = Act.id
  <2>1. PICK a : a = [Act EXCEPT !.phase = "handler"]
    OBVIOUS
  <2>2. a.op # "signal" /\ ~Cleans(a)
    BY <1>1, <2>1 DEF RestartSet, Cleans
  <2>3. Phase(a) /\ flow' = Running
    BY <1>3, <2>1 DEF LeaveRestarts
  <2> QED BY <2>2, <2>3, TurnRuns
<1>4. CASE ~(Failed /\ transfer = Act.id)
  <2>1. Over /\ flow' = flow
    BY <1>4 DEF LeaveRestarts
  <2> QED BY <1>1, <1>2, <2>1, PopPromises
<1> QED BY <1>3, <1>4

\* A closure body.
LEMMA LeaveCallPromises ==
    ASSUME IInv, Told(stack, flow, transfer, record, restarts), Promised(stack, flow),
           LeaveCall
    PROVE  Promised(stack, flow)'
<1>1. Act.op = "call" /\ ~Cleans(Act) /\ Act \in CallSet
  BY Standing, Kinds DEF LeaveCall, Leaving, In, Cleans
<1>2. Outcome(stack, flow) = flow /\ \A c : ~Catches(Act, c)
  BY <1>1, Below, CatchesNot DEF Told
<1>3. CASE Act.cleanup
  <2>1. PICK a : a = [Act EXCEPT !.phase = "on.exit", !.out = flow]
    OBVIOUS
  <2>2. a.op = "call" /\ a.out = flow
    BY <1>1, <2>1 DEF CallSet
  <2>3. Phase(a) /\ flow' = Running
    BY <1>3, <2>1 DEF LeaveCall
  <2>4. \A c : ~Catches(a, c)
    BY <2>2, CatchesNot
  <2> QED BY <1>1, <1>2, <2>2, <2>3, <2>4, TurnPromises
<1>4. CASE ~Act.cleanup
  <2>1. Over /\ flow' = flow
    BY <1>4 DEF LeaveCall
  <2> QED BY <1>1, <1>2, <2>1, PopPromises
<1> QED BY <1>3, <1>4

\* A calling handler fails or transfers: no error comes out of one.
LEMMA HandlerFailsPromises ==
    ASSUME IInv, Told(stack, flow, transfer, record, restarts), Promised(stack, flow),
           HandlerFails
    PROVE  Promised(stack, flow)'
<1>1. Act.op = "signal" /\ ~Cleans(Act) /\ Failed /\ Over
  BY DEF HandlerFails, In, Cleans
<1>2. Outcome(stack, flow) = flow /\ OneCleanup(stack, flow)
  BY <1>1, Below DEF Told
<1>3. CASE flow' = Running
  BY <1>1, <1>3, PopRuns
<1>4. CASE flow' = flow
  <2>1. PICK n \in Nat \ {0} : n = Len(stack) /\ Act = stack[n]
    BY Standing
  <2>2. flow.msg = Transfer
    <3>1. SUFFICES ASSUME flow.msg # Transfer PROVE FALSE
      OBVIOUS
    <3>2. CaughtBy(stack, n, flow.msg)
      BY <1>1, <1>2, <2>1, <3>1 DEF Promised, Landing, Lands, Failed
    <3>3. n \in 1..n /\ \A i \in (n + 1)..n : FALSE
      OBVIOUS
    <3> QED BY <1>1, <2>1, <3>2, <3>3 DEF CaughtBy
  <2>3. PICK f : f = flow'
    OBVIOUS
  <2>4. Outcome(stack', f) = f /\ AllWalked(stack')
    BY <1>1, <1>2, TellPop, WalkedPop DEF Promised
  <2>5. PICK t : t = stack'
    OBVIOUS
  <2>6. Landing(t, f)
    BY <1>4, <2>2, <2>3 DEF Landing
  <2> QED BY <2>3, <2>4, <2>5, <2>6 DEF Promised
<1> QED BY <1>3, <1>4 DEF HandlerFails

-----------------------------------------------------------------------------
(* Errors are taken where their walk ended *)

\* Every step keeps where errors land.
LEMMA NextTakes == IInvTaken /\ [Next]_vars => IInvTaken'
<1> SUFFICES ASSUME IInvTaken, [Next]_vars PROVE IInvTaken'
  OBVIOUS
<1>1. IInvRecord /\ IInvRecord'
  BY NextTells DEF IInvTaken
<1>2. IInv /\ IInv'
  BY <1>1 DEF IInvRecord
<1>3. Contained' <=> Contained
  BY <1>2, ProgramStays DEF Contained, Quiet
<1>4. SUFFICES ASSUME Contained PROVE Promised(stack, flow)'
  BY <1>1, <1>3 DEF IInvTaken
<1>5. /\ Promised(stack, flow) /\ Quiet
      /\ Told(stack, flow, transfer, record, restarts)
  BY <1>1, <1>4 DEF IInvTaken, IInvRecord, Contained
<1>6. CASE \/ \E on \in HandlerLists, finally \in BOOLEAN : TryCatch(on, finally)
           \/ \E on \in HandlerLists : WithCallingHandlers(on)
           \/ SuppressWarnings \/ Try \/ WithRestarts
           \/ \E exit \in BOOLEAN : Call(exit)
  BY <1>2, <1>5, <1>6, EnterPromises
<1>7. CASE \E s \in Signals : Signal(s[1], s[2])
  BY <1>2, <1>4, <1>5, <1>7, SignalPromises
<1>8. CASE Fail \/ \E id \in Ids \cup {Abort} : InvokeRestart(id)
  BY <1>2, <1>4, <1>5, <1>8, FlowPromises
<1>9. CASE (\E j \in 1..Len(handlers) : RunCalling(j)) \/ HandlerReturns
  BY <1>2, <1>5, <1>9, RunCallingPromises, HandlerReturnsPromises
<1>10. CASE \E j \in 0..Len(handlers) : WalkEnds(j)
  BY <1>2, <1>5, <1>10, WalkEndsPromises
<1>11. CASE Leave
  BY <1>2, <1>5, <1>11, PlainPromises, LeaveTryBodyPromises, CleanupPromises,
     LeaveTryPromises, LeaveRestartsPromises, LeaveCallPromises, HandlerFailsPromises
  DEF Leave
<1>12. CASE NextStatement
  BY <1>5, <1>12 DEF NextStatement, Quiet
<1>13. CASE UNCHANGED vars
  BY <1>5, <1>13 DEF vars, Promised
<1> QED BY <1>6, <1>7, <1>8, <1>9, <1>10, <1>11, <1>12, <1>13 DEF Next

\* A program starts with nothing on its way.
LEMMA InitTakes == Init => IInvTaken
<1> SUFFICES ASSUME Init PROVE IInvTaken
  OBVIOUS
<1>1. IInvRecord
  BY InitTells
<1>2. PICK p \in Programs : stack = <<[op |-> "top", phase |-> "body", program |-> p]>>
  BY DEF Init
<1>3. Len(stack) = 1 /\ stack[1].op = "top" /\ stack[1].phase = "body"
  BY <1>2
<1>4. AllWalked(stack)
  BY <1>3 DEF AllWalked, Walked
<1>5. Outcome(stack, flow) = flow /\ flow \in {Running, Walking}
  BY <1>3 DEF Init, Outcome, Cleans
<1>6. Landing(stack, flow)
  BY <1>5, LandsNone
<1> QED BY <1>1, <1>4, <1>5, <1>6 DEF IInvTaken, Promised

\* Only the end of a tryCatch's body starts a handler of it.
LEMMA TakingIs ==
    ASSUME IInv, Next, TryTakes
    PROVE  LeaveTryBody /\ Takes
<1>1. PICK n \in Nat \ {0} : n = Len(stack) /\ Act = stack[n]
  BY Standing
<1>2. /\ Act.op = "tryCatch" /\ Act.phase = "body"
      /\ Len(stack') = n /\ stack'[n].phase = "handler"
  BY <1>1 DEF TryTakes, In, Act
<1>3. \A a : ~(stack' = Append(stack, a))
  BY <1>1, <1>2, Pushes
<1>4. stack' # stack
  BY <1>1, <1>2
<1>5. ~Over
  <2>1. n - 1 # n
    OBVIOUS
  <2> QED BY <1>1, <1>2, <2>1, Pops
<1>6. \A a : Phase(a) => a.phase = "handler"
  BY <1>1, <1>2, Turns
<1>7. ~(\/ \E on \in HandlerLists, finally \in BOOLEAN : TryCatch(on, finally)
        \/ \E on \in HandlerLists : WithCallingHandlers(on)
        \/ SuppressWarnings \/ Try \/ WithRestarts
        \/ \E exit \in BOOLEAN : Call(exit)
        \/ \E s \in Signals : Signal(s[1], s[2]))
  BY <1>3 DEF TryCatch, WithCallingHandlers, SuppressWarnings, Try, WithRestarts, Call,
     Signal, Enter
<1>8. ~(\/ \E id \in Ids \cup {Abort} : InvokeRestart(id)
        \/ Fail \/ NextStatement)
  BY <1>4 DEF InvokeRestart, Fail, NextStatement
<1>9. ~(\/ \E j \in 1..Len(handlers) : RunCalling(j)
        \/ \E j \in 0..Len(handlers) : WalkEnds(j)
        \/ HandlerReturns \/ HandlerFails)
  BY <1>2 DEF RunCalling, WalkEnds, HandlerReturns, HandlerFails, Walk, In
<1>10. ~(\/ LeaveHandlers \/ LeaveTryHandler \/ LeaveFinally \/ LeaveTry
         \/ LeaveRestarts \/ LeaveRestartHandler \/ LeaveCall \/ LeaveOnExit)
  BY <1>2 DEF LeaveHandlers, LeaveTryHandler, LeaveFinally, LeaveTry, LeaveRestarts,
     LeaveRestartHandler, LeaveCall, LeaveOnExit, Leaving, In
<1>11. LeaveTryBody
  BY <1>7, <1>8, <1>9, <1>10 DEF Next, Leave
<1>12. Takes
  <2>1. SUFFICES ASSUME ~Takes PROVE FALSE
    OBVIOUS
  <2>2. Settle(flow)
    BY <1>11, <2>1 DEF LeaveTryBody
  <2>3. PICK a : a = [Act EXCEPT !.phase = "finally", !.out = flow] /\ Phase(a)
    BY <1>5, <2>2 DEF Settle
  <2>4. Act \in TrySet
    BY <1>1, <1>2, Standing, Kinds
  <2>5. a.phase = "finally"
    BY <2>3, <2>4 DEF TrySet
  <2> QED BY <1>6, <2>3, <2>5
<1> QED BY <1>11, <1>12

\* The tryCatch that takes an error is the innermost that can, and nothing is above it.
LEMMA TakenThere ==
    ASSUME IInvTaken, Contained, LeaveTryBody, Takes
    PROVE  Len(handlers) = flow.to
<1>1. /\ IInv /\ Promised(stack, flow) /\ Told(stack, flow, transfer, record, restarts)
  BY DEF IInvTaken, IInvRecord, Contained
<1>2. PICK n \in Nat \ {0} : n = Len(stack) /\ Act = stack[n]
  BY <1>1, Standing
<1>3. Act.op = "tryCatch" /\ Act.phase = "body" /\ ~Cleans(Act)
  BY DEF LeaveTryBody, Leaving, In, Cleans
<1>4. Beside(flow, transfer, record, restarts) /\ Outcome(stack, flow) = flow
  BY <1>1, <1>3, BesideFlow, Below DEF Told
<1>5. flow.how = "err" /\ flow.msg # Transfer /\ Raised = ClassesOf(flow.msg)
  BY <1>4 DEF Takes, Failed, Beside, Raised, MatchedBy
<1>6. Catcher(Act, flow.msg)
  BY <1>3, <1>5 DEF Takes, Catcher, Matches
<1>7. Lands(stack, n, flow.msg, flow.to)
  BY <1>1, <1>2, <1>4, <1>5 DEF Promised, Landing
<1>8. n \in 1..n /\ \A l \in (n + 1)..n : ~Catches(stack[l], flow.msg)
  OBVIOUS
<1>9. Frames(stack, n) = flow.to
  BY <1>2, <1>6, <1>7, <1>8 DEF Lands
<1> QED BY <1>1, <1>2, <1>9, Standing

\* The tryCatch that takes an error is the one the walk ended at when the error was
\* signalled, at every depth of nesting and with every list of handlers: in scripts
\* whose calling handlers catch the errors they raise, when these are among the scripts
\* whose cleanups use no conditions and whose host ends with an uncaught error.
THEOREM TakenAsPromised ==
    ASSUME \A p \in Programs : p.contained => p.quiet /\ ~p.persistent
    PROVE  Spec => TakenWherePromised
<1>1. Init => IInvTaken
  BY InitTakes
<1>2. IInvTaken /\ [Next]_vars => IInvTaken'
  BY NextTakes
<1>3. IInvTaken /\ [Next]_vars
      => [TryTakes /\ Program.contained => Len(handlers) = flow.to]_vars
  <2>1. SUFFICES ASSUME IInvTaken, Next, TryTakes, Program.contained
                 PROVE  Len(handlers) = flow.to
    OBVIOUS
  <2>2. IInv
    BY <2>1 DEF IInvTaken, IInvRecord
  <2>3. Contained
    <3>1. 1 \in 1..Len(stack) /\ stack[1] \in Calls /\ stack[1].op = "top"
      BY <2>2, Standing, TopFirst
    <3>2. Program \in Programs
      BY <3>1, Kinds DEF Program, TopSet
    <3> QED BY <2>1, <3>2 DEF Contained, Quiet
  <2>4. LeaveTryBody /\ Takes
    BY <2>1, <2>2, TakingIs
  <2> QED BY <2>1, <2>3, <2>4, TakenThere
<1> QED BY <1>1, <1>2, <1>3, PTL DEF Spec, TakenWherePromised
=============================================================================
