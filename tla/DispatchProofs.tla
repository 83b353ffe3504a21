--------------------------- MODULE DispatchProofs ---------------------------
(***************************************************************************)
(* Proofs about Dispatch, for every set of closures, every table of        *)
(* methods and every bound: the flags of a dispatch reach the call they    *)
(* were set for, NextMethod() continues the method it is written in, and   *)
(* each body runs on a machine of its own.                                 *)
(***************************************************************************)
EXTENDS Dispatch, Lemmas

-----------------------------------------------------------------------------
(* The inductive invariant *)

Activation == MainSet \cup CallSet \cup CalleeSet \cup BodySet \cup ReadSet
                  \cup DispSet \cup ForceSet \cup SiteSet

\* The methods are closures, and "(" is not dispatched on.
Ordinary ==
    /\ "(" \notin UserGenerics
    /\ \A t \in Tables, c \in Positions : t[c] # Primitive

\* The innermost chunk of the first k activations, and the operator context that
\* stands when the k-th is the innermost: that chunk's machine, and whether one of
\* its operators is being evaluated.
Chunk(s, k)  == HighestOf({j \in 1..k : IsChunk(s[j])})
Within(s, k) == [vm   |-> s[Chunk(s, k)].vm,
                 site |-> IF \E j \in Chunk(s, k)..k : s[j].op = "site" THEN 1 ELSE 0]

\* A frame below the k-th activation that is not a promise's, and has its
\* environment.
WriterBelow(s, k) ==
    \E j \in 1..(k - 1) : s[j].op = "call" /\ ~s[j].promise /\ s[j].env = s[k].env

\* What the k-th activation owes to those below it.
CallLink(s, k) ==
    /\ s[k].promise <=> s[k - 1].op = "force"
    /\ s[k].promise => WriterBelow(s, k)
    /\ Ordinary =>
           s[k].dispatch = IF s[k - 1].op = "dispatch" THEN s[k - 1].plan ELSE None
    /\ s[k].outer = Within(s, k - 1)
    /\ \A j \in 1..(k - 1) : IsChunk(s[j]) => s[j].vm # s[k].vm
CalleeLink(s, k) ==
    /\ s[k].default => s[k].fun \in Generics
    /\ s[k - 1].op = "force" => s[k].fun = Thunk /\ WriterBelow(s, k)
    /\ s[k - 1].op = "dispatch" =>
           s[k].fun \in Closures \cup {Primitive} /\ (Ordinary => s[k].fun # Primitive)
NextLink(s, k) ==
    \E j \in 1..(k - 1) :
        /\ s[j].op = "call" /\ ~s[j].promise /\ s[j].env = s[k - 1].env
        /\ s[k].plan = s[j].dispatch /\ s[k].arg = s[j].x
DispatchLink(s, k) ==
    /\ s[k].from = k - 1
    /\ s[k - 1].op \in {"next", "use"} => Len(s[k].plan.rest) < Len(s[k - 1].plan.rest)
    /\ s[k - 1].op = "callee" => ~s[k - 1].default
Link(s, k) ==
    /\ s[k].op = "main" <=> k = 1
    /\ s[k].op = "call"     => CallLink(s, k)
    /\ s[k].op = "callee"   => CalleeLink(s, k)
    /\ s[k].op = "next"     => NextLink(s, k)
    /\ s[k].op = "dispatch" => DispatchLink(s, k)
    /\ s[k].op = "force"    => s[k - 1].op \in {"main", "call", "use", "next"}
    /\ s[k].op = "site"     => s[k].prev = Within(s, k - 1).site
Links(s) == \A k \in 1..Len(s) : Link(s, k)

\* Parked machines are nobody's.
Parked(s, v) ==
    /\ \A k \in 1..Len(s) : IsChunk(s[k]) => \A id \in Ids : v[id] # s[k].vm
    /\ \A a, b \in Ids : v[a] = v[b] /\ v[a] # 0 => a = b

\* Stacks, parked machines and operator context in order.
Shape(s, v, c) ==
    /\ s \in Seq(Activation) /\ Len(s) # 0
    /\ Links(s)
    /\ v \in [Ids -> {0} \cup Machines]
    /\ Parked(s, v)
    /\ c = Within(s, Len(s))

\* The innermost activation is a call about to be entered, made by an op.
Entering(op) == Top.op = "callee" /\ stack[Here - 1].op = op

\* forcing is set from the forcing of a promise until its call is entered, or
\* its failure has passed.
ForcingInv ==
    /\ flow = "run" => (forcing <=> Entering("force"))
    /\ flow = "ok" => ~forcing
    /\ forcing => Top.op = "force" \/ Entering("force")

\* suppress is set while the default that a dispatch fell through to waits.
DefaultInv ==
    \A k \in 1..Here :
        stack[k].op = "callee" /\ stack[k].default => k = Here /\ flow = "run" /\ suppress

\* In ordinary programs pending is set from a dispatch until its method is entered, or its
\* failure has passed, frames keep it, and suppress is set only as above.
PendingInv ==
    /\ flow = "run" => pending = IF Entering("dispatch") THEN stack[Here - 1].plan ELSE None
    /\ flow = "ok" => pending = None
    /\ pending # None => Top.op = "dispatch" \/ Entering("dispatch")
SuppressInv ==
    suppress => /\ flow = "run" /\ Top.op = "callee"
                /\ Top.fun \in Generics \ {"("} /\ Top.default

\* The small parts of the type.
Small ==
    /\ table \in Tables /\ Here <= MaxStack
    /\ flow \in {"run", "ok", "err"}
    /\ pending \in Plan \cup {None} /\ suppress \in BOOLEAN /\ forcing \in BOOLEAN

IInv ==
    /\ Small
    /\ Shape(stack, vms, context)
    /\ ForcingInv /\ DefaultInv
    /\ Ordinary => PendingInv /\ SuppressInv

-----------------------------------------------------------------------------
(* Stacks *)

\* An activation is of the kind its op names.
LEMMA Kinds ==
    ASSUME NEW a \in Activation
    PROVE  /\ a.op \in {"main", "call", "callee", "body", "use", "next", "dispatch",
                        "force", "site"}
           /\ a.op = "main" => a \in MainSet
           /\ a.op = "call" => a \in CallSet
           /\ a.op = "callee" => a \in CalleeSet
           /\ a.op = "body" => a \in BodySet
           /\ a.op \in {"use", "next"} => a \in ReadSet
           /\ a.op = "dispatch" => a \in DispSet
           /\ a.op = "force" => a \in ForceSet
           /\ a.op = "site" => a \in SiteSet
BY DEF Activation, MainSet, CallSet, CalleeSet, BodySet, ReadSet, DispSet, ForceSet, SiteSet

\* HighestOf finds the greatest number of a set that has a bound.
LEMMA HighestIs ==
    ASSUME NEW S, NEW n \in Nat, S \subseteq 1..n, S # {}
    PROVE  HighestOf(S) \in S /\ \A m \in S : m <= HighestOf(S)
<1>1. S \subseteq Nat /\ \A x \in S : x <= n
  OBVIOUS
<1>2. \E k \in S : \A m \in S : m <= k
  BY <1>1, GreatestElement
<1> QED BY <1>2 DEF HighestOf

\* A stack that starts with the program has an innermost chunk.
LEMMA ChunkIs ==
    ASSUME NEW s, NEW k \in Nat \ {0}, s[1].op = "main"
    PROVE  /\ Chunk(s, k) \in 1..k /\ IsChunk(s[Chunk(s, k)])
           /\ \A j \in 1..k : IsChunk(s[j]) => j <= Chunk(s, k)
<1> DEFINE S == {j \in 1..k : IsChunk(s[j])}
<1>1. 1 \in S /\ S \subseteq 1..k /\ k \in Nat
  BY DEF IsChunk
<1>2. HighestOf(S) \in S /\ \A m \in S : m <= HighestOf(S)
  BY <1>1, HighestIs
<1> QED BY <1>2 DEF Chunk

\* The innermost chunk is the one that no later one follows.
LEMMA ChunkIsThe ==
    ASSUME NEW s, NEW k \in Nat \ {0}, s[1].op = "main",
           NEW c \in 1..k, IsChunk(s[c]), \A j \in 1..k : IsChunk(s[j]) => j <= c
    PROVE  Chunk(s, k) = c
<1>1. /\ Chunk(s, k) \in 1..k /\ IsChunk(s[Chunk(s, k)])
      /\ \A j \in 1..k : IsChunk(s[j]) => j <= Chunk(s, k)
  BY ChunkIs
<1> QED BY <1>1

\* The context after one more activation: a chunk starts one of its own, an
\* operator's site is marked, and the rest keep it.
LEMMA WithinNext ==
    ASSUME NEW s, NEW k \in Nat \ {0}, s[1].op = "main"
    PROVE  /\ IsChunk(s[k + 1]) => Within(s, k + 1) = [vm |-> s[k + 1].vm, site |-> 0]
           /\ ~IsChunk(s[k + 1]) =>
                  /\ Within(s, k + 1).vm = Within(s, k).vm
                  /\ s[k + 1].op = "site" => Within(s, k + 1).site = 1
                  /\ s[k + 1].op # "site" => Within(s, k + 1) = Within(s, k)
<1>1. k + 1 \in Nat \ {0}
  OBVIOUS
<1>2. CASE IsChunk(s[k + 1])
  <2>1. Chunk(s, k + 1) = k + 1
    BY <1>1, <1>2, ChunkIsThe
  <2>2. ~ \E j \in (k + 1)..(k + 1) : s[j].op = "site"
    BY <1>2 DEF IsChunk
  <2> QED BY <1>2, <2>1, <2>2 DEF Within
<1>3. CASE ~IsChunk(s[k + 1])
  <2> DEFINE c == Chunk(s, k)
  <2>1. c \in 1..k /\ IsChunk(s[c]) /\ \A j \in 1..k : IsChunk(s[j]) => j <= c
    BY ChunkIs
  <2>2. \A j \in 1..(k + 1) : IsChunk(s[j]) => j <= c
    BY <1>3, <2>1
  <2>3. Chunk(s, k + 1) = c
    BY <1>1, <2>1, <2>2, ChunkIsThe
  <2>4. (\E j \in c..(k + 1) : s[j].op = "site")
            <=> s[k + 1].op = "site" \/ \E j \in c..k : s[j].op = "site"
    <3>1. \A j : j \in c..(k + 1) <=> j = k + 1 \/ j \in c..k
      BY <2>1
    <3> QED BY <3>1
  <2> HIDE DEF c
  <2>5. Within(s, k) = [vm |-> s[c].vm,
                        site |-> IF \E j \in c..k : s[j].op = "site" THEN 1 ELSE 0]
    BY DEF Within, c
  <2>6. Within(s, k + 1) =
            [vm |-> s[c].vm,
             site |-> IF \E j \in c..(k + 1) : s[j].op = "site" THEN 1 ELSE 0]
    BY <2>3 DEF Within
  <2> QED BY <1>3, <2>4, <2>5, <2>6
<1> QED BY <1>2, <1>3

\* The context of an activation is decided by the stack as far as that one.
LEMMA WithinSame ==
    ASSUME NEW s, NEW t, NEW k \in Nat \ {0}, s[1].op = "main",
           \A i \in 1..k : IsChunk(t[i]) = IsChunk(s[i]) /\ t[i].op = s[i].op
                             /\ (IsChunk(s[i]) => t[i].vm = s[i].vm)
    PROVE  Within(t, k) = Within(s, k)
<1>1. {j \in 1..k : IsChunk(t[j])} = {j \in 1..k : IsChunk(s[j])}
  OBVIOUS
<1>2. Chunk(t, k) = Chunk(s, k)
  BY <1>1 DEF Chunk
<1>3. Chunk(s, k) \in 1..k /\ IsChunk(s[Chunk(s, k)])
  BY ChunkIs
<1> DEFINE c == Chunk(s, k)
<1>4. (\E j \in c..k : t[j].op = "site") <=> (\E j \in c..k : s[j].op = "site")
  BY <1>3
<1>5. t[c].vm = s[c].vm
  BY <1>3
<1> QED BY <1>2, <1>4, <1>5 DEF Within

\* What an activation owes to those below it is decided by them alone.
LEMMA LinkSame ==
    ASSUME NEW s, NEW t, NEW k \in Nat \ {0}, s[1].op = "main",
           \A i \in 1..k : t[i] = s[i], Link(s, k)
    PROVE  Link(t, k)
<1>1. t[k] = s[k]
  OBVIOUS
<1>2. CASE k = 1
  <2>1. s[k].op = "main"
    BY <1>2
  <2> QED BY <1>1, <1>2, <2>1 DEF Link
<1>3. CASE k # 1
  <2>1. k - 1 \in Nat \ {0} /\ k - 1 \in 1..k /\ \A j \in 1..(k - 1) : j \in 1..k
    BY <1>3
  <2>2. t[k - 1] = s[k - 1] /\ \A j \in 1..(k - 1) : t[j] = s[j]
    BY <2>1
  <2>3. Within(t, k - 1) = Within(s, k - 1)
    BY <2>1, <2>2, WithinSame
  <2>4. WriterBelow(t, k) <=> WriterBelow(s, k)
    BY <1>1, <2>2 DEF WriterBelow
  <2>5. CallLink(s, k) => CallLink(t, k)
    BY <1>1, <2>2, <2>3, <2>4 DEF CallLink
  <2>6. CalleeLink(s, k) => CalleeLink(t, k)
    BY <1>1, <2>2, <2>4 DEF CalleeLink
  <2>7. NextLink(s, k) => NextLink(t, k)
    BY <1>1, <2>2 DEF NextLink
  <2>8. DispatchLink(s, k) => DispatchLink(t, k)
    BY <1>1, <2>2 DEF DispatchLink
  <2> QED BY <1>1, <2>2, <2>3, <2>5, <2>6, <2>7, <2>8 DEF Link
<1> QED BY <1>2, <1>3

\* The program is at the bottom, and only there.
LEMMA MainFirst ==
    ASSUME NEW s, NEW v, NEW c, Shape(s, v, c)
    PROVE  /\ Len(s) \in Nat \ {0} /\ s[1].op = "main"
           /\ \A k \in 1..Len(s) : s[k] \in Activation /\ (s[k].op = "main" <=> k = 1)
<1>1. Len(s) \in Nat \ {0} /\ \A k \in 1..Len(s) : s[k] \in Activation
  BY ElementOfSeq DEF Shape
<1>2. \A k \in 1..Len(s) : s[k].op = "main" <=> k = 1
  BY DEF Shape, Links, Link
<1> QED BY <1>1, <1>2

\* One more activation, that owes what it should.
LEMMA LinksOfAppend ==
    ASSUME NEW s, NEW v, NEW c, Shape(s, v, c), NEW a \in Activation,
           Link(Append(s, a), Len(s) + 1)
    PROVE  /\ Append(s, a) \in Seq(Activation) /\ Len(Append(s, a)) = Len(s) + 1
           /\ \A i \in 1..Len(s) : Append(s, a)[i] = s[i]
           /\ Append(s, a)[Len(s) + 1] = a
           /\ Links(Append(s, a))
<1>1. PICK t : t = Append(s, a)
  OBVIOUS
<1>2. s \in Seq(Activation) /\ Len(s) \in Nat \ {0} /\ s[1].op = "main"
  BY MainFirst DEF Shape
<1>3. /\ t \in Seq(Activation) /\ Len(t) = Len(s) + 1
      /\ \A i \in 1..Len(s) : t[i] = s[i]
      /\ t[Len(s) + 1] = a
  BY <1>1, <1>2, AppendProperties
<1>4. ASSUME NEW k \in 1..Len(t) PROVE Link(t, k)
  <2>1. CASE k = Len(s) + 1
    BY <1>1, <2>1
  <2>2. CASE k # Len(s) + 1
    <3>1. k \in 1..Len(s) /\ k \in Nat \ {0} /\ \A i \in 1..k : i \in 1..Len(s)
      BY <1>2, <1>3, <2>2
    <3>2. Link(s, k)
      BY <3>1 DEF Shape, Links
    <3>3. \A i \in 1..k : t[i] = s[i]
      BY <1>3, <3>1
    <3> QED BY <1>2, <3>1, <3>2, <3>3, LinkSame
  <2> QED BY <2>1, <2>2
<1> QED BY <1>1, <1>3, <1>4 DEF Links

\* The stack without its innermost activation, that is not the program.
LEMMA LinksOfRest ==
    ASSUME NEW s, NEW v, NEW c, Shape(s, v, c), NEW n \in 1..Len(s)
    PROVE  /\ SubSeq(s, 1, n) \in Seq(Activation) /\ Len(SubSeq(s, 1, n)) = n
           /\ \A i \in 1..n : SubSeq(s, 1, n)[i] = s[i]
           /\ Links(SubSeq(s, 1, n))
           /\ Within(SubSeq(s, 1, n), n) = Within(s, n)
<1>1. PICK t : t = SubSeq(s, 1, n)
  OBVIOUS
<1>2. s \in Seq(Activation) /\ Len(s) \in Nat \ {0} /\ s[1].op = "main"
  BY MainFirst DEF Shape
<1>3. /\ t \in Seq(Activation) /\ Len(t) = n
      /\ \A i \in 1..n : t[i] = s[i]
  <2>1. n \in 0..Len(s)
    BY <1>2
  <2> QED BY <1>1, <1>2, <2>1, FirstPart
<1>4. ASSUME NEW k \in 1..n PROVE Link(t, k)
  <2>1. k \in 1..Len(s) /\ k \in Nat \ {0} /\ \A i \in 1..k : i \in 1..n
    BY <1>2
  <2>2. Link(s, k)
    BY <2>1 DEF Shape, Links
  <2>3. \A i \in 1..k : t[i] = s[i]
    BY <1>3, <2>1
  <2> QED BY <1>2, <2>1, <2>2, <2>3, LinkSame
<1>5. Within(t, n) = Within(s, n)
  BY <1>2, <1>3, WithinSame
<1> QED BY <1>1, <1>3, <1>4, <1>5 DEF Links

\* An activation that runs no code of its own leaves machines and context.
LEMMA PushPlain ==
    ASSUME NEW s, NEW v, NEW c, Shape(s, v, c), NEW a \in Activation,
           ~IsChunk(a), a.op # "site", Link(Append(s, a), Len(s) + 1)
    PROVE  Shape(Append(s, a), v, c)
<1>1. PICK t : t = Append(s, a)
  OBVIOUS
<1>2. /\ t \in Seq(Activation) /\ Len(t) = Len(s) + 1 /\ Links(t)
      /\ \A i \in 1..Len(s) : t[i] = s[i]
      /\ t[Len(s) + 1] = a
  BY <1>1, LinksOfAppend
<1>3. Len(s) \in Nat \ {0} /\ s[1].op = "main"
  BY MainFirst
<1>4. t[1].op = "main"
  BY <1>2, <1>3
<1>5. Within(t, Len(s) + 1) = Within(t, Len(s))
  BY <1>2, <1>3, <1>4, WithinNext
<1>6. Within(t, Len(s)) = Within(s, Len(s))
  BY <1>2, <1>3, WithinSame
<1>7. Parked(t, v)
  <2>1. \A k \in 1..Len(t) : IsChunk(t[k]) => k \in 1..Len(s)
    BY <1>2, <1>3
  <2> QED BY <1>2, <2>1 DEF Shape, Parked
<1> QED BY <1>1, <1>2, <1>3, <1>5, <1>6, <1>7 DEF Shape

\* An operator's site marks the context.
LEMMA PushSite ==
    ASSUME NEW s, NEW v, NEW c, Shape(s, v, c), NEW a \in SiteSet,
           a.prev = c.site
    PROVE  Shape(Append(s, a), v, [c EXCEPT !.site = 1])
<1>1. PICK t : t = Append(s, a)
  OBVIOUS
<1>0. a \in Activation /\ a.op = "site" /\ ~IsChunk(a)
  BY DEF Activation, SiteSet, IsChunk
<1>3. Len(s) \in Nat \ {0} /\ s[1].op = "main" /\ s \in Seq(Activation)
  BY MainFirst DEF Shape
<1>8. /\ t \in Seq(Activation) /\ Len(t) = Len(s) + 1
      /\ \A i \in 1..Len(s) : t[i] = s[i]
      /\ t[Len(s) + 1] = a
  BY <1>1, <1>0, <1>3, AppendProperties
<1>4. t[1].op = "main"
  BY <1>8, <1>3
<1>6. Within(t, Len(s)) = Within(s, Len(s))
  BY <1>8, <1>3, WithinSame
<1>9. Link(t, Len(s) + 1)
  <2>1. t[Len(s) + 1].prev = Within(t, Len(s) + 1 - 1).site
    BY <1>3, <1>8, <1>6 DEF Shape
  <2>2. Len(s) + 1 # 1
    BY <1>3
  <2> QED BY <1>8, <1>0, <2>1, <2>2 DEF Link
<1>2. Links(t)
  BY <1>1, <1>0, <1>9, LinksOfAppend
<1>5. Within(t, Len(s) + 1).vm = Within(t, Len(s)).vm /\ Within(t, Len(s) + 1).site = 1
  BY <1>8, <1>0, <1>3, <1>4, WithinNext
<1>10. Within(t, Len(s) + 1) = [c EXCEPT !.site = 1]
  <2>1. c = Within(s, Len(s))
    BY DEF Shape
  <2> QED BY <2>1, <1>5, <1>6 DEF Within
<1>7. Parked(t, v)
  <2>1. \A k \in 1..Len(t) : IsChunk(t[k]) => k \in 1..Len(s)
    BY <1>8, <1>0, <1>3
  <2> QED BY <1>8, <2>1 DEF Shape, Parked
<1> QED BY <1>1, <1>2, <1>3, <1>8, <1>10, <1>7 DEF Shape

\* A frame takes the machine that was parked for its closure, or a free one, and
\* starts a context.
LEMMA PushCall ==
    ASSUME NEW s, NEW v, NEW c, Shape(s, v, c), NEW a \in CallSet,
           Link(Append(s, a), Len(s) + 1),
           \A id \in Ids : id # a.id => v[id] # a.vm
    PROVE  Shape(Append(s, a), [v EXCEPT ![a.id] = 0], ContextOf(a.vm))
<1>1. PICK t : t = Append(s, a)
  OBVIOUS
<1>0. a \in Activation /\ a.op = "call" /\ IsChunk(a) /\ a.id \in Ids /\ a.vm \in Machines
  BY DEF Activation, CallSet, IsChunk
<1>2. /\ t \in Seq(Activation) /\ Len(t) = Len(s) + 1 /\ Links(t)
      /\ \A i \in 1..Len(s) : t[i] = s[i]
      /\ t[Len(s) + 1] = a
  BY <1>0, <1>1, LinksOfAppend
<1>3. Len(s) \in Nat \ {0} /\ s[1].op = "main"
  BY MainFirst
<1>4. t[1].op = "main"
  BY <1>2, <1>3
<1>5. Within(t, Len(s) + 1) = ContextOf(a.vm)
  BY <1>0, <1>2, <1>3, <1>4, WithinNext DEF ContextOf
<1>6. PICK w : w = [v EXCEPT ![a.id] = 0]
  OBVIOUS
<1>7. v \in [Ids -> {0} \cup Machines] /\ 0 \notin Machines
  BY DEF Shape, Machines
<1>8. /\ w \in [Ids -> {0} \cup Machines] /\ w[a.id] = 0
      /\ \A id \in Ids : id # a.id => w[id] = v[id]
  BY <1>0, <1>6, <1>7
<1>9. ASSUME NEW k \in 1..Len(t), IsChunk(t[k]) PROVE t[k].vm \in Machines
  <2>1. t[k] \in MainSet \/ t[k] \in CallSet
    BY <1>2, <1>9, ElementOfSeq, Kinds DEF IsChunk
  <2> QED BY <2>1 DEF MainSet, CallSet
<1>10. Parked(t, w)
  <2>1. ASSUME NEW k \in 1..Len(t), IsChunk(t[k]), NEW id \in Ids PROVE w[id] # t[k].vm
    <3>1. CASE id = a.id
      BY <1>7, <1>8, <1>9, <2>1, <3>1
    <3>2. CASE id # a.id /\ k = Len(s) + 1
      BY <1>2, <1>8, <3>2
    <3>3. CASE id # a.id /\ k # Len(s) + 1
      <4>1. k \in 1..Len(s)
        BY <1>2, <1>3, <3>3
      <4>2. t[k] = s[k]
        BY <1>2, <4>1
      <4>3. v[id] # s[k].vm
        BY <4>1, <4>2, <2>1 DEF Shape, Parked
      <4> QED BY <1>8, <3>3, <4>2, <4>3
    <3> QED BY <3>1, <3>2, <3>3
  <2>2. ASSUME NEW x \in Ids, NEW y \in Ids, w[x] = w[y], w[x] # 0 PROVE x = y
    <3>1. v[x] = v[y] /\ v[x] # 0
      BY <1>8, <2>2
    <3> QED BY <3>1 DEF Shape, Parked
  <2> QED BY <2>1, <2>2 DEF Parked
<1> QED BY <1>1, <1>2, <1>3, <1>5, <1>6, <1>8, <1>10 DEF Shape

\* What the rest of a stack is in order with, when its innermost activation goes.
LEMMA PopPlain ==
    ASSUME NEW s, NEW v, NEW c, Shape(s, v, c), NEW n \in Nat \ {0}, Len(s) = n + 1,
           ~IsChunk(s[n + 1])
    PROVE  /\ s[n + 1].op # "site" => Shape(SubSeq(s, 1, n), v, c)
           /\ s[n + 1].op = "site" =>
                  Shape(SubSeq(s, 1, n), v, [c EXCEPT !.site = s[n + 1].prev])
<1>1. PICK t : t = SubSeq(s, 1, n)
  OBVIOUS
<1>2. /\ t \in Seq(Activation) /\ Len(t) = n /\ \A i \in 1..n : t[i] = s[i]
      /\ Links(t) /\ Within(t, n) = Within(s, n)
  <2>1. n \in 1..Len(s)
    OBVIOUS
  <2> QED BY <1>1, <2>1, LinksOfRest
<1>3. s[1].op = "main" /\ c = Within(s, n + 1)
  BY MainFirst DEF Shape
<1>4. Parked(t, v)
  <2>1. \A k \in 1..Len(t) : k \in 1..Len(s) /\ t[k] = s[k]
    BY <1>2
  <2> QED BY <2>1 DEF Shape, Parked
<1>5. ASSUME s[n + 1].op # "site" PROVE c = Within(t, n)
  BY <1>2, <1>3, <1>5, WithinNext
<1>6. ASSUME s[n + 1].op = "site" PROVE [c EXCEPT !.site = s[n + 1].prev] = Within(t, n)
  <2>1. c.vm = Within(s, n).vm
    BY <1>3, WithinNext
  <2>2. s[n + 1].prev = Within(s, n).site
    <3>1. Link(s, n + 1) /\ n + 1 - 1 = n
      BY DEF Shape, Links
    <3> QED BY <1>6, <3>1 DEF Link
  <2> QED BY <1>2, <1>3, <2>1, <2>2 DEF Within
<1> QED BY <1>1, <1>2, <1>4, <1>5, <1>6 DEF Shape

\* A frame's machine is parked, and the context of its caller comes back.
LEMMA PopCall ==
    ASSUME NEW s, NEW v, NEW c, Shape(s, v, c), NEW n \in Nat \ {0}, Len(s) = n + 1,
           s[n + 1].op = "call"
    PROVE  Shape(SubSeq(s, 1, n), [v EXCEPT ![s[n + 1].id] = s[n + 1].vm], s[n + 1].outer)
<1>1. PICK t : t = SubSeq(s, 1, n)
  OBVIOUS
<1>2. /\ t \in Seq(Activation) /\ Len(t) = n /\ \A i \in 1..n : t[i] = s[i]
      /\ Links(t) /\ Within(t, n) = Within(s, n)
  <2>1. n \in 1..Len(s)
    OBVIOUS
  <2> QED BY <1>1, <2>1, LinksOfRest
<1>3. PICK a : a = s[n + 1]
  OBVIOUS
<1>4. a \in CallSet /\ a.id \in Ids /\ a.vm \in Machines /\ IsChunk(a)
  <2>1. s[n + 1] \in Activation
    BY MainFirst
  <2>2. a \in CallSet
    BY <1>3, <2>1, Kinds
  <2> QED BY <2>2 DEF CallSet, IsChunk
<1>5. a.outer = Within(t, n) /\ \A j \in 1..n : IsChunk(t[j]) => t[j].vm # a.vm
  <2>1. Link(s, n + 1) /\ n + 1 - 1 = n
    BY DEF Shape, Links
  <2> QED BY <1>2, <1>3, <2>1 DEF Link, CallLink
<1>6. PICK w : w = [v EXCEPT ![a.id] = a.vm]
  OBVIOUS
<1>7. v \in [Ids -> {0} \cup Machines]
  BY DEF Shape
<1>8. /\ w \in [Ids -> {0} \cup Machines] /\ w[a.id] = a.vm
      /\ \A id \in Ids : id # a.id => w[id] = v[id]
  BY <1>4, <1>6, <1>7
<1>9. Parked(t, w)
  <2>0. \A id \in Ids : v[id] # a.vm
    <3>1. n + 1 \in 1..Len(s)
      OBVIOUS
    <3> QED BY <1>3, <1>4, <3>1 DEF Shape, Parked
  <2>1. ASSUME NEW k \in 1..Len(t), IsChunk(t[k]), NEW id \in Ids PROVE w[id] # t[k].vm
    <3>1. k \in 1..n /\ k \in 1..Len(s) /\ t[k] = s[k]
      BY <1>2
    <3>2. v[id] # t[k].vm
      BY <2>1, <3>1 DEF Shape, Parked
    <3> QED BY <1>5, <1>8, <2>1, <3>1, <3>2
  <2>2. ASSUME NEW x \in Ids, NEW y \in Ids, w[x] = w[y], w[x] # 0 PROVE x = y
    <3>1. CASE x # a.id /\ y # a.id
      <4>1. v[x] = v[y] /\ v[x] # 0
        BY <1>8, <2>2, <3>1
      <4> QED BY <4>1 DEF Shape, Parked
    <3>2. CASE x = a.id \/ y = a.id
      BY <1>8, <2>0, <2>2, <3>2
    <3> QED BY <3>1, <3>2
  <2> QED BY <2>1, <2>2 DEF Parked
<1> QED BY <1>1, <1>2, <1>3, <1>5, <1>6, <1>8, <1>9 DEF Shape

\* The context that a stack asks for has its type.
LEMMA ContextTyped ==
    ASSUME NEW s, NEW v, NEW c, Shape(s, v, c)
    PROVE  c \in Context
<1>1. /\ Len(s) \in Nat \ {0} /\ s[1].op = "main"
      /\ \A k \in 1..Len(s) : s[k] \in Activation
  BY MainFirst
<1> DEFINE n == Chunk(s, Len(s))
<1>2. n \in 1..Len(s) /\ IsChunk(s[n])
  BY <1>1, ChunkIs
<1>3. s[n] \in MainSet \/ s[n] \in CallSet
  BY <1>1, <1>2, Kinds DEF IsChunk
<1>4. s[n].vm \in Machines
  BY <1>3 DEF MainSet, CallSet
<1> QED BY <1>4 DEF Shape, Within, Context

-----------------------------------------------------------------------------
(* The invariant, as the actions use it *)

\* What the invariant says of the innermost activations.
LEMMA Tops ==
    ASSUME IInv
    PROVE  /\ Here \in Nat \ {0} /\ Here <= MaxStack /\ stack \in Seq(Activation)
           /\ \A k \in 1..Here : stack[k] \in Activation /\ Link(stack, k)
           /\ Top \in Activation /\ Link(stack, Here)
           /\ Top.op = "main" <=> Here = 1
           /\ Here # 1 => Here - 1 \in Nat \ {0} /\ stack[Here - 1] \in Activation
<1>1. Shape(stack, vms, context) /\ Here <= MaxStack
  BY DEF IInv, Small
<1>2. /\ Here \in Nat \ {0} /\ stack \in Seq(Activation)
      /\ \A k \in 1..Here : stack[k] \in Activation /\ (stack[k].op = "main" <=> k = 1)
  BY <1>1, MainFirst DEF Shape, Here
<1>3. \A k \in 1..Here : Link(stack, k)
  BY <1>1 DEF Shape, Links, Here
<1>4. Here \in 1..Here /\ (Here # 1 => Here - 1 \in 1..Here /\ Here - 1 \in Nat \ {0})
  BY <1>2
<1> QED BY <1>1, <1>2, <1>3, <1>4 DEF Top

\* The type invariant follows from the inductive one.
LEMMA Types ==
    ASSUME IInv
    PROVE  TypeOK
<1>1. context \in Context
  BY ContextTyped DEF IInv
<1>2. Len(stack) \in 1..MaxStack /\ MaxStack \in Nat
  BY Tops, DispatchAssumption DEF Here
<1> QED BY <1>1, <1>2 DEF IInv, Small, Shape, Activation, TypeOK

\* No flag is set while the innermost activation is none that could have set it.
LEMMA Quiet ==
    ASSUME IInv, Top.op \notin {"callee", "force", "dispatch"}
    PROVE  /\ ~forcing
           /\ Ordinary => pending = None /\ ~suppress
           /\ \A k \in 1..Here : stack[k].op = "callee" => ~stack[k].default
<1>1. ~forcing
  BY DEF IInv, ForcingInv, Entering
<1>2. Ordinary => pending = None /\ ~suppress
  BY DEF IInv, PendingInv, SuppressInv, Entering
<1>3. \A k \in 1..Here : stack[k].op = "callee" => ~stack[k].default
  BY DEF IInv, DefaultInv, Top
<1> QED BY <1>1, <1>2, <1>3

\* After a step that leaves no flag set, and no call that awaits one.
LEMMA QuietAfter ==
    ASSUME IInv, Small', Shape(stack', vms', context'), ~forcing',
           Ordinary => pending' = None /\ ~suppress',
           \A k \in 1..Len(stack') : stack'[k].op = "callee" => ~stack'[k].default,
           flow' = "run" => ~Entering("force")' /\ ~Entering("dispatch")'
    PROVE  IInv'
<1>1. ForcingInv'
  BY DEF ForcingInv
<1>2. DefaultInv'
  BY DEF DefaultInv, Here
<1>3. Ordinary => PendingInv' /\ SuppressInv'
  BY DEF PendingInv, SuppressInv
<1> QED BY <1>1, <1>2, <1>3 DEF IInv, Ordinary

\* What one more activation owes, by its kind.
LEMMA LinkOfNew ==
    ASSUME NEW s \in Seq(Activation), Len(s) # 0, NEW a \in Activation, a.op # "main"
    PROVE  /\ a.op \in {"body", "use"} => Link(Append(s, a), Len(s) + 1)
           /\ a.op = "callee" /\ (a.default => a.fun \in Generics)
                  /\ s[Len(s)].op \notin {"force", "dispatch"} =>
                  Link(Append(s, a), Len(s) + 1)
           /\ a.op = "callee" /\ ~a.default /\ s[Len(s)].op = "dispatch"
                  /\ a.fun \in Closures \cup {Primitive}
                  /\ (Ordinary => a.fun # Primitive) =>
                  Link(Append(s, a), Len(s) + 1)
           /\ a.op = "callee" /\ ~a.default /\ s[Len(s)].op = "force" /\ a.fun = Thunk
                  /\ (\E j \in 1..Len(s) :
                         s[j].op = "call" /\ ~s[j].promise /\ s[j].env = a.env) =>
                  Link(Append(s, a), Len(s) + 1)
           /\ a.op = "next"
                  /\ (\E j \in 1..Len(s) :
                         /\ s[j].op = "call" /\ ~s[j].promise /\ s[j].env = s[Len(s)].env
                         /\ a.plan = s[j].dispatch /\ a.arg = s[j].x) =>
                  Link(Append(s, a), Len(s) + 1)
           /\ a.op = "dispatch" /\ a.from = Len(s)
                  /\ (s[Len(s)].op \in {"next", "use"} =>
                         Len(a.plan.rest) < Len(s[Len(s)].plan.rest))
                  /\ (s[Len(s)].op = "callee" => ~s[Len(s)].default) =>
                  Link(Append(s, a), Len(s) + 1)
           /\ a.op = "force" /\ s[Len(s)].op \in {"main", "call", "use", "next"} =>
                  Link(Append(s, a), Len(s) + 1)
<1>1. PICK n : n = Len(s)
  OBVIOUS
<1>2. PICK t : t = Append(s, a)
  OBVIOUS
<1>3. /\ n \in Nat \ {0} /\ n + 1 # 1 /\ n + 1 - 1 = n
      /\ t[n + 1] = a /\ \A i \in 1..n : t[i] = s[i]
  BY <1>1, <1>2, AppendProperties, LenProperties
<1>4. t[n + 1 - 1] = s[n] /\ n \in 1..n
  BY <1>3
<1>5. a.op \in {"body", "use"} => Link(t, n + 1)
  BY <1>3 DEF Link
<1>6. a.op = "callee" /\ CalleeLink(t, n + 1) => Link(t, n + 1)
  BY <1>3 DEF Link
<1>7. a.op = "callee" /\ (a.default => a.fun \in Generics)
          /\ s[n].op \notin {"force", "dispatch"} => CalleeLink(t, n + 1)
  BY <1>3, <1>4 DEF CalleeLink
<1>8. a.op = "callee" /\ ~a.default /\ s[n].op = "dispatch"
          /\ a.fun \in Closures \cup {Primitive} /\ (Ordinary => a.fun # Primitive) =>
          CalleeLink(t, n + 1)
  BY <1>3, <1>4 DEF CalleeLink
<1>9. a.op = "callee" /\ ~a.default /\ s[n].op = "force" /\ a.fun = Thunk
          /\ (\E j \in 1..n : s[j].op = "call" /\ ~s[j].promise /\ s[j].env = a.env) =>
          CalleeLink(t, n + 1)
  BY <1>3, <1>4 DEF CalleeLink, WriterBelow
<1>10. a.op = "next"
          /\ (\E j \in 1..n :
                 /\ s[j].op = "call" /\ ~s[j].promise /\ s[j].env = s[n].env
                 /\ a.plan = s[j].dispatch /\ a.arg = s[j].x) =>
          Link(t, n + 1)
  BY <1>3, <1>4 DEF Link, NextLink
<1>11. a.op = "dispatch" /\ a.from = n
          /\ (s[n].op \in {"next", "use"} => Len(a.plan.rest) < Len(s[n].plan.rest))
          /\ (s[n].op = "callee" => ~s[n].default) =>
          Link(t, n + 1)
  BY <1>3, <1>4 DEF Link, DispatchLink
<1>12. a.op = "force" /\ s[n].op \in {"main", "call", "use", "next"} => Link(t, n + 1)
  BY <1>3, <1>4 DEF Link
<1> QED BY <1>1, <1>2, <1>5, <1>6, <1>7, <1>8, <1>9, <1>10, <1>11, <1>12

\* After a step to the activation below, no call that awaits a flag goes on.
LEMMA PopAfter ==
    ASSUME IInv, flow # "run", Top.op # "main", stack' = Under,
           Shape(stack', vms', context'), table' = table,
           flow' \in {"run", "ok", "err"},
           flow' = "run" => stack[Here - 1].op # "callee",
           suppress' = suppress, pending' \in {pending, None}, forcing' \in {forcing, FALSE},
           forcing' => flow' = "err" /\ stack[Here - 1].op = "force",
           Ordinary => (pending' # None => flow' = "err" /\ stack[Here - 1].op = "dispatch")
    PROVE  IInv'
<1>1. /\ Here \in Nat \ {0} /\ Here # 1 /\ Here - 1 \in Nat \ {0} /\ Here <= MaxStack
      /\ Here - 1 \in 0..Len(stack) /\ stack \in Seq(Activation) /\ MaxStack \in Nat
  BY Tops, DispatchAssumption DEF Here
<1>2. /\ Here' = Here - 1 /\ Len(stack') = Here - 1 /\ Top' = stack[Here - 1]
      /\ \A k \in 1..(Here - 1) : stack'[k] = stack[k]
  <2>1. /\ Len(SubSeq(stack, 1, Here - 1)) = Here - 1
        /\ \A k \in 1..(Here - 1) : SubSeq(stack, 1, Here - 1)[k] = stack[k]
    BY <1>1, FirstPart
  <2> QED BY <1>1, <2>1 DEF Under, Here, Top
<1>3. Small'
  <2>1. Here' <= MaxStack
    BY <1>1, <1>2
  <2>2. pending' \in Plan \cup {None} /\ suppress' \in BOOLEAN /\ forcing' \in BOOLEAN
    BY DEF IInv, Small
  <2> QED BY <2>1, <2>2 DEF IInv, Small
<1>4. ForcingInv'
  BY <1>2 DEF ForcingInv, Entering
<1>5. DefaultInv'
  <2>1. \A k \in 1..(Here - 1) : k \in 1..Here /\ k # Here
    BY <1>1
  <2>2. \A k \in 1..(Here - 1) : ~(stack[k].op = "callee" /\ stack[k].default)
    BY <2>1 DEF IInv, DefaultInv
  <2> QED BY <1>2, <2>2 DEF DefaultInv
<1>6. ASSUME Ordinary PROVE PendingInv' /\ SuppressInv'
  <2>1. ~suppress'
    BY <1>6 DEF IInv, SuppressInv
  <2>2. flow' # "err" => pending' = None
    BY <1>6
  <2>3. flow' = "run" => ~Entering("dispatch")'
    BY <1>2 DEF Entering
  <2>4. pending' # None => Top'.op = "dispatch"
    BY <1>2, <1>6
  <2> QED BY <2>1, <2>2, <2>3, <2>4 DEF PendingInv, SuppressInv
<1> QED BY <1>3, <1>4, <1>5, <1>6 DEF IInv, Ordinary

\* Whatever is below, it goes on only if it is a chunk or a builtin.
LEMMA Outcomes ==
    ASSUME NEW below, NEW f \in {"ok", "err"}
    PROVE  /\ Outcome(below, f) \in {"run", "ok", "err"}
           /\ Outcome(below, f) = "run" => below.op \in {"main", "call", "body"}
           /\ f = "err" /\ below.op # "body" => Outcome(below, f) = "err"
BY DEF Outcome, IsChunk

\* The parts of PopAfter that every way out shares.
LEMMA RestShape ==
    ASSUME IInv, Top.op # "main"
    PROVE  /\ Here # 1
           /\ Top.op \notin {"call", "site"} => Shape(Under, vms, context)
           /\ Top.op = "site" => Shape(Under, vms, [context EXCEPT !.site = Top.prev])
           /\ Top.op = "call" => Shape(Under, [vms EXCEPT ![Top.id] = Top.vm], Top.outer)
<1>1. PICK n : n = Here - 1
  OBVIOUS
<1>2. n \in Nat \ {0} /\ Len(stack) = n + 1 /\ Here = n + 1 /\ Here # 1
  BY <1>1, Tops DEF Here
<1>3. Shape(stack, vms, context)
  BY DEF IInv
<1>4. Under = SubSeq(stack, 1, n) /\ Top = stack[n + 1]
  BY <1>1, <1>2 DEF Under, Top
<1>5. CASE Top.op = "call"
  BY <1>2, <1>3, <1>4, <1>5, PopCall
<1>6. CASE Top.op # "call"
  <2>1. ~IsChunk(stack[n + 1])
    BY <1>4, <1>6 DEF IsChunk
  <2> QED BY <1>2, <1>3, <1>4, <1>6, <2>1, PopPlain
<1> QED BY <1>5, <1>6

-----------------------------------------------------------------------------
(* The way out *)

\* A frame leaves: its machine is parked and the context comes back.
LEMMA LeaveCallInv == ASSUME IInv, LeaveCall PROVE IInv'
<1>1. ~forcing /\ (Ordinary => pending = None)
  BY Quiet DEF LeaveCall
<1>2. flow \in {"ok", "err"}
  BY DEF IInv, Small, LeaveCall
<1>3. Shape(stack', vms', context')
  BY RestShape DEF LeaveCall, Park, ContextBack, Pops
<1>4. /\ flow' \in {"run", "ok", "err"}
      /\ flow' = "run" => stack[Here - 1].op # "callee"
  BY <1>2, Outcomes DEF LeaveCall, Pops
<1> QED BY <1>1, <1>3, <1>4, PopAfter DEF LeaveCall, Pops, flags

\* A builtin, or the waiting call of a function, leaves; a failed call may leave a
\* flag behind, for what is below it.
LEMMA LeaveBodyInv == ASSUME IInv, LeaveBody PROVE IInv'
<1>2. flow \in {"ok", "err"} /\ Top.op \in {"body", "callee"}
  BY DEF IInv, Small, LeaveBody
<1>3. Shape(stack', vms', context')
  BY <1>2, RestShape DEF LeaveBody, Pops
<1>4. /\ flow' \in {"run", "ok", "err"}
      /\ flow' = "run" => stack[Here - 1].op # "callee"
      /\ flow = "err" /\ stack[Here - 1].op # "body" => flow' = "err"
  BY <1>2, Outcomes DEF LeaveBody, Pops
<1>5. forcing => flow = "err" /\ stack[Here - 1].op = "force"
  BY <1>2 DEF IInv, ForcingInv, Entering
<1>6. Ordinary => (pending # None => flow = "err" /\ stack[Here - 1].op = "dispatch")
  BY <1>2 DEF IInv, PendingInv, Entering
<1> QED BY <1>2, <1>3, <1>4, <1>5, <1>6, PopAfter DEF LeaveBody, Pops, flags

\* A dispatch leaves, and clears what its method did not take.
LEMMA LeaveDispatchInv == ASSUME IInv, LeaveDispatch PROVE IInv'
<1>1. ~forcing
  BY DEF IInv, ForcingInv, Entering, LeaveDispatch
<1>2. flow \in {"ok", "err"}
  BY DEF IInv, Small, LeaveDispatch
<1>3. Shape(stack', vms', context')
  BY RestShape DEF LeaveDispatch, Pops
<1>4. /\ flow' \in {"run", "ok", "err"}
      /\ flow' = "run" => stack[Here - 1].op # "callee"
  BY <1>2, Outcomes DEF LeaveDispatch, Pops
<1> QED BY <1>1, <1>3, <1>4, PopAfter DEF LeaveDispatch, Pops, PendingCleared

\* A forcing leaves: the reader of the promise goes on.
LEMMA LeaveForceInv == ASSUME IInv, LeaveForce PROVE IInv'
<1>1. Ordinary => pending = None
  BY DEF IInv, PendingInv, Entering, LeaveForce
<1>2. flow \in {"ok", "err"}
  BY DEF IInv, Small, LeaveForce
<1>3. Shape(stack', vms', context')
  BY RestShape DEF LeaveForce, Pops
<1>5. stack[Here - 1].op \in {"main", "call", "use", "next"}
  BY Tops DEF Link, Top, LeaveForce
<1>4. /\ flow' \in {"run", "ok", "err"}
      /\ flow' = "run" => stack[Here - 1].op # "callee"
  BY <1>2, <1>5, Outcomes DEF LeaveForce, Pops
<1> QED BY <1>1, <1>3, <1>4, PopAfter DEF LeaveForce, Pops

\* An operator's site is taken back.
LEMMA LeaveSiteInv == ASSUME IInv, LeaveSite PROVE IInv'
<1>1. ~forcing /\ (Ordinary => pending = None)
  BY Quiet DEF LeaveSite
<1>2. flow \in {"ok", "err"}
  BY DEF IInv, Small, LeaveSite
<1>3. Shape(stack', vms', context')
  BY RestShape DEF LeaveSite, SitePut, Pops
<1>4. /\ flow' \in {"run", "ok", "err"}
      /\ flow' = "run" => stack[Here - 1].op # "callee"
  BY <1>2, Outcomes DEF LeaveSite, Pops
<1> QED BY <1>1, <1>3, <1>4, PopAfter DEF LeaveSite, Pops, flags

\* UseMethod ends its function, NextMethod answers.
LEMMA LeaveReadInv == ASSUME IInv, LeaveRead PROVE IInv'
<1>1. ~forcing /\ (Ordinary => pending = None)
  BY Quiet DEF LeaveRead
<1>2. flow \in {"ok", "err"}
  BY DEF IInv, Small, LeaveRead
<1>3. Shape(stack', vms', context')
  BY RestShape DEF LeaveRead, Pops
<1>4. /\ flow' \in {"run", "ok", "err"}
      /\ flow' = "run" => stack[Here - 1].op # "callee"
  BY <1>2, Outcomes DEF LeaveRead, Pops
<1> QED BY <1>1, <1>3, <1>4, PopAfter DEF LeaveRead, Pops, flags

-----------------------------------------------------------------------------
(* One more activation *)

\* The classes that a generic is dispatched on.
LEMMA ClassesTyped ==
    ASSUME NEW generic, NEW classed
    PROVE  ClassesOf(generic, classed) \in Seq(Positions)
<1>1. <<1, 2>> \in Seq(Positions) /\ <<3>> \in Seq(Positions) /\ <<>> \in Seq(Positions)
  BY DEF Positions, Default
<1> QED BY <1>1, ConcatProperties DEF ClassesOf, Classed, Default

\* A function about to be called.
LEMMA CalleeTyped ==
    ASSUME NEW fun \in Ids \cup Generics \cup {Primitive}, NEW env \in 0..MaxStack,
           NEW classed \in BOOLEAN, NEW arg \in Values
    PROVE  /\ Callee(fun, env, classed, arg) \in CalleeSet
           /\ Callee(fun, env, classed, arg).op = "callee"
           /\ Callee(fun, env, classed, arg).fun = fun
           /\ Callee(fun, env, classed, arg).env = env
           /\ ~Callee(fun, env, classed, arg).default
BY DEF Callee, CalleeSet

\* A step that pushes one activation while no flag is set.
LEMMA PushAfter ==
    ASSUME IInv, Top.op \notin {"callee", "force", "dispatch"}, NEW a \in Activation,
           ~IsChunk(a), a.op # "site", Link(Append(stack, a), Here + 1),
           a.op = "callee" => ~a.default, Push(a),
           UNCHANGED <<table, flags, vms, context>>
    PROVE  IInv'
<1>1. Shape(stack', vms', context')
  BY PushPlain DEF IInv, Push, Here
<1>2. /\ Here \in Nat \ {0} /\ Here' = Here + 1 /\ Here' - 1 = Here
      /\ \A k \in 1..Here : stack'[k] = stack[k]
      /\ stack'[Here + 1] = a
  <2>1. stack' = Append(stack, a) /\ stack \in Seq(Activation) /\ Here \in Nat \ {0}
    BY Tops DEF Push
  <2> QED BY <2>1, AppendProperties DEF Here
<1>3. Top' = a /\ stack'[Here' - 1] = Top
  BY <1>2 DEF Top
<1>4. Small'
  <2>1. Here' <= MaxStack
    BY <1>2, DispatchAssumption DEF Push
  <2> QED BY <2>1 DEF IInv, Small, flags, Push
<1>5. \A k \in 1..Len(stack') : stack'[k].op = "callee" => ~stack'[k].default
  <2>1. \A k \in 1..Len(stack') : k \in 1..Here \/ k = Here + 1
    BY <1>2 DEF Here
  <2> QED BY <1>2, <2>1, Quiet
<1>6. ~forcing' /\ (Ordinary => pending' = None /\ ~suppress')
  BY Quiet DEF flags
<1>7. ~Entering("force")' /\ ~Entering("dispatch")'
  BY <1>3 DEF Entering
<1> QED BY <1>1, <1>4, <1>5, <1>6, <1>7, QuietAfter

\* A function is called by a chunk or a builtin.
LEMMA CallInv == ASSUME IInv, Call PROVE IInv'
<1>1. Top.op \in {"main", "call", "body"}
  BY DEF Call, Runs, Doing, IsChunk
<1>2. PICK a : /\ Push(a)
               /\ \/ \E id \in Closures : a = Callee(id, 0, FALSE, 0)
                  \/ \E classed \in BOOLEAN : a = Callee("print", 0, classed, 0)
  BY DEF Call
<1>3. a \in CalleeSet /\ a.op = "callee" /\ ~a.default
  <2>0. 0 \in 0..MaxStack /\ 0 \in Values
    BY DispatchAssumption DEF Values
  <2>1. CASE \E id \in Closures : a = Callee(id, 0, FALSE, 0)
    <3>1. PICK id \in Closures : a = Callee(id, 0, FALSE, 0)
      BY <2>1
    <3>2. id \in Ids \cup Generics \cup {Primitive}
      BY DEF Ids
    <3>3. PICK c \in BOOLEAN : c = FALSE
      OBVIOUS
    <3>4. a = Callee(id, 0, c, 0)
      BY <3>1, <3>3
    <3> QED BY <2>0, <3>2, <3>4, CalleeTyped
  <2>2. CASE \E classed \in BOOLEAN : a = Callee("print", 0, classed, 0)
    BY <2>0, <2>2, CalleeTyped DEF Generics, Internal
  <2> QED BY <1>2, <2>1, <2>2
<1>4. a \in Activation /\ ~IsChunk(a)
  BY <1>3 DEF Activation, IsChunk
<1>5. Link(Append(stack, a), Here + 1)
  BY <1>1, <1>3, <1>4, Tops, LinkOfNew DEF Here, Top
<1> QED BY <1>1, <1>2, <1>3, <1>4, <1>5, PushAfter DEF Call

\* use_method reads the frame.
LEMMA UseMethodInv == ASSUME IInv, UseMethod PROVE IInv'
<1>1. Top.op = "call" /\ Top \in CallSet
  BY Tops, Kinds DEF UseMethod, Doing
<1>2. PICK generic \in UserGenerics, classed \in BOOLEAN :
          Push([op |-> "use", arg |-> Top.args,
                plan |-> [generic |-> generic, rest |-> ClassesOf(generic, classed)]])
  BY DEF UseMethod
<1>3. PICK a : a = [op |-> "use", arg |-> Top.args,
                    plan |-> [generic |-> generic, rest |-> ClassesOf(generic, classed)]]
  OBVIOUS
<1>4. ClassesOf(generic, classed) \in Seq(Positions)
  BY ClassesTyped
<1>5. a \in Activation /\ a.op = "use" /\ ~IsChunk(a)
  <2>1. a \in ReadSet
    BY <1>1, <1>3, <1>4 DEF ReadSet, CallSet, Plan, Generics
  <2> QED BY <1>3, <2>1 DEF Activation, IsChunk
<1>6. Link(Append(stack, a), Here + 1)
  BY <1>5, Tops, LinkOfNew DEF Here
<1> QED BY <1>1, <1>2, <1>3, <1>5, <1>6, PushAfter DEF UseMethod

\* next_method reads the frame of the function it is written in.
LEMMA NextMethodInv == ASSUME IInv, NextMethod PROVE IInv'
<1>1. Here \in Nat \ {0} /\ IsChunk(Top) /\ Env # 0 /\ Here \in 1..Here
  BY Tops DEF NextMethod, Runs
<1>2. \A k \in Calls : k \in 1..Here /\ stack[k] \in CallSet
  BY Tops, Kinds DEF Calls
<1>3. Top.op = "call"
  <2>1. CASE Top.op = "main"
    <3>1. Here = 1
      BY <2>1, Tops
    <3>2. Calls = {}
      BY <2>1, <3>1 DEF Calls, Top
    <3> QED BY <1>1, <3>2 DEF Env
  <2> QED BY <1>1, <2>1 DEF IsChunk
<1>4. Env = Top.env
  <2>1. Here \in Calls /\ Calls \subseteq 1..Here /\ \A k \in Calls : k <= Here
    BY <1>1, <1>3 DEF Calls, Top
  <2>2. HighestOf(Calls) = Here
    <3>1. HighestOf(Calls) \in Calls /\ \A m \in Calls : m <= HighestOf(Calls)
      BY <1>1, <2>1, HighestIs
    <3>2. PICK h \in 1..Here : h = HighestOf(Calls)
      BY <2>1, <3>1
    <3>3. h <= Here /\ Here <= h
      BY <2>1, <3>1, <3>2
    <3> QED BY <1>1, <3>2, <3>3
  <2> QED BY <2>1, <2>2 DEF Env, LastCall, Top
<1> DEFINE own == {k \in Calls : ~stack[k].promise /\ stack[k].env = Env}
<1>5. own # {}
  <2>1. CASE ~Top.promise
    BY <1>1, <1>3, <1>4, <2>1 DEF Calls, Top
  <2>2. CASE Top.promise
    <3>1. WriterBelow(stack, Here)
      BY <1>3, <2>2, Tops DEF Link, CallLink, Top
    <3>2. \A j \in 1..(Here - 1) : j \in 1..Here
      BY <1>1
    <3> QED BY <1>4, <3>1, <3>2 DEF WriterBelow, Calls, Top
  <2> QED BY <2>1, <2>2
<1>6. PICK k : k = InnermostCall
  OBVIOUS
<1>7. k \in own
  <2>1. own \subseteq 1..Here
    BY <1>2
  <2>2. HighestOf(own) \in own
    BY <1>1, <1>5, <2>1, HighestIs
  <2> QED BY <1>5, <1>6, <2>2 DEF InnermostCall
<1>8. PICK a : a = [op |-> "next", plan |-> stack[k].dispatch, arg |-> stack[k].x]
  OBVIOUS
<1>9. Push(a)
  <2>1. [op |-> "next", plan |-> stack[InnermostCall].dispatch, arg |-> PassedOn(InnermostCall)]
            = a
    BY <1>6, <1>8 DEF PassedOn
  <2> QED BY <2>1 DEF NextMethod
<1>10. a \in Activation /\ a.op = "next" /\ ~IsChunk(a)
  <2>1. a \in ReadSet
    BY <1>2, <1>7, <1>8 DEF ReadSet, CallSet
  <2> QED BY <1>8, <2>1 DEF Activation, IsChunk
<1>11. Link(Append(stack, a), Here + 1)
  <2>1. /\ stack[k].op = "call" /\ ~stack[k].promise /\ stack[k].env = stack[Here].env
        /\ a.plan = stack[k].dispatch /\ a.arg = stack[k].x /\ k \in 1..Here
    BY <1>4, <1>7, <1>8 DEF Calls, Top
  <2> QED BY <1>10, <2>1, Tops, LinkOfNew DEF Here
<1> QED BY <1>3, <1>9, <1>10, <1>11, PushAfter DEF NextMethod

\* The innermost activation comes to an end.
LEMMA FinishInv == ASSUME IInv, Finish PROVE IInv'
<1>1. Top.op \notin {"callee", "force", "dispatch"}
  BY DEF Finish, Runs, Doing, IsChunk
<1>2. Small'
  BY DEF Finish, IInv, Small, flags, Here
<1>3. Shape(stack', vms', context')
  BY DEF Finish, IInv
<1>4. ~forcing' /\ (Ordinary => pending' = None /\ ~suppress')
  BY <1>1, Quiet DEF Finish, flags
<1>5. \A k \in 1..Len(stack') : stack'[k].op = "callee" => ~stack'[k].default
  BY <1>1, Quiet DEF Finish, Here
<1> QED BY <1>2, <1>3, <1>4, <1>5, QuietAfter DEF Finish

\* A method changes its formal: nothing that others rely on.
LEMMA AssignInv == ASSUME IInv, Assign PROVE IInv'
<1>1. PICK n : n = Here
  OBVIOUS
<1>2. /\ n \in Nat \ {0} /\ stack \in Seq(Activation) /\ Len(stack) = n /\ n \in 1..n
      /\ \A k \in 1..n : stack[k] \in Activation /\ Link(stack, k)
      /\ stack[n].op = "call" /\ stack[n] \in CallSet /\ ~stack[n].promise
      /\ stack[1].op = "main" /\ stack[n].x = 0 /\ n # 1
  <2>1. Here \in Nat \ {0} /\ Top.op = "call" /\ Top \in CallSet /\ Top.x = 0
    BY Tops, Kinds DEF Assign, Doing
  <2>2. stack[1].op = "main"
    BY <2>1, Tops DEF Link
  <2> QED BY <1>1, <2>1, <2>2, Tops DEF Assign, Here, Top
<1>3. PICK b : b = [stack[n] EXCEPT !.x = @ + 1]
  OBVIOUS
<1>4. /\ b \in CallSet /\ b.op = "call" /\ b.vm = stack[n].vm
      /\ b.promise = stack[n].promise /\ b.env = stack[n].env /\ b.outer = stack[n].outer
      /\ b.dispatch = stack[n].dispatch
  BY <1>2, <1>3 DEF CallSet, Values
<1>5. PICK t : t = stack'
  OBVIOUS
<1>6. t \in Seq(Activation) /\ Len(t) = n /\ t[n] = b /\ \A k \in 1..(n - 1) : t[k] = stack[k]
  <2>1. b \in Activation
    BY <1>4 DEF Activation
  <2>2. t = [stack EXCEPT ![n] = b]
    BY <1>1, <1>3, <1>5 DEF Assign
  <2>3. \A k \in 1..(n - 1) : k \in 1..n /\ k # n
    BY <1>2
  <2> QED BY <1>2, <2>1, <2>2, <2>3, ExceptSeq
<1>7. \A i \in 1..n : /\ IsChunk(t[i]) = IsChunk(stack[i]) /\ t[i].op = stack[i].op
                      /\ (IsChunk(stack[i]) => t[i].vm = stack[i].vm)
  <2>1. \A i \in 1..n : i = n \/ i \in 1..(n - 1)
    BY <1>2
  <2> QED BY <1>2, <1>4, <1>6, <2>1 DEF IsChunk
<1>8. Within(t, n) = Within(stack, n)
  BY <1>2, <1>7, WithinSame
<1>9. ASSUME NEW k \in 1..n PROVE Link(t, k)
  <2>1. CASE k # n
    <3>1. k \in Nat \ {0} /\ \A i \in 1..k : i \in 1..(n - 1)
      BY <1>2, <2>1
    <3> QED BY <1>2, <1>6, <3>1, LinkSame
  <2>2. CASE k = n
    <3>1. n - 1 \in Nat \ {0} /\ n - 1 \in 1..(n - 1) /\ \A i \in 1..(n - 1) : i \in 1..n
      BY <1>2
    <3>2. Within(t, n - 1) = Within(stack, n - 1)
      BY <1>2, <1>7, <3>1, WithinSame
    <3>3. CallLink(stack, n)
      BY <1>2 DEF Link
    <3>4. ~b.promise /\ stack[n - 1] = t[n - 1] /\ \A j \in 1..(n - 1) : t[j] = stack[j]
      BY <1>2, <1>4, <1>6, <3>1
    <3>5. CallLink(t, n)
      BY <1>4, <1>6, <3>2, <3>3, <3>4 DEF CallLink
    <3> QED BY <1>2, <1>4, <1>6, <2>2, <3>5 DEF Link
  <2> QED BY <2>1, <2>2
<1>10. Shape(stack', vms', context')
  <2>1. Parked(t, vms)
    BY <1>2, <1>6, <1>7 DEF IInv, Shape, Parked
  <2>2. context = Within(t, n)
    BY <1>2, <1>8 DEF IInv, Shape
  <2>3. Shape(t, vms, context)
    BY <1>2, <1>6, <1>9, <2>1, <2>2 DEF IInv, Shape, Links
  <2> QED BY <1>5, <2>3 DEF Assign
<1>11. Top.op = "call" /\ Here' = n /\ Top' = b
  BY <1>1, <1>2, <1>5, <1>6 DEF Here, Top
<1>12. Small'
  BY <1>1, <1>11 DEF Assign, IInv, Small, flags
<1>13. \A k \in 1..Len(stack') : stack'[k].op = "callee" => ~stack'[k].default
  <2>1. \A i \in 1..n : i = n \/ i \in 1..(n - 1)
    BY <1>2
  <2>2. \A i \in 1..n : stack[i].op = "callee" => ~stack[i].default
    BY <1>1, <1>11, Quiet
  <2>3. \A i \in 1..(n - 1) : i \in 1..n
    BY <1>2
  <2> QED BY <1>4, <1>5, <1>6, <2>1, <2>2, <2>3
<1>14. ~Entering("force")' /\ ~Entering("dispatch")'
  BY <1>4, <1>11 DEF Entering
<1> QED BY <1>10, <1>11, <1>12, <1>13, <1>14, Quiet, QuietAfter DEF Assign, flags

\* eval_promise_thunk: the call of the thunk is about to find the flag.
LEMMA ForcePromiseInv == ASSUME IInv, ForcePromise PROVE IInv'
<1>1. Top.op \in {"main", "call", "use", "next"}
  BY DEF ForcePromise, Runs, Doing, IsChunk
<1>2. PICK env \in Writers : StartForcing(env)
  BY DEF ForcePromise
<1>3. PICK f : f = [op |-> "force"]
  OBVIOUS
<1>4. PICK a : a = Callee(Thunk, env, FALSE, 0)
  OBVIOUS
<1>5. PICK j \in 1..Here : /\ stack[j].op = "call" /\ ~stack[j].promise
                           /\ stack[j].env = env /\ env \in 0..MaxStack
  <2>1. PICK j \in Calls : ~stack[j].promise /\ stack[j].env = env
    BY DEF Writers
  <2>2. j \in 1..Here /\ stack[j].op = "call" /\ stack[j] \in CallSet
    BY <2>1, Tops, Kinds DEF Calls
  <2> QED BY <2>1, <2>2 DEF CallSet
<1>6. f \in Activation /\ f.op = "force" /\ ~IsChunk(f)
  BY <1>3 DEF Activation, ForceSet, IsChunk
<1>7. a \in Activation /\ a.op = "callee" /\ a.fun = Thunk /\ a.env = env /\ ~a.default
      /\ ~IsChunk(a)
  <2>1. Thunk \in Ids \cup Generics \cup {Primitive} /\ 0 \in Values
    BY DEF Ids, Values
  <2>2. /\ a \in CalleeSet /\ a.op = "callee" /\ a.fun = Thunk /\ a.env = env /\ ~a.default
    <3>1. PICK c \in BOOLEAN : c = FALSE
      OBVIOUS
    <3>2. a = Callee(Thunk, env, c, 0) /\ env \in 0..MaxStack
      BY <1>4, <1>5, <3>1
    <3> QED BY <2>1, <3>2, CalleeTyped
  <2> QED BY <2>2 DEF Activation, IsChunk
<1>8. stack \in Seq(Activation) /\ Here \in Nat \ {0} /\ Len(stack) = Here
  BY Tops DEF Here
<1>9. PICK s : s = Append(stack, f)
  OBVIOUS
<1>10. /\ s \in Seq(Activation) /\ Len(s) = Here + 1 /\ s[Here + 1] = f
       /\ \A k \in 1..Here : s[k] = stack[k]
  BY <1>6, <1>8, <1>9, AppendProperties
<1>11. Shape(s, vms, context)
  <2>1. Link(s, Len(stack) + 1)
    BY <1>1, <1>6, <1>8, <1>9, LinkOfNew DEF Top
  <2> QED BY <1>6, <1>8, <1>9, <2>1, PushPlain DEF IInv
<1>12. PICK t : t = Append(s, a)
  OBVIOUS
<1>13. /\ t \in Seq(Activation) /\ Len(t) = Here + 2 /\ t[Here + 2] = a
       /\ \A k \in 1..(Here + 1) : t[k] = s[k]
  <2>1. /\ t \in Seq(Activation) /\ Len(t) = Len(s) + 1 /\ t[Len(s) + 1] = a
        /\ \A k \in 1..Len(s) : t[k] = s[k]
    BY <1>7, <1>10, <1>12, AppendProperties
  <2> QED BY <1>8, <1>10, <2>1
<1>14. Shape(t, vms, context)
  <2>1. j \in 1..Len(s) /\ s[j] = stack[j] /\ s[Len(s)].op = "force" /\ Len(s) # 0
    BY <1>6, <1>8, <1>10
  <2>2. Link(t, Len(s) + 1)
    BY <1>5, <1>7, <1>10, <1>12, <2>1, LinkOfNew
  <2> QED BY <1>7, <1>11, <1>12, <2>2, PushPlain
<1>15. stack' = t
  <2>1. stack' = stack \o <<f, a>>
    BY <1>2, <1>3, <1>4 DEF StartForcing
  <2>2. stack \o <<f, a>> = Append(Append(stack, f), a)
    <3>1. stack \in Seq(Activation) /\ f \in Activation /\ a \in Activation
      BY <1>6, <1>7, <1>8
    <3> QED BY <3>1, TwoMore
  <2> QED BY <1>9, <1>12, <2>1, <2>2
<1>16. Here' = Here + 2 /\ Here' - 1 = Here + 1 /\ Top' = a /\ stack'[Here' - 1] = f
  BY <1>8, <1>10, <1>13, <1>15 DEF Here, Top
<1>17. Small'
  <2>1. Here' <= MaxStack
    BY <1>2, <1>16 DEF StartForcing
  <2> QED BY <1>2, <2>1 DEF ForcePromise, StartForcing, IInv, Small
<1>18. ForcingInv'
  BY <1>2, <1>6, <1>7, <1>16 DEF StartForcing, ForcingInv, Entering
<1>19. DefaultInv'
  <2>1. ASSUME NEW k \in 1..(Here + 2), t[k].op = "callee" PROVE ~t[k].default
    <3>1. k \in 1..Here \/ k = Here + 1 \/ k = Here + 2
      BY <1>8
    <3>2. CASE k \in 1..Here
      <4>1. t[k] = stack[k]
        BY <1>8, <1>10, <1>13, <3>2
      <4> QED BY <1>1, <2>1, <3>2, <4>1, Quiet
    <3>3. CASE k = Here + 1
      BY <1>6, <1>8, <1>10, <1>13, <2>1, <3>3
    <3>4. CASE k = Here + 2
      BY <1>7, <1>13, <3>4
    <3> QED BY <3>1, <3>2, <3>3, <3>4
  <2> QED BY <1>15, <1>16, <2>1 DEF DefaultInv
<1>20. ASSUME Ordinary PROVE PendingInv' /\ SuppressInv'
  <2>1. pending' = None /\ ~suppress'
    BY <1>1, <1>20, Quiet DEF ForcePromise
  <2>2. ~Entering("dispatch")'
    BY <1>6, <1>16 DEF Entering
  <2> QED BY <2>1, <2>2 DEF PendingInv, SuppressInv
<1>21. Shape(stack', vms', context')
  BY <1>14, <1>15 DEF ForcePromise
<1> QED BY <1>17, <1>18, <1>19, <1>20, <1>21 DEF IInv, Ordinary

-----------------------------------------------------------------------------
(* Dispatch *)

\* The classes after the first that has a method are fewer.
LEMMA NextClassIs ==
    ASSUME NEW rest \in Seq(Positions), IInv
    PROVE  /\ NextClass(rest) \in Nat
           /\ NextClass(rest) # 0 =>
                  /\ NextClass(rest) \in 1..Len(rest)
                  /\ Method(rest[NextClass(rest)]) \in Closures \cup {Primitive}
                  /\ Ordinary => Method(rest[NextClass(rest)]) # Primitive
                  /\ After(rest, NextClass(rest)) \in Seq(Positions)
                  /\ Len(After(rest, NextClass(rest))) < Len(rest)
<1> DEFINE with == {i \in 1..Len(rest) : Method(rest[i]) # None}
<1>1. CASE with = {}
  BY <1>1 DEF NextClass
<1>2. CASE with # {}
  <2>1. with \subseteq Nat
    OBVIOUS
  <2>2. \E i \in with : \A j \in with : i <= j
    BY <1>2, <2>1, LeastElement
  <2>3. PICK i : i = NextClass(rest)
    OBVIOUS
  <2>4. i \in with
    BY <1>2, <2>2, <2>3 DEF NextClass
  <2>5. i \in 1..Len(rest) /\ Len(rest) \in Nat /\ rest[i] \in Positions
    BY <2>4, ElementOfSeq, LenProperties
  <2>6. table \in Tables /\ table \in [Positions -> Closures \cup {None, Primitive}]
    BY DispatchAssumption DEF IInv, Small
  <2>7. /\ Method(rest[i]) \in Closures \cup {Primitive}
        /\ Ordinary => Method(rest[i]) # Primitive
    BY <2>4, <2>5, <2>6 DEF Method, Ordinary
  <2>8. After(rest, i) \in Seq(Positions) /\ Len(After(rest, i)) < Len(rest)
    <3>1. i + 1 \in 1..(Len(rest) + 1) /\ Len(rest) \in 0..Len(rest)
      BY <2>5
    <3>2. /\ SubSeq(rest, i + 1, Len(rest)) \in Seq(Positions)
          /\ Len(SubSeq(rest, i + 1, Len(rest))) =
                 IF i + 1 <= Len(rest) THEN Len(rest) - (i + 1) + 1 ELSE 0
      BY <3>1, PartOf
    <3> QED BY <2>5, <3>2 DEF After
  <2> QED BY <2>3, <2>5, <2>7, <2>8
<1> QED BY <1>1, <1>2

\* dispatch_from: the method is about to find its dispatch, or the default its
\* flag, whoever asked.
LEMMA DispatchFromInv ==
    ASSUME IInv, NEW base, Shape(base, vms, context'), vms' = vms, table' = table,
           NEW generic \in Generics, NEW rest \in Seq(Positions), NEW arg \in Values,
           DispatchFrom(base, generic, rest, arg),
           base[Len(base)].op \notin {"force", "dispatch"},
           base[Len(base)].op \in {"next", "use"} => base[Len(base)].plan.rest = rest,
           \A k \in 1..Len(base) : base[k].op = "callee" => ~base[k].default,
           ~forcing, forcing' = forcing,
           Ordinary => ~suppress /\ (pending = None \/ NextClass(rest) # 0)
    PROVE  IInv'
<1>1. PICK n : n = Len(base)
  OBVIOUS
<1>2. /\ base \in Seq(Activation) /\ n \in Nat \ {0} /\ base[n].op \notin {"force", "dispatch"}
      /\ \A k \in 1..n : base[k].op = "callee" => ~base[k].default
      /\ base[n].op \in {"next", "use"} => base[n].plan.rest = rest
      /\ n + 2 <= MaxStack /\ flow' = "run" /\ n \in 1..MaxStack /\ n \in 1..n
  <2>1. base \in Seq(Activation) /\ n \in Nat \ {0}
    BY <1>1, MainFirst DEF Shape
  <2> QED BY <1>1, <2>1, DispatchAssumption DEF DispatchFrom
<1>3. PICK i : i = NextClass(rest)
  OBVIOUS
<1>4. CASE i = 0
  <2>1. PICK a : a = [Callee(generic, 0, TRUE, arg) EXCEPT !.default = TRUE]
    OBVIOUS
  <2>2. a \in Activation /\ a.op = "callee" /\ a.default /\ a.fun = generic /\ ~IsChunk(a)
    <3>1. a \in CalleeSet /\ a.op = "callee" /\ a.default /\ a.fun = generic
      <4>1. 0 \in 0..MaxStack /\ generic \in Ids \cup Generics \cup {Primitive}
        BY DispatchAssumption
      <4> QED BY <2>1, <4>1 DEF Callee, CalleeSet
    <3> QED BY <3>1 DEF Activation, IsChunk
  <2>3. stack' = Append(base, a) /\ suppress' = TRUE /\ pending' = pending
    BY <1>3, <1>4, <2>1 DEF DispatchFrom, FallsThrough
  <2>4. PICK t : t = Append(base, a)
    OBVIOUS
  <2>5. /\ t \in Seq(Activation) /\ Len(t) = n + 1 /\ t[n + 1] = a
        /\ \A k \in 1..n : t[k] = base[k]
    BY <1>1, <1>2, <2>2, <2>4, AppendProperties
  <2>6. Shape(stack', vms', context')
    <3>1. Link(Append(base, a), Len(base) + 1)
      BY <1>1, <1>2, <2>2, LinkOfNew
    <3> QED BY <2>2, <2>3, <3>1, PushPlain
  <2>7. Here' = n + 1 /\ Top' = a /\ stack'[Here' - 1] = base[n]
    BY <1>2, <2>3, <2>4, <2>5 DEF Here, Top
  <2>8. Small'
    <3>1. Here' <= MaxStack
      BY <1>2, <2>7, DispatchAssumption
    <3> QED BY <1>2, <2>3, <3>1 DEF IInv, Small
  <2>9. ~Entering("force")' /\ ~Entering("dispatch")'
    BY <1>2, <2>7 DEF Entering
  <2>10. ForcingInv'
    BY <2>9 DEF ForcingInv
  <2>11. DefaultInv'
    <3>1. \A k \in 1..(n + 1) : k = n + 1 \/ k \in 1..n
      BY <1>2
    <3> QED BY <1>2, <2>3, <2>4, <2>5, <2>7, <3>1 DEF DefaultInv
  <2>12. ASSUME Ordinary PROVE PendingInv' /\ SuppressInv'
    <3>1. pending' = None
      BY <1>3, <1>4, <2>3, <2>12
    <3>2. generic # "("
      BY <2>12 DEF Ordinary, Generics, Internal
    <3> QED BY <1>2, <2>2, <2>7, <2>9, <3>1, <3>2 DEF PendingInv, SuppressInv
  <2> QED BY <2>6, <2>8, <2>10, <2>11, <2>12 DEF IInv, Ordinary
<1>5. CASE i # 0
  <2> DEFINE m == Method(rest[i])
  <2>1. /\ i \in 1..Len(rest) /\ m \in Closures \cup {Primitive}
        /\ Ordinary => m # Primitive
        /\ After(rest, i) \in Seq(Positions) /\ Len(After(rest, i)) < Len(rest)
    BY <1>3, <1>5, NextClassIs
  <2>2. PICK plan : plan = [generic |-> generic, rest |-> After(rest, i)]
    OBVIOUS
  <2>3. PICK d : d = [op |-> "dispatch", plan |-> plan, from |-> n]
    OBVIOUS
  <2>4. PICK a : a = Callee(m, 0, TRUE, arg)
    OBVIOUS
  <2>5. stack' = base \o <<d, a>> /\ pending' = plan /\ suppress' = suppress
    BY <1>1, <1>3, <1>5, <2>2, <2>3, <2>4 DEF DispatchFrom
  <2>6. plan \in Plan /\ Len(plan.rest) < Len(rest)
    BY <2>1, <2>2 DEF Plan
  <2>7. d \in Activation /\ d.op = "dispatch" /\ d.from = n /\ d.plan = plan /\ ~IsChunk(d)
    <3>1. d \in DispSet /\ d.op = "dispatch" /\ d.from = n /\ d.plan = plan
      BY <1>2, <2>3, <2>6 DEF DispSet
    <3> QED BY <3>1 DEF Activation, IsChunk
  <2>8. a \in Activation /\ a.op = "callee" /\ a.fun = m /\ ~a.default /\ ~IsChunk(a)
    <3>1. PICK c \in BOOLEAN : c = TRUE
      OBVIOUS
    <3>2. m \in Ids \cup Generics \cup {Primitive} /\ 0 \in 0..MaxStack
      BY <2>1, DispatchAssumption DEF Ids
    <3>3. a = Callee(m, 0, c, arg)
      BY <2>4, <3>1
    <3> HIDE DEF m
    <3>4. PICK z : z = 0
      OBVIOUS
    <3>5. z \in 0..MaxStack /\ a = Callee(m, z, c, arg)
      BY <3>2, <3>3, <3>4
    <3>6. a \in CalleeSet /\ a.op = "callee" /\ a.fun = m /\ ~a.default
      BY <3>2, <3>5, CalleeTyped
    <3> QED BY <3>6 DEF Activation, IsChunk
  <2> HIDE DEF m
  <2>9. PICK s : s = Append(base, d)
    OBVIOUS
  <2>10. /\ s \in Seq(Activation) /\ Len(s) = n + 1 /\ s[n + 1] = d
         /\ \A k \in 1..n : s[k] = base[k]
    BY <1>1, <1>2, <2>7, <2>9, AppendProperties
  <2>11. Shape(s, vms, context')
    <3>1. base[n].op \in {"next", "use"} => Len(d.plan.rest) < Len(base[n].plan.rest)
      BY <1>2, <2>6, <2>7
    <3>2. base[n].op = "callee" => ~base[n].default
      BY <1>2
    <3>3. Link(Append(base, d), Len(base) + 1)
      BY <1>1, <1>2, <2>7, <3>1, <3>2, LinkOfNew
    <3> QED BY <2>7, <2>9, <3>3, PushPlain
  <2>12. PICK t : t = Append(s, a)
    OBVIOUS
  <2>13. /\ t \in Seq(Activation) /\ Len(t) = n + 2 /\ t[n + 2] = a
         /\ \A k \in 1..(n + 1) : t[k] = s[k]
    <3>1. /\ t \in Seq(Activation) /\ Len(t) = Len(s) + 1 /\ t[Len(s) + 1] = a
          /\ \A k \in 1..Len(s) : t[k] = s[k]
      BY <2>8, <2>10, <2>12, AppendProperties
    <3> QED BY <1>2, <2>10, <3>1
  <2>14. Shape(t, vms, context')
    <3>1. s[Len(s)] = d /\ Len(s) # 0
      BY <1>2, <2>10
    <3>2. Link(Append(s, a), Len(s) + 1)
      BY <2>1, <2>7, <2>8, <2>10, <3>1, LinkOfNew
    <3> QED BY <2>8, <2>11, <2>12, <3>2, PushPlain
  <2>15. stack' = t
    <3>1. base \in Seq(Activation) /\ d \in Activation /\ a \in Activation
      BY <1>2, <2>7, <2>8
    <3>2. base \o <<d, a>> = Append(Append(base, d), a)
      BY <3>1, TwoMore
    <3> QED BY <2>5, <2>9, <2>12, <3>2
  <2>16. Here' = n + 2 /\ Top' = a /\ stack'[Here' - 1] = d
    <3>1. Here' = n + 2 /\ Here' - 1 = n + 1 /\ n + 1 \in 1..(n + 1)
      BY <1>2, <2>13, <2>15 DEF Here
    <3> QED BY <2>10, <2>13, <2>15, <3>1 DEF Top
  <2>17. Small'
    BY <1>2, <2>5, <2>6, <2>16 DEF IInv, Small
  <2>18. ForcingInv'
    BY <2>7, <2>16 DEF ForcingInv, Entering
  <2>19. DefaultInv'
    <3>1. ASSUME NEW k \in 1..(n + 2), t[k].op = "callee" PROVE ~t[k].default
      <4>1. k \in 1..n \/ k = n + 1 \/ k = n + 2
        BY <1>2
      <4>2. CASE k \in 1..n
        <5>1. t[k] = base[k]
          BY <1>2, <2>10, <2>13, <4>2
        <5> QED BY <1>2, <3>1, <4>2, <5>1
      <4>3. CASE k = n + 1
        BY <1>2, <2>7, <2>10, <2>13, <3>1, <4>3
      <4>4. CASE k = n + 2
        BY <2>8, <2>13, <4>4
      <4> QED BY <4>1, <4>2, <4>3, <4>4
    <3> QED BY <2>15, <2>16, <3>1 DEF DefaultInv
  <2>20. ASSUME Ordinary PROVE PendingInv' /\ SuppressInv'
    BY <1>2, <2>5, <2>7, <2>8, <2>16, <2>20 DEF PendingInv, SuppressInv, Entering
  <2>21. Shape(stack', vms', context')
    BY <2>14, <2>15
  <2> QED BY <2>17, <2>18, <2>19, <2>20, <2>21 DEF IInv, Ordinary
<1> QED BY <1>4, <1>5

\* The stack inside an operator's site.
LEMMA SiteIs ==
    ASSUME IInv, Runs
    PROVE  /\ Shape(InSite(stack), vms, SiteOf)
           /\ Len(InSite(stack)) = Here + 1
           /\ InSite(stack)[Here + 1].op = "site"
           /\ \A k \in 1..(Here + 1) :
                  InSite(stack)[k].op = "callee" => ~InSite(stack)[k].default
<1>1. PICK a : a = [op |-> "site", prev |-> context.site]
  OBVIOUS
<1>2. stack \in Seq(Activation) /\ Len(stack) = Here /\ Here \in Nat \ {0}
  BY Tops DEF Here
<1>3. context \in Context
  BY ContextTyped DEF IInv
<1>4. a \in SiteSet /\ a.prev = context.site /\ a.op = "site" /\ a \in Activation
  BY <1>1, <1>3 DEF SiteSet, Context, Activation
<1>5. PICK t : t = Append(stack, a)
  OBVIOUS
<1>6. /\ Len(t) = Here + 1 /\ t[Here + 1] = a /\ \A k \in 1..Here : t[k] = stack[k]
  BY <1>2, <1>4, <1>5, AppendProperties
<1>7. Shape(t, vms, SiteOf)
  BY <1>4, <1>5, PushSite DEF IInv, SiteOf
<1>8. \A k \in 1..(Here + 1) : t[k].op = "callee" => ~t[k].default
  <2>1. \A k \in 1..(Here + 1) : k \in 1..Here \/ k = Here + 1
    BY <1>2
  <2>2. Top.op \notin {"callee", "force", "dispatch"}
    BY DEF Runs, IsChunk
  <2> QED BY <1>4, <1>6, <2>1, <2>2, Quiet
<1> QED BY <1>1, <1>4, <1>5, <1>6, <1>7, <1>8 DEF InSite

\* An operator answers itself, or its method does.
LEMMA OperatorInv == ASSUME IInv, Operator PROVE IInv'
<1>1. Runs /\ context' = SiteOf /\ vms' = vms /\ table' = table /\ forcing' = forcing
  BY DEF Operator
<1>2. ~forcing /\ (Ordinary => pending = None /\ ~suppress)
  BY <1>1, Quiet DEF Runs, IsChunk
<1>3. PICK s : s = InSite(stack)
  OBVIOUS
<1>4. /\ Shape(s, vms, context') /\ Len(s) = Here + 1 /\ s[Here + 1].op = "site"
      /\ \A k \in 1..(Here + 1) : s[k].op = "callee" => ~s[k].default
      /\ Here \in Nat \ {0}
  BY <1>1, <1>3, SiteIs, Tops
<1>5. ASSUME Here < MaxStack, stack' = s, flow' \in {"ok", "err"},
             UNCHANGED <<pending, suppress>>
      PROVE  IInv'
  <2>1. Small'
    <3>1. Here' <= MaxStack
      BY <1>4, <1>5, DispatchAssumption DEF Here
    <3> QED BY <1>1, <1>5, <3>1 DEF IInv, Small
  <2> QED BY <1>1, <1>2, <1>4, <1>5, <2>1, QuietAfter
<1>6. ASSUME DispatchFrom(s, "+", ClassesOf("+", TRUE), 0)
      PROVE  IInv'
  <2>1. ClassesOf("+", TRUE) \in Seq(Positions) /\ "+" \in Generics /\ 0 \in Values
    BY ClassesTyped DEF Generics, Internal, Values
  <2>2. s[Len(s)].op = "site"
    BY <1>4
  <2> QED BY <1>1, <1>2, <1>4, <1>6, <2>1, <2>2, DispatchFromInv
<1> QED BY <1>3, <1>5, <1>6 DEF Operator

\* use_method and next_method come to the method, the default, or nothing.
LEMMA DispatchInv == ASSUME IInv, Dispatch PROVE IInv'
<1>1. /\ Top.op \in {"use", "next"} /\ Top \in ReadSet /\ Here \in Nat \ {0}
      /\ UNCHANGED <<table, forcing, vms, context>>
  BY Tops, Kinds DEF Dispatch, Doing
<1>2. /\ ~forcing /\ (Ordinary => pending = None /\ ~suppress)
      /\ \A k \in 1..Here : stack[k].op = "callee" => ~stack[k].default
  BY <1>1, Quiet
<1>3. ASSUME Fails, UNCHANGED <<pending, suppress>> PROVE IInv'
  <2>1. Small'
    BY <1>1, <1>3 DEF IInv, Small, Fails, Here
  <2>2. Shape(stack', vms', context')
    BY <1>1, <1>3 DEF IInv, Fails
  <2> QED BY <1>1, <1>2, <1>3, <2>1, <2>2, QuietAfter DEF Fails, Here
<1>4. ASSUME Top.plan # None, DispatchFrom(stack, Top.plan.generic, Top.plan.rest, Top.arg)
      PROVE  IInv'
  <2>1. /\ Top.plan.generic \in Generics /\ Top.plan.rest \in Seq(Positions)
        /\ Top.arg \in Values
    BY <1>1, <1>4 DEF ReadSet, Plan
  <2>2. Shape(stack, vms, context')
    BY <1>1 DEF IInv
  <2>3. /\ stack[Len(stack)].op \notin {"force", "dispatch"}
        /\ stack[Len(stack)].plan.rest = Top.plan.rest
    BY <1>1 DEF Top, Here
  <2>4. \A k \in 1..Len(stack) : stack[k].op = "callee" => ~stack[k].default
    BY <1>2 DEF Here
  <2> QED BY <1>1, <1>2, <1>4, <2>1, <2>2, <2>3, <2>4, DispatchFromInv
<1> QED BY <1>3, <1>4 DEF Dispatch

\* The innermost activation gives way to another that runs no code of its own.
LEMMA InsteadShape ==
    ASSUME IInv, Top.op = "callee", NEW a \in BodySet, stack' = Append(Under, a)
    PROVE  /\ Shape(stack', vms, context)
           /\ Here' = Here /\ Top' = a
           /\ \A k \in 1..(Here - 1) : stack'[k] = stack[k]
<1>1. Shape(Under, vms, context) /\ Here # 1 /\ Here \in Nat \ {0}
  BY RestShape, Tops
<1>2. Under \in Seq(Activation) /\ Len(Under) = Here - 1
      /\ \A k \in 1..(Here - 1) : Under[k] = stack[k]
  <2>1. Here - 1 \in 0..Len(stack) /\ stack \in Seq(Activation)
    BY <1>1, Tops DEF Here
  <2> QED BY <2>1, FirstPart DEF Under
<1>3. a \in Activation /\ a.op = "body" /\ ~IsChunk(a)
  BY DEF Activation, BodySet, IsChunk
<1>4. /\ Len(stack') = Len(Under) + 1 /\ stack'[Len(Under) + 1] = a
      /\ \A k \in 1..Len(Under) : stack'[k] = Under[k]
  BY <1>2, <1>3, AppendProperties
<1>5. Shape(stack', vms, context)
  <2>1. Link(Append(Under, a), Len(Under) + 1)
    BY <1>1, <1>2, <1>3, LinkOfNew
  <2> QED BY <1>1, <1>3, <2>1, PushPlain
<1>6. Here' = Here
  BY <1>1, <1>2, <1>4 DEF Here
<1>7. Top' = a
  BY <1>1, <1>2, <1>4, <1>6 DEF Top
<1> QED BY <1>1, <1>2, <1>4, <1>5, <1>6, <1>7

\* A builtin runs, or its generic is dispatched.
LEMMA CallPrimitiveInv == ASSUME IInv, CallPrimitive PROVE IInv'
<1>1. /\ flow = "run" /\ Top.op = "callee" /\ Top \in CalleeSet /\ Top.fun \notin Ids
      /\ Here \in Nat \ {0} /\ UNCHANGED <<table, forcing, vms, context>>
  BY Tops, Kinds DEF CallPrimitive, Doing
<1>2. Here # 1 /\ Here - 1 \in Nat \ {0} /\ CalleeLink(stack, Here)
  BY <1>1, Tops DEF Link, Top
<1>3. ~Entering("force")
  BY <1>1, <1>2 DEF CalleeLink, Entering, Ids, Top
<1>4. ~forcing
  BY <1>1, <1>3 DEF IInv, ForcingInv
<1>5. Ordinary => ~Entering("dispatch") /\ pending = None
  <2>1. Ordinary => ~Entering("dispatch")
    BY <1>1, <1>2 DEF CalleeLink, Entering, Ids, Top
  <2> QED BY <1>1, <2>1 DEF IInv, PendingInv
<1>6. ASSUME Primitively(Top.default), pending' = pending, suppress' \in BOOLEAN,
             Ordinary => ~suppress'
      PROVE  IInv'
  <2>1. PICK catches \in {FALSE, ~Top.default} :
            Instead([op |-> "body", default |-> Top.default, catches |-> catches])
    BY <1>6 DEF Primitively
  <2>2. PICK a : a = [op |-> "body", default |-> Top.default, catches |-> catches]
    OBVIOUS
  <2>3. a \in BodySet /\ a.op = "body"
    BY <1>1, <2>1, <2>2 DEF BodySet, CalleeSet
  <2>4. stack' = Append(Under, a) /\ flow' = "run"
    BY <2>1, <2>2 DEF Instead
  <2>5. /\ Shape(stack', vms', context') /\ Here' = Here /\ Top' = a
        /\ \A k \in 1..(Here - 1) : stack'[k] = stack[k]
    BY <1>1, <2>3, <2>4, InsteadShape
  <2>6. Small'
    BY <1>1, <1>6, <2>4, <2>5 DEF IInv, Small
  <2>7. \A k \in 1..Len(stack') : stack'[k].op = "callee" => ~stack'[k].default
    <3>1. \A k \in 1..Here : k = Here \/ k \in 1..(Here - 1)
      BY <1>1
    <3>2. \A k \in 1..(Here - 1) : ~(stack[k].op = "callee" /\ stack[k].default)
      <4>1. \A k \in 1..(Here - 1) : k \in 1..Here /\ k # Here
        BY <1>1
      <4> QED BY <4>1 DEF IInv, DefaultInv
    <3>3. stack'[Here].op = "body" /\ Len(stack') = Here
      BY <2>3, <2>5 DEF Top, Here
    <3> QED BY <2>5, <3>1, <3>2, <3>3
  <2>8. ~Entering("force")' /\ ~Entering("dispatch")'
    BY <2>3, <2>5 DEF Entering
  <2> QED BY <1>1, <1>4, <1>5, <1>6, <2>5, <2>6, <2>7, <2>8, QuietAfter
<1>7. CASE Top.fun = "(" /\ Primitively(Top.default) /\ UNCHANGED <<pending, suppress>>
  <2>1. Ordinary => ~suppress
    BY <1>1, <1>7 DEF IInv, SuppressInv
  <2> QED BY <1>6, <1>7, <2>1 DEF IInv, Small
<1>8. CASE Primitively(Top.default) /\ suppress' = FALSE /\ UNCHANGED pending
  BY <1>6, <1>8
<1>9. ASSUME Top.fun \in Internal, ~suppress, HasMethod(Top.fun, Top.classed),
             DispatchFrom(stack, Top.fun, ClassesOf(Top.fun, TRUE), Top.arg)
      PROVE  IInv'
  <2>1. /\ ClassesOf(Top.fun, TRUE) \in Seq(Positions) /\ Top.fun \in Generics
        /\ Top.arg \in Values
    BY <1>1, <1>9, ClassesTyped DEF Generics, CalleeSet
  <2>2. Shape(stack, vms, context')
    BY <1>1 DEF IInv
  <2>3. stack[Len(stack)].op = "callee"
    BY <1>1 DEF Top, Here
  <2>4. \A k \in 1..Len(stack) : stack[k].op = "callee" => ~stack[k].default
    BY <1>9 DEF IInv, DefaultInv, Here
  <2> QED BY <1>1, <1>4, <1>5, <1>9, <2>1, <2>2, <2>3, <2>4, DispatchFromInv
<1> QED BY <1>7, <1>8, <1>9 DEF CallPrimitive

-----------------------------------------------------------------------------
(* A closure is entered *)

\* While a call is about to be entered, there are fewer frames than activations.
LEMMA FramesAreFew ==
    ASSUME IInv, Top.op = "callee", NEW A \in SUBSET (1..Here), Here \notin A
    PROVE  IsFiniteSet(A) /\ Cardinality(A) \in Nat /\ Cardinality(A) < MaxStack
<1>1. Here \in Nat \ {0} /\ Here <= MaxStack /\ MaxStack \in Nat
  BY Tops, DispatchAssumption
<1>2. A \subseteq 1..(Here - 1)
  BY <1>1
<1>3. IsFiniteSet(1..(Here - 1)) /\ Cardinality(1..(Here - 1)) = Here - 1
  BY <1>1, FS_Interval
<1>4. IsFiniteSet(A) /\ Cardinality(A) <= Here - 1 /\ Cardinality(A) \in Nat
  BY <1>2, <1>3, FS_Subset, FS_CardinalityType, ZenonT(60)
<1> QED BY <1>1, <1>4

\* The machine a body is to run on is nobody's, and parked for no other closure.
LEMMA VmIsFree ==
    ASSUME IInv, Top.op = "callee", NEW id \in Ids
    PROVE  /\ VmFor(id) \in Machines
           /\ \A x \in Ids : x # id => vms[x] # VmFor(id)
           /\ \A k \in 1..Here : IsChunk(stack[k]) => stack[k].vm # VmFor(id)
<1>1. vms \in [Ids -> {0} \cup Machines] /\ Parked(stack, vms) /\ 0 \notin Machines
  BY DEF IInv, Shape, Machines
<1>2. CASE vms[id] # 0
  <2>1. VmFor(id) = vms[id]
    BY <1>2 DEF VmFor
  <2> QED BY <1>1, <1>2, <2>1 DEF Parked, Here
<1>3. CASE vms[id] = 0
  <2> DEFINE A    == {m \in 1..Here : IsChunk(stack[m])}
             f    == [k \in A |-> stack[k].vm]
             X    == {f[k] : k \in A}
             Y    == {vms[x] : x \in Ids}
             held == {stack[k].vm : k \in A} \cup Y
  <2>1. Here \notin A /\ A \in SUBSET (1..Here)
    BY DEF IsChunk, Top
  <2>2. IsFiniteSet(A) /\ Cardinality(A) \in Nat /\ Cardinality(A) < MaxStack
    <3> HIDE DEF A
    <3> QED BY <2>1, FramesAreFew
  <2>3. IsFiniteSet(Ids)
    BY DispatchAssumption, FS_AddElement DEF Ids
  <2>4. IsFiniteSet(X) /\ Cardinality(X) <= Cardinality(A)
    <3> HIDE DEF A, f
    <3> QED BY <2>2, ImageIsSmaller
  <2>5. IsFiniteSet(Y) /\ Cardinality(Y) <= Cardinality(Ids)
    BY <2>3, ImageIsSmaller
  <2>6. X \cup Y = held
    BY DEF X
  <2>7. /\ Cardinality(X) \in Nat /\ Cardinality(Y) \in Nat /\ Cardinality(Ids) \in Nat
        /\ MaxStack \in Nat
    BY <2>3, <2>4, <2>5, FS_CardinalityType, DispatchAssumption
  <2> HIDE DEF X, Y
  <2>8. \E m \in Machines : m \notin X \cup Y
    <3>1. PICK n : n = MaxStack + Cardinality(Ids)
      OBVIOUS
    <3>2. n \in Nat /\ Cardinality(X) + Cardinality(Y) < n
      BY <2>2, <2>4, <2>5, <2>7, <3>1
    <3>3. \E m \in 1..n : m \notin X \cup Y
      BY <2>4, <2>5, <3>2, FreeNumber
    <3> QED BY <3>1, <3>3 DEF Machines
  <2>9. FreshVm \in Machines /\ FreshVm \notin held
    <3>1. FreshVm = CHOOSE m \in Machines : m \notin held
      BY DEF FreshVm, Y
    <3> HIDE DEF held
    <3> QED BY <2>6, <2>8, <3>1
  <2>10. VmFor(id) = FreshVm
    BY <1>3 DEF VmFor
  <2>11. \A x \in Ids : vms[x] # FreshVm
    BY <2>9 DEF Y
  <2>12. \A k \in 1..Here : IsChunk(stack[k]) => stack[k].vm # FreshVm
    BY <2>9
  <2> QED BY <2>9, <2>10, <2>11, <2>12
<1> QED BY <1>2, <1>3

\* The environment of a call is a number that no frame has.
LEMMA EnvIsFree ==
    ASSUME IInv, Top.op = "callee"
    PROVE  FreshEnv \in 1..MaxStack /\ \A k \in Calls : stack[k].env # FreshEnv
<1> DEFINE f == [k \in Calls |-> stack[k].env]
           X == {f[k] : k \in Calls}
<1>1. Here \notin Calls /\ Calls \in SUBSET (1..Here)
  BY DEF Calls, Top
<1>2. IsFiniteSet(Calls) /\ Cardinality(Calls) \in Nat /\ Cardinality(Calls) < MaxStack
  BY <1>1, FramesAreFew
<1>3. IsFiniteSet(X) /\ Cardinality(X) <= Cardinality(Calls)
  <2> HIDE DEF f
  <2> QED BY <1>2, ImageIsSmaller
<1>4. \A k \in Calls : stack[k].env \in X
  BY DEF X
<1>5. Cardinality(X) \in Nat /\ MaxStack \in Nat /\ IsFiniteSet({}) /\ Cardinality({}) = 0
  BY <1>3, FS_CardinalityType, FS_EmptySet, DispatchAssumption
<1> HIDE DEF X
<1>6. \E e \in 1..MaxStack : e \notin X \cup {}
  <2>1. PICK Z : Z = {}
    OBVIOUS
  <2>2. IsFiniteSet(Z) /\ Cardinality(X) + Cardinality(Z) < MaxStack
    BY <1>2, <1>3, <1>5, <2>1
  <2>3. \E e \in 1..MaxStack : e \notin X \cup Z
    BY <1>3, <1>5, <2>2, FreeNumber
  <2> QED BY <2>1, <2>3
<1>7. \E e \in 1..MaxStack : \A k \in Calls : stack[k].env # e
  BY <1>4, <1>6
<1> QED BY <1>7 DEF FreshEnv

\* A closure is entered with the flags that were set for it, and takes them; a
\* call that fails before leaves them to what is below.
LEMMA CallClosureInv == ASSUME IInv, CallClosure PROVE IInv'
<1>1. /\ flow = "run" /\ Top.op = "callee" /\ Top \in CalleeSet /\ Top.fun \in Ids
      /\ Here \in Nat \ {0} /\ Here # 1 /\ CalleeLink(stack, Here)
      /\ UNCHANGED <<table, suppress>>
  BY Tops, Kinds DEF CallClosure, Doing, Link, Top
<1>2. Top.fun \notin Generics \cup {Primitive}
  BY <1>1, DispatchAssumption DEF Ids
<1>3. ~Top.default /\ (Ordinary => ~suppress)
  <2>1. ~Top.default
    BY <1>1, <1>2 DEF CalleeLink, Top
  <2> QED BY <2>1 DEF IInv, SuppressInv
<1>4. \A k \in 1..Here : stack[k].op = "callee" => ~stack[k].default
  BY <1>3 DEF IInv, DefaultInv, Top
<1>5. ASSUME Fails, forcing' \in {forcing, FALSE}, UNCHANGED <<pending, vms, context>>
      PROVE  IInv'
  <2>1. stack' = stack /\ flow' = "err" /\ Here' = Here /\ Top' = Top
    BY <1>5 DEF Fails, Here, Top
  <2>2. Small'
    BY <1>1, <1>5, <2>1 DEF IInv, Small
  <2>3. Shape(stack', vms', context')
    BY <1>5, <2>1 DEF IInv
  <2>4. ForcingInv'
    <3>1. forcing' => forcing
      BY <1>5
    <3>2. forcing => Entering("force")
      BY <1>1 DEF IInv, ForcingInv
    <3>3. Entering("force") => Entering("force")'
      BY <2>1 DEF Entering
    <3> QED BY <2>1, <3>1, <3>2, <3>3 DEF ForcingInv
  <2>5. DefaultInv'
    BY <1>4, <2>1 DEF DefaultInv
  <2>6. ASSUME Ordinary PROVE PendingInv' /\ SuppressInv'
    <3>1. pending # None => Entering("dispatch")
      BY <1>1, <2>6 DEF IInv, PendingInv
    <3>2. Entering("dispatch") => Entering("dispatch")'
      BY <2>1 DEF Entering
    <3> QED BY <1>1, <1>3, <1>5, <2>1, <2>6, <3>1, <3>2 DEF PendingInv, SuppressInv
  <2> QED BY <2>2, <2>3, <2>4, <2>5, <2>6 DEF IInv, Ordinary
<1>6. ASSUME Enters(Top) PROVE IInv'
  <2>1. PICK a : a = Frame(Top, forcing)
    OBVIOUS
  <2>2. PICK n : n = Here - 1
    OBVIOUS
  <2>3. n \in Nat \ {0} /\ Here = n + 1 /\ Len(stack) = n + 1 /\ stack \in Seq(Activation)
    BY <1>1, <2>2, Tops DEF Here
  <2>4. Shape(Under, vms, context) /\ context \in Context
    BY <1>1, RestShape, ContextTyped
  <2>5. /\ Under \in Seq(Activation) /\ Len(Under) = n
        /\ \A k \in 1..n : Under[k] = stack[k]
    <3>1. n \in 0..Len(stack)
      BY <2>3
    <3> QED BY <2>2, <2>3, <3>1, FirstPart DEF Under
  <2>6. forcing <=> stack[n].op = "force"
    BY <1>1, <2>2 DEF IInv, ForcingInv, Entering
  <2>7. /\ VmFor(Top.fun) \in Machines
        /\ \A x \in Ids : x # Top.fun => vms[x] # VmFor(Top.fun)
        /\ \A k \in 1..Here : IsChunk(stack[k]) => stack[k].vm # VmFor(Top.fun)
    BY <1>1, VmIsFree
  <2>8. /\ a.op = "call" /\ a.id = Top.fun /\ a.vm = VmFor(Top.fun) /\ a.outer = context
        /\ a.promise = forcing /\ a.dispatch = pending
        /\ a.env = IF forcing THEN Top.env ELSE FreshEnv
    BY <2>1 DEF Frame
  <2>9. a \in CallSet
    <3>1. (IF forcing THEN Top.env ELSE FreshEnv) \in 0..MaxStack
      <4>1. FreshEnv \in 1..MaxStack /\ MaxStack \in Nat
        BY <1>1, EnvIsFree, DispatchAssumption
      <4> QED BY <1>1, <4>1 DEF CalleeSet
    <3>2. Top.arg \in Values /\ forcing \in BOOLEAN /\ pending \in Plan \cup {None}
      BY <1>1 DEF CalleeSet, IInv, Small
    <3> QED BY <1>1, <2>1, <2>4, <2>7, <3>1, <3>2 DEF Frame, CallSet
  <2>10. PICK t : t = Append(Under, a)
    OBVIOUS
  <2>11. /\ Len(t) = n + 1 /\ t[n + 1] = a /\ \A k \in 1..n : t[k] = stack[k]
    <3>1. a \in Activation
      BY <2>9 DEF Activation
    <3> QED BY <2>5, <2>10, <3>1, AppendProperties
  <2>12. CallLink(t, n + 1)
    <3>1. n + 1 - 1 = n /\ t[n] = stack[n] /\ n \in 1..n
      BY <2>3, <2>11
    <3>2. a.promise <=> t[n].op = "force"
      BY <2>6, <2>8, <3>1
    <3>3. a.promise => WriterBelow(t, n + 1)
      <4>1. SUFFICES ASSUME forcing PROVE WriterBelow(t, n + 1)
        BY <2>8
      <4>2. WriterBelow(stack, Here)
        BY <1>1, <2>2, <2>6, <4>1 DEF CalleeLink
      <4> QED BY <2>3, <2>8, <2>11, <3>1, <4>1, <4>2 DEF WriterBelow, Top
    <3>4. Ordinary => a.dispatch = IF t[n].op = "dispatch" THEN t[n].plan ELSE None
      BY <1>1, <2>2, <2>8, <3>1 DEF IInv, PendingInv, Entering
    <3>5. a.outer = Within(t, n)
      <4>1. context = Within(Under, n)
        BY <2>4, <2>5 DEF Shape
      <4>2. Under[1].op = "main"
        BY <2>4, MainFirst
      <4>3. Within(t, n) = Within(Under, n)
        BY <2>3, <2>5, <2>11, <4>2, WithinSame
      <4> QED BY <2>8, <4>1, <4>3
    <3>6. \A j \in 1..n : IsChunk(t[j]) => t[j].vm # a.vm
      <4>1. \A j \in 1..n : j \in 1..Here
        BY <2>3
      <4> QED BY <2>7, <2>8, <2>11, <4>1
    <3> QED BY <2>11, <3>1, <3>2, <3>3, <3>4, <3>5, <3>6 DEF CallLink
  <2>13. Link(t, n + 1)
    <3>1. n + 1 # 1
      BY <2>3
    <3> QED BY <2>8, <2>11, <2>12, <3>1 DEF Link
  <2>14. /\ stack' = t /\ flow' = "run" /\ forcing' = FALSE /\ pending' = None
         /\ vms' = [vms EXCEPT ![a.id] = 0] /\ context' = ContextOf(a.vm)
    BY <1>6, <2>1, <2>8, <2>10 DEF Enters, Instead, TakeVm
  <2>15. Shape(stack', vms', context')
    <3>1. \A x \in Ids : x # a.id => vms[x] # a.vm
      BY <2>7, <2>8
    <3>2. Link(Append(Under, a), Len(Under) + 1)
      BY <2>5, <2>10, <2>13
    <3> QED BY <2>4, <2>9, <2>10, <2>14, <3>1, <3>2, PushCall
  <2>16. Here' = n + 1 /\ Top' = a
    BY <2>11, <2>14 DEF Here, Top
  <2>17. Small'
    BY <1>1, <2>3, <2>14, <2>16 DEF IInv, Small
  <2>18. \A k \in 1..Len(stack') : stack'[k].op = "callee" => ~stack'[k].default
    <3>1. \A k \in 1..(n + 1) : k = n + 1 \/ (k \in 1..n /\ k \in 1..Here)
      BY <2>3
    <3> QED BY <1>4, <2>8, <2>11, <2>14, <3>1
  <2>19. ~Entering("force")' /\ ~Entering("dispatch")'
    BY <2>8, <2>16 DEF Entering
  <2> QED BY <1>1, <1>3, <2>14, <2>15, <2>17, <2>18, <2>19, QuietAfter
<1> QED BY <1>5, <1>6 DEF CallClosure

-----------------------------------------------------------------------------
(* Every step *)

\* The program starts at its own first instruction, with every flag down.
LEMMA InitInv == Init => IInv
<1> SUFFICES ASSUME Init PROVE IInv
  OBVIOUS
<1>1. PICK m : m = Main(1)
  OBVIOUS
<1>2. 1 \in Machines
  BY DispatchAssumption, FS_AddElement, FS_CardinalityType DEF Machines, Ids
<1>3. m \in Activation /\ m.op = "main" /\ m.vm = 1 /\ IsChunk(m)
  BY <1>1, <1>2 DEF Main, MainSet, Context, Activation, IsChunk
<1>4. stack = <<m>> /\ stack \in Seq(Activation) /\ Len(stack) = 1 /\ stack[1] = m
  BY <1>1, <1>3 DEF Init
<1>5. Links(stack)
  BY <1>3, <1>4 DEF Links, Link
<1>6. Parked(stack, vms) /\ vms \in [Ids -> {0} \cup Machines]
  BY <1>3, <1>4 DEF Init, Parked
<1>7. Within(stack, 1) = context
  <2>1. Chunk(stack, 1) = 1
    BY <1>3, <1>4, ChunkIsThe
  <2>2. ~ \E j \in 1..1 : stack[j].op = "site"
    BY <1>3, <1>4
  <2> QED BY <1>3, <1>4, <2>1, <2>2 DEF Within, Init
<1>8. Shape(stack, vms, context)
  BY <1>4, <1>5, <1>6, <1>7 DEF Shape
<1>9. Here = 1 /\ Top = m
  BY <1>4 DEF Here, Top
<1>10. Small
  <2>1. Here <= MaxStack
    BY <1>9, DispatchAssumption
  <2> QED BY <2>1 DEF Init, Small
<1>11. ForcingInv /\ DefaultInv /\ PendingInv /\ SuppressInv
  BY <1>3, <1>4, <1>9 DEF Init, ForcingInv, DefaultInv, PendingInv, SuppressInv, Entering
<1> QED BY <1>8, <1>10, <1>11 DEF IInv

\* A step that changes nothing.
LEMMA StutterInv == ASSUME IInv, UNCHANGED vars PROVE IInv'
BY DEF vars, flags, IInv, Small, ForcingInv, DefaultInv, PendingInv, SuppressInv,
       Ordinary, Entering, Here, Top

\* Every step keeps the inductive invariant.
LEMMA NextInv == IInv /\ [Next]_vars => IInv'
<1> SUFFICES ASSUME IInv, [Next]_vars PROVE IInv'
  OBVIOUS
<1>1. CASE CallClosure \/ CallPrimitive
  BY <1>1, CallClosureInv, CallPrimitiveInv
<1>2. CASE Call \/ Assign \/ ForcePromise
  BY <1>2, CallInv, AssignInv, ForcePromiseInv
<1>3. CASE Operator \/ UseMethod \/ NextMethod \/ Dispatch
  BY <1>3, OperatorInv, UseMethodInv, NextMethodInv, DispatchInv
<1>4. CASE Finish
  BY <1>4, FinishInv
<1>5. CASE Leave
  BY <1>5, LeaveCallInv, LeaveBodyInv, LeaveDispatchInv, LeaveForceInv, LeaveSiteInv,
     LeaveReadInv DEF Leave
<1>6. CASE UNCHANGED vars
  BY <1>6, StutterInv
<1> QED BY <1>1, <1>2, <1>3, <1>4, <1>5, <1>6 DEF Next

-----------------------------------------------------------------------------
(* The theorems *)

\* Every reachable state has its type, for every set of closures, table of methods
\* and bound (TypeOK): a machine and an environment are always to be had.
THEOREM TypeCorrect == Spec => []TypeOK
<1>1. IInv => TypeOK
  BY Types
<1> QED BY <1>1, InitInv, NextInv, PTL DEF Spec

\* When the methods are closures and "(" is not dispatched on, each one-shot flag
\* reaches the call it was set for and no other, whatever failed before
\* (FlagsReachTheirCall: pending_dispatch, suppress_s3 and FORCING).
THEOREM FlagsReach == Spec => [](Ordinary => FlagsReachTheirCall)
<1>1. IInv => (Ordinary => FlagsReachTheirCall)
  <2> SUFFICES ASSUME IInv, Ordinary PROVE FlagsReachTheirCall
    OBVIOUS
  <2>1. Runs => pending = None /\ ~suppress /\ ~forcing
    BY Quiet DEF Runs, IsChunk
  <2>2. \A k \in Calls : CallLink(stack, k)
    BY Tops DEF Calls, Link
  <2>3. DispatchIsTheMethods
    BY <2>2 DEF DispatchIsTheMethods, CallLink
  <2>4. \A k \in Calls : stack[k].promise <=> stack[k - 1].op = "force"
    BY <2>2 DEF CallLink
  <2> QED BY <2>1, <2>3, <2>4 DEF FlagsReachTheirCall
<1> QED BY <1>1, InitInv, NextInv, PTL DEF Spec

\* NextMethod() continues the dispatch of the method it is written in, with its
\* formal as it now is, and the chain of methods comes to an end
\* (NextContinuesItsMethod: innermost_call, next_method and dispatch_from).
THEOREM NextContinues == Spec => []NextContinuesItsMethod
<1>1. IInv => NextContinuesItsMethod
  <2> SUFFICES ASSUME IInv PROVE NextContinuesItsMethod
    OBVIOUS
  <2>1. ASSUME NEW n \in 1..Here, stack[n].op = "next"
        PROVE  \E k \in Calls :
                   /\ k < n /\ ~stack[k].promise
                   /\ stack[k].env = stack[n - 1].env
                   /\ stack[n].plan = stack[k].dispatch /\ stack[n].arg = stack[k].x
    <3>1. NextLink(stack, n) /\ n \in Nat
      BY <2>1, Tops DEF Link
    <3>2. \A j \in 1..(n - 1) : j \in 1..Here /\ j < n
      BY <3>1, Tops
    <3> QED BY <3>1, <3>2 DEF NextLink, Calls
  <2>2. ASSUME NEW n \in 1..Here, stack[n].op = "dispatch"
        PROVE  /\ stack[stack[n].from].op \in {"next", "use"} =>
                      Len(stack[n].plan.rest) < Len(stack[stack[n].from].plan.rest)
               /\ stack[stack[n].from].op = "callee" => ~stack[stack[n].from].default
    BY <2>2, Tops DEF Link, DispatchLink
  <2> QED BY <2>1, <2>2 DEF NextContinuesItsMethod
<1> QED BY <1>1, InitInv, NextInv, PTL DEF Spec

\* Each body runs on a machine of its own, one that is parked is nobody's, and a
\* diagnostic names an operator of the machine that is running (MachinesAreOwned:
\* run_closure_chunk, drive and in_op_site).
THEOREM MachinesOwned == Spec => []MachinesAreOwned
<1>1. IInv => MachinesAreOwned
  <2> SUFFICES ASSUME IInv PROVE MachinesAreOwned
    OBVIOUS
  <2> DEFINE chunks == {k \in 1..Here : IsChunk(stack[k])}
             top == HighestOf(chunks)
  <2>1. /\ Here \in Nat \ {0} /\ stack[1].op = "main"
        /\ \A k \in 1..Here : IsChunk(stack[k]) /\ k # 1 => CallLink(stack, k)
    <3>1. Here \in Nat \ {0} /\ 1 \in 1..Here
      BY Tops
    <3>2. stack[1].op = "main"
      BY <3>1, Tops DEF Link
    <3> QED BY <3>1, <3>2, Tops DEF Link, IsChunk
  <2>2. ASSUME NEW j \in chunks, NEW k \in chunks, j < k PROVE stack[j].vm # stack[k].vm
    <3>1. k # 1 /\ j \in 1..(k - 1)
      BY <2>2
    <3> QED BY <2>1, <3>1 DEF CallLink
  <2>3. \A j, k \in chunks : stack[j].vm = stack[k].vm => j = k
    <3> SUFFICES ASSUME NEW j \in chunks, NEW k \in chunks, j # k
                 PROVE  stack[j].vm # stack[k].vm
      OBVIOUS
    <3>1. j < k \/ k < j
      OBVIOUS
    <3> QED BY <2>2, <3>1
  <2>4. /\ \A k \in chunks, id \in Ids : vms[id] # stack[k].vm
        /\ \A a, b \in Ids : vms[a] = vms[b] /\ vms[a] # 0 => a = b
    BY DEF IInv, Shape, Parked, Here
  <2>5. context = Within(stack, Here) /\ top = Chunk(stack, Here)
    BY DEF IInv, Shape, Here, Chunk
  <2>6. /\ context.vm = stack[top].vm
        /\ context.site = 1 <=> \E k \in top..Here : stack[k].op = "site"
    <3>1. context = [vm   |-> stack[top].vm,
                     site |-> IF \E k \in top..Here : stack[k].op = "site" THEN 1 ELSE 0]
      BY <2>5 DEF Within
    <3> HIDE DEF top
    <3> QED BY <3>1
  <2> QED BY <2>3, <2>4, <2>6 DEF MachinesAreOwned
<1> QED BY <1>1, InitInv, NextInv, PTL DEF Spec
=============================================================================
