---------------------------- MODULE RHeapProofs ----------------------------
(***************************************************************************)
(* Proofs about RHeap and RHeapValues, for every number of names,          *)
(* environments, objects and frames and for every program.                 *)
(*                                                                         *)
(* First the counts: the model is well typed, a reference count never      *)
(* falls below the number of places that hold the object, and therefore an *)
(* object is written in place only when nothing shares it.                 *)
(*                                                                         *)
(* Then the values, in programs whose complex assignments keep their       *)
(* targets: no list contains itself, the running frame's operands keep     *)
(* their values, and, where targets are local, the heap implements         *)
(* RValues.  The invariant of the values says that operands, elements and  *)
(* remembered values are objects on the heap, that a pending assignment's  *)
(* operands are where it left them, that the object of an inner assignment *)
(* is pinned, and that objects can be ranked, a list above its elements.   *)
(***************************************************************************)
EXTENDS RHeapValues, Lemmas

(* Finiteness of the set of durable places *)

\* There are finitely many durable places (bindings, elements, memos, arguments).
LEMMA SlotFinite == IsFiniteSet(Slot)
<1>1. IsFiniteSet(Handle) /\ IsFiniteSet(Depth)
  BY FS_Interval, HeapAssumption DEF Handle, Depth
<1>2. IsFiniteSet(BindSlot)
  <2> DEFINE T == Envs \X Names
             f == [s \in BindSlot |-> <<s[2], s[3]>>]
  <2>1. IsFiniteSet(T)
    BY FS_Product, HeapAssumption
  <2>2. f \in Injection(BindSlot, T)
    BY DEF Injection, BindSlot, IsInjective
  <2> QED BY <2>1, <2>2, FS_Injection
<1>3. IsFiniteSet(ElemSlot)
  <2> DEFINE T == Handle \X Positions
             f == [s \in ElemSlot |-> <<s[2], s[3]>>]
  <2>1. IsFiniteSet(T)
    BY <1>1, FS_Product, HeapAssumption
  <2>2. f \in Injection(ElemSlot, T)
    BY DEF Injection, ElemSlot, IsInjective
  <2> QED BY <2>1, <2>2, FS_Injection
<1>4. IsFiniteSet(MemoSlot) /\ IsFiniteSet(ArgSlot)
  BY <1>1, FS_Product, FS_Singleton DEF MemoSlot, ArgSlot
<1>5. IsFiniteSet(BindSlot \cup ElemSlot)
  BY <1>2, <1>3, FS_Union
<1>6. IsFiniteSet(MemoSlot \cup ArgSlot)
  BY <1>4, FS_Union
<1>7. IsFiniteSet((BindSlot \cup ElemSlot) \cup (MemoSlot \cup ArgSlot))
  BY <1>5, <1>6, FS_Union
<1> QED BY <1>7 DEF Slot

-----------------------------------------------------------------------------
(* What one store does to the counts.  Held(f, h) are the places that hold  *)
(* h when the places hold what f says.                                      *)

Held(f, h) == {s \in Slot : f[s] = h}
Counted(f, r) ==
    \A h \in Handle : r[h] = RefMax \/ r[h] >= Cardinality(Held(f, h))

Refs   == [Slot -> Handle \cup {Nil}]
Counts == [Handle -> 0..RefMax]

\* So there are finitely many that hold one object, and they can be counted.
LEMMA HeldFinite ==
    ASSUME NEW f, NEW h
    PROVE  IsFiniteSet(Held(f, h)) /\ Cardinality(Held(f, h)) \in Nat
BY SlotFinite, FS_Subset, FS_CardinalityType DEF Held

\* A place that takes a value and retains it is accounted for, whatever it
\* held before.
LEMMA TakeCounted ==
    ASSUME NEW f \in Refs, NEW r \in Counts, Counted(f, r),
           NEW s \in Slot, NEW v \in Handle \cup {Nil}
    PROVE  /\ [f EXCEPT ![s] = v] \in Refs
           /\ Retain(r, v) \in Counts
           /\ Counted([f EXCEPT ![s] = v], Retain(r, v))
<1> DEFINE g == [f EXCEPT ![s] = v]
<1>1. g \in Refs
  BY DEF Refs
<1>2. Retain(r, v) \in Counts
  BY HeapAssumption DEF Counts, Retain
<1>3. ASSUME NEW h \in Handle
      PROVE  Retain(r, v)[h] = RefMax \/ Retain(r, v)[h] >= Cardinality(Held(g, h))
  <2>1. r[h] = RefMax \/ r[h] >= Cardinality(Held(f, h))
    BY DEF Counted
  <2>2. IsFiniteSet(Held(f, h)) /\ Cardinality(Held(f, h)) \in Nat
    BY HeldFinite
  <2>3. IsFiniteSet(Held(g, h)) /\ Cardinality(Held(g, h)) \in Nat
    BY HeldFinite
  <2>4. CASE h = v
    <3>1. Held(g, h) \subseteq Held(f, h) \cup {s}
      BY DEF Held, Refs
    <3>2. /\ IsFiniteSet(Held(f, h) \cup {s})
          /\ Cardinality(Held(f, h) \cup {s}) <= Cardinality(Held(f, h)) + 1
      <4> DEFINE H == Held(f, h)
      <4>1. IsFiniteSet(H \cup {s})
            /\ Cardinality(H \cup {s})
                 = IF s \in H THEN Cardinality(H) ELSE Cardinality(H) + 1
        <5> HIDE DEF H
        <5> QED BY <2>2, FS_AddElement DEF H
      <4> HIDE DEF H
      <4>2. Cardinality(H) \in Nat
        BY <2>2 DEF H
      <4>3. Cardinality(H \cup {s}) <= Cardinality(H) + 1
        BY <4>1, <4>2
      <4> QED BY <4>1, <4>3 DEF H
    <3>3. Cardinality(Held(g, h)) <= Cardinality(Held(f, h) \cup {s})
      BY <3>1, <3>2, FS_Subset
    <3>4. Cardinality(Held(f, h) \cup {s}) \in Nat
      BY <3>2, FS_CardinalityType
    <3>5. Cardinality(Held(g, h)) <= Cardinality(Held(f, h)) + 1
      BY <2>2, <2>3, <3>2, <3>3, <3>4
    <3>6. Retain(r, v)[h] = IF r[h] = RefMax THEN RefMax ELSE r[h] + 1
      BY <2>4, HeapAssumption DEF Retain, Counts
    <3>7. r[h] \in Nat
      BY HeapAssumption DEF Counts
    <3> QED BY <2>1, <2>2, <2>3, <3>5, <3>6, <3>7
  <2>5. CASE h # v
    <3>1. Held(g, h) \subseteq Held(f, h)
      BY <2>5 DEF Held, Refs
    <3>2. Cardinality(Held(g, h)) <= Cardinality(Held(f, h))
      BY <3>1, <2>2, FS_Subset
    <3>3. Retain(r, v)[h] = r[h]
      BY <2>5 DEF Retain, Counts
    <3>4. r[h] \in Nat
      BY HeapAssumption DEF Counts
    <3> QED BY <2>1, <2>2, <2>3, <3>2, <3>3, <3>4
  <2> QED BY <2>4, <2>5
<1> QED BY <1>1, <1>2, <1>3 DEF Counted

\* A place that is emptied gives its reference back.
LEMMA DropCounted ==
    ASSUME NEW f \in Refs, NEW r \in Counts, Counted(f, r), NEW s \in Slot
    PROVE  /\ [f EXCEPT ![s] = Nil] \in Refs
           /\ Release(r, f[s]) \in Counts
           /\ Counted([f EXCEPT ![s] = Nil], Release(r, f[s]))
<1> DEFINE g == [f EXCEPT ![s] = Nil]
           q == Release(r, f[s])
<1>1. g \in Refs
  BY DEF Refs
<1>2. q \in Counts
  <2>1. CASE f[s] = Nil
    BY <2>1 DEF Release
  <2>2. CASE f[s] # Nil
    <3>1. f[s] \in Handle
      BY <2>2 DEF Refs
    <3>2. r[f[s]] \in 0..RefMax
      BY <3>1 DEF Counts
    <3>3. (IF r[f[s]] \in {0, RefMax} THEN r[f[s]] ELSE r[f[s]] - 1) \in 0..RefMax
      BY <3>2, HeapAssumption
    <3>4. q = [r EXCEPT ![f[s]] = IF r[f[s]] \in {0, RefMax} THEN r[f[s]]
                                  ELSE r[f[s]] - 1]
      BY <2>2 DEF Release
    <3> HIDE DEF q
    <3> QED BY <3>1, <3>3, <3>4 DEF Counts
  <2> QED BY <2>1, <2>2
<1>3. ASSUME NEW h \in Handle
      PROVE  q[h] = RefMax \/ q[h] >= Cardinality(Held(g, h))
  <2>1. r[h] = RefMax \/ r[h] >= Cardinality(Held(f, h))
    BY DEF Counted
  <2>2. IsFiniteSet(Held(f, h)) /\ Cardinality(Held(f, h)) \in Nat
    BY HeldFinite
  <2>3. IsFiniteSet(Held(g, h)) /\ Cardinality(Held(g, h)) \in Nat
    BY HeldFinite
  <2>4. h # Nil /\ r[h] \in Nat /\ RefMax \in Nat \ {0}
    BY HeapAssumption DEF Counts
  <2>5. CASE h = f[s]
    <3>1. Held(g, h) = Held(f, h) \ {s} /\ s \in Held(f, h)
      BY <2>4, <2>5 DEF Held, Refs
    <3>2. Cardinality(Held(g, h)) = Cardinality(Held(f, h)) - 1
      <4> HIDE DEF g
      <4>1. Cardinality(Held(f, h) \ {s}) = Cardinality(Held(f, h)) - 1
        BY <2>2, <3>1, FS_RemoveElement
      <4> QED BY <3>1, <4>1
    <3>3. q[h] = IF r[h] \in {0, RefMax} THEN r[h] ELSE r[h] - 1
      BY <2>4, <2>5 DEF Release, Counts
    <3> QED BY <2>1, <2>2, <2>3, <2>4, <3>2, <3>3
  <2>6. CASE h # f[s]
    <3>1. Held(g, h) \subseteq Held(f, h)
      BY <2>4, <2>6 DEF Held, Refs
    <3>2. Cardinality(Held(g, h)) <= Cardinality(Held(f, h))
      BY <3>1, <2>2, FS_Subset
    <3>3. q[h] = r[h]
      BY <2>6 DEF Release, Counts
    <3> QED BY <2>1, <2>2, <2>3, <2>4, <3>2, <3>3
  <2> QED BY <2>5, <2>6
<1> QED BY <1>1, <1>2, <1>3 DEF Counted

\* bind_in: the place gives one reference back and takes another.
LEMMA RebindCounted ==
    ASSUME NEW f \in Refs, NEW r \in Counts, Counted(f, r),
           NEW s \in Slot, NEW v \in Handle \cup {Nil}
    PROVE  /\ [f EXCEPT ![s] = v] \in Refs
           /\ Rebind(r, f[s], v) \in Counts
           /\ Counted([f EXCEPT ![s] = v], Rebind(r, f[s], v))
<1> DEFINE g == [f EXCEPT ![s] = Nil]
           q == Release(r, f[s])
<1>1. CASE f[s] = v
  <2>1. [f EXCEPT ![s] = v] = f
    BY <1>1 DEF Refs
  <2> QED BY <1>1, <2>1 DEF Rebind
<1>2. CASE f[s] # v
  <2>1. g \in Refs /\ q \in Counts /\ Counted(g, q)
    BY DropCounted
  <2>2. /\ [g EXCEPT ![s] = v] \in Refs
        /\ Retain(q, v) \in Counts
        /\ Counted([g EXCEPT ![s] = v], Retain(q, v))
    <3> HIDE DEF g, q
    <3> QED BY <2>1, TakeCounted
  <2>3. [g EXCEPT ![s] = v] = [f EXCEPT ![s] = v]
    BY DEF Refs
  <2>4. Rebind(r, f[s], v) = Retain(q, v)
    BY <1>2 DEF Rebind
  <2> QED BY <2>2, <2>3, <2>4
<1> QED BY <1>1, <1>2

\* A binding that goes away without a release leaves the count too high.
LEMMA ForgetCounted ==
    ASSUME NEW f \in Refs, NEW r \in Counts, Counted(f, r), NEW s \in Slot
    PROVE  /\ [f EXCEPT ![s] = Nil] \in Refs
           /\ Counted([f EXCEPT ![s] = Nil], r)
<1> DEFINE g == [f EXCEPT ![s] = Nil]
<1>1. ASSUME NEW h \in Handle
      PROVE  r[h] = RefMax \/ r[h] >= Cardinality(Held(g, h))
  <2>1. Held(g, h) \subseteq Held(f, h)
    BY HeapAssumption DEF Held, Refs
  <2>2. Cardinality(Held(g, h)) <= Cardinality(Held(f, h))
    BY <2>1, HeldFinite, FS_Subset
  <2>3. Cardinality(Held(g, h)) \in Nat /\ Cardinality(Held(f, h)) \in Nat
    BY HeldFinite
  <2>4. r[h] \in Nat
    BY HeapAssumption DEF Counts
  <2> QED BY <2>2, <2>3, <2>4 DEF Counted
<1> QED BY <1>1 DEF Counted, Refs

\* Every place of S takes a value of its own and retains it.
LEMMA FillCounted ==
    ASSUME NEW f \in Refs, NEW g \in Refs, NEW r \in Counts, Counted(f, r),
           NEW S \in SUBSET Slot, \A s \in Slot \ S : g[s] = f[s]
    PROVE  /\ RetainEach(r, S, g) \in Counts
           /\ Counted(g, RetainEach(r, S, g))
<1> DEFINE q == RetainEach(r, S, g)
           In(h) == {s \in S : g[s] = h}
<1>1. ASSUME NEW h \in Handle
      PROVE  /\ Times(S, g, h) = Cardinality(In(h))
             /\ IsFiniteSet(In(h))
             /\ Cardinality(In(h)) \in Nat
             /\ q[h] = IF r[h] + Cardinality(In(h)) >= RefMax THEN RefMax
                       ELSE r[h] + Cardinality(In(h))
  <2>1. In(h) \subseteq Slot
    OBVIOUS
  <2>2. IsFiniteSet(In(h)) /\ Cardinality(In(h)) \in Nat
    BY <2>1, SlotFinite, FS_Subset, FS_CardinalityType
  <2> QED BY <2>2 DEF RetainEach, Times
<1>2. q \in Counts
  <2>1. ASSUME NEW h \in Handle PROVE q[h] \in 0..RefMax
    <3> HIDE DEF q, In
    <3>1. r[h] \in 0..RefMax
      BY DEF Counts
    <3> QED BY <1>1, <3>1, HeapAssumption
  <2>2. q = [h \in Handle |-> q[h]]
    BY DEF RetainEach
  <2> QED BY <2>1, <2>2 DEF Counts
<1>3. ASSUME NEW h \in Handle
      PROVE  q[h] = RefMax \/ q[h] >= Cardinality(Held(g, h))
  <2>1. r[h] = RefMax \/ r[h] >= Cardinality(Held(f, h))
    BY DEF Counted
  <2>2. IsFiniteSet(Held(f, h)) /\ Cardinality(Held(f, h)) \in Nat
    BY HeldFinite
  <2>3. IsFiniteSet(Held(g, h)) /\ Cardinality(Held(g, h)) \in Nat
    BY HeldFinite
  <2>4. Held(g, h) \subseteq Held(f, h) \cup In(h)
    BY DEF Held
  <2> HIDE DEF q, In
  <2>5. /\ IsFiniteSet(Held(f, h) \cup In(h))
        /\ Cardinality(Held(f, h) \cup In(h)) =
             Cardinality(Held(f, h)) + Cardinality(In(h))
               - Cardinality(Held(f, h) \cap In(h))
    BY <1>1, <2>2, FS_Union
  <2>6. Cardinality(Held(f, h) \cap In(h)) \in Nat
    BY <2>2, FS_Intersection, FS_CardinalityType
  <2>7. Cardinality(Held(g, h)) <= Cardinality(Held(f, h) \cup In(h))
    BY <2>4, <2>5, FS_Subset
  <2>8. Cardinality(Held(g, h)) <= Cardinality(Held(f, h)) + Cardinality(In(h))
    BY <1>1, <2>2, <2>3, <2>5, <2>6, <2>7
  <2>9. r[h] \in Nat /\ RefMax \in Nat /\ r[h] <= RefMax
    BY HeapAssumption DEF Counts
  <2> QED BY <1>1, <2>1, <2>2, <2>3, <2>8, <2>9
<1> QED BY <1>2, <1>3 DEF Counted

\* Every place of S is emptied and gives its reference back.
LEMMA ClearCounted ==
    ASSUME NEW f \in Refs, NEW r \in Counts, Counted(f, r), NEW S \in SUBSET Slot
    PROVE  LET g == [s \in Slot |-> IF s \in S THEN Nil ELSE f[s]]
           IN  /\ g \in Refs
               /\ ReleaseEach(r, S, f) \in Counts
               /\ Counted(g, ReleaseEach(r, S, f))
<1> DEFINE g == [s \in Slot |-> IF s \in S THEN Nil ELSE f[s]]
           q == ReleaseEach(r, S, f)
           Out(h) == {s \in S : f[s] = h}
<1>1. ASSUME NEW h \in Handle
      PROVE  /\ IsFiniteSet(Out(h))
             /\ Cardinality(Out(h)) \in Nat
             /\ q[h] = IF r[h] = RefMax THEN RefMax
                       ELSE IF r[h] > Cardinality(Out(h))
                       THEN r[h] - Cardinality(Out(h)) ELSE 0
  <2>1. Out(h) \subseteq Slot
    OBVIOUS
  <2>2. IsFiniteSet(Out(h)) /\ Cardinality(Out(h)) \in Nat
    BY <2>1, SlotFinite, FS_Subset, FS_CardinalityType
  <2> QED BY <2>2 DEF ReleaseEach, Times
<1>2. g \in Refs
  BY DEF Refs
<1>3. q \in Counts
  <2>1. ASSUME NEW h \in Handle PROVE q[h] \in 0..RefMax
    <3> HIDE DEF q, Out
    <3>1. r[h] \in 0..RefMax
      BY DEF Counts
    <3> QED BY <1>1, <3>1, HeapAssumption
  <2>2. q = [h \in Handle |-> q[h]]
    BY DEF ReleaseEach
  <2> QED BY <2>1, <2>2 DEF Counts
<1>4. ASSUME NEW h \in Handle
      PROVE  q[h] = RefMax \/ q[h] >= Cardinality(Held(g, h))
  <2>1. r[h] = RefMax \/ r[h] >= Cardinality(Held(f, h))
    BY DEF Counted
  <2>2. IsFiniteSet(Held(f, h)) /\ Cardinality(Held(f, h)) \in Nat
    BY HeldFinite
  <2>3. Held(g, h) = Held(f, h) \ Out(h) /\ Out(h) \subseteq Held(f, h)
    BY HeapAssumption DEF Held
  <2>4. Cardinality(Held(g, h)) \in Nat
    BY HeldFinite
  <2> HIDE DEF q, Out, g
  <2>5. Cardinality(Held(f, h) \ Out(h)) =
          Cardinality(Held(f, h)) - Cardinality(Held(f, h) \cap Out(h))
    BY <2>2, FS_Difference
  <2>6. Held(f, h) \cap Out(h) = Out(h)
    BY <2>3
  <2>7. Cardinality(Held(g, h)) = Cardinality(Held(f, h)) - Cardinality(Out(h))
    BY <2>3, <2>5, <2>6
  <2>8. r[h] \in Nat /\ RefMax \in Nat
    BY HeapAssumption DEF Counts
  <2> QED BY <1>1, <2>1, <2>2, <2>4, <2>7, <2>8
<1> QED BY <1>2, <1>3, <1>4 DEF Counted

-----------------------------------------------------------------------------
(* Types of the pieces the actions are made of *)

\* Every binding, element, memo and argument is a durable place.
LEMMA SlotMembers ==
    /\ \A e \in Envs, n \in Names : Binding(e, n) \in Slot
    /\ \A h \in Handle, p \in Positions : <<"elem", h, p>> \in Slot
    /\ \A h \in Handle : <<"memo", h>> \in Slot
    /\ \A d \in Depth : <<"arg", d>> \in Slot
BY DEF Slot, BindSlot, ElemSlot, MemoSlot, ArgSlot, Binding

\* The running frame is a frame, and its stack one of handles.
LEMMA TopTyped ==
    ASSUME TypeOK
    PROVE  /\ Top \in Frame /\ Top.env \in Envs
           /\ Stack \in Seq(Handle) /\ Len(Stack) \in Nat
           /\ Top.pend \in Seq(Pending) /\ Len(Top.pend) \in Nat
<1>1. Top \in Frame
  BY DEF TypeOK, Top
<1> QED BY <1>1 DEF Frame, Stack

\* The innermost pending assignment, and its place in the list.
LEMMA TargetTyped ==
    ASSUME TypeOK, Assigning
    PROVE  /\ Target \in Pending /\ Len(Top.pend) \in 1..Len(Top.pend)
           /\ Target.base \in Nat \ {0, 1} /\ Target.name \in Names
           /\ Target.pos \in Positions /\ Target.super \in BOOLEAN
<1>1. Top.pend \in Seq(Pending) /\ Top.pend # <<>>
  BY TopTyped DEF Assigning
<1>2. Len(Top.pend) \in 1..Len(Top.pend)
  BY <1>1
<1>3. Target \in Pending
  BY <1>1, <1>2 DEF Target
<1> QED BY <1>2, <1>3 DEF Pending

\* The operand on top is a handle, and below it a stack is left.
LEMMA OperandTyped ==
    ASSUME TypeOK, HasOperand
    PROVE  /\ Operand \in Handle
           /\ Len(Stack) \in 1..Len(Stack)
           /\ SubSeq(Stack, 1, Len(Stack) - 1) \in Seq(Handle)
<1>1. Floor \in Nat
  BY TargetTyped DEF Floor
<1>2. Stack \in Seq(Handle) /\ Len(Stack) \in Nat /\ Len(Stack) > Floor
  BY TopTyped DEF HasOperand
<1>3. Len(Stack) \in 1..Len(Stack)
  BY <1>1, <1>2
<1>4. SubSeq(Stack, 1, Len(Stack) - 1) \in Seq(Handle)
  BY <1>2, <1>3
<1> QED BY <1>2, <1>3, <1>4 DEF Operand

\* An assignment ready to write finds its object and its value on the stack.
LEMMA WriteTyped ==
    ASSUME TypeOK, ReadyToWrite
    PROVE  /\ Obj \in Handle /\ Val \in Handle
           /\ Below \in Seq(Handle)
           /\ Len(Stack) \in Nat /\ Len(Stack) > 1
<1>1. Stack \in Seq(Handle) /\ Len(Stack) = Target.base
  BY TopTyped DEF ReadyToWrite
<1>2. Target.base \in Nat \ {0, 1}
  BY TargetTyped DEF ReadyToWrite
<1>3. Target.base \in 1..Len(Stack) /\ Target.base - 1 \in 1..Len(Stack)
  BY <1>1, <1>2
<1>4. Below \in Seq(Handle)
  <2>1. \A i \in 1..(Target.base - 2) : Stack[i] \in Handle
    BY <1>1, <1>2
  <2> QED BY <1>1, <1>2, <2>1 DEF Below
<1> QED BY <1>1, <1>2, <1>3, <1>4 DEF Obj, Val

\* What a variable read yields is a handle found in an environment.
LEMMA ReadsTyped ==
    ASSUME TypeOK, NEW n \in Names, NEW r, NEW h, Reads(n, r, h)
    PROVE  r \in Envs /\ h \in Handle
<1>1. r \in Envs
  <2>1. PICK i \in DOMAIN chain[Top.env] : r = chain[Top.env][i]
    BY DEF Reads, Resolves
  <2>2. chain[Top.env] \in Seq(Envs)
    BY TopTyped DEF TypeOK
  <2> QED BY <2>1, <2>2
<1>2. ref[Binding(r, n)] \in Handle \cup {Nil}
  BY <1>1, SlotMembers DEF TypeOK
<1>3. Forced(ref[Binding(r, n)]) \in Handle \cup {Nil}
  BY <1>2, SlotMembers DEF Forced, TypeOK
<1> QED BY <1>1, <1>3 DEF Reads

FramesOK == frames \in [Depth -> Frame] /\ WrittenLast

\* No assignment of a frame is written while instructions may run in it.
LEMMA NoneWritten ==
    ASSUME TypeOK, Free
    PROVE  \A i \in DOMAIN Top.pend : ~Top.pend[i].written
<1>1. \A i \in DOMAIN Top.pend : Top.pend[i].written => i = Len(Top.pend)
  BY DEF TypeOK, WrittenLast, Top
<1> QED BY <1>1, TopTyped DEF Free, Assigning, Target

\* The running frame gets another stack and other pending assignments.
LEMMA FrameUpdate ==
    ASSUME TypeOK, NEW st \in Seq(Handle), NEW pd \in Seq(Pending),
           \A i \in DOMAIN pd : pd[i].written => i = Len(pd) /\ st # <<>>,
           SetTop([Top EXCEPT !.stack = st, !.pend = pd])
    PROVE  FramesOK'
<1> DEFINE f == [Top EXCEPT !.stack = st, !.pend = pd]
<1>1. f \in Frame /\ f.stack = st /\ f.pend = pd
  BY TopTyped DEF Frame
<1> HIDE DEF f
<1>2. frames' = [frames EXCEPT ![depth] = f] /\ depth \in Depth
  BY DEF SetTop, TypeOK, f
<1>3. frames' \in [Depth -> Frame]
  BY <1>1, <1>2 DEF TypeOK
<1>4. WrittenLast'
  <2>1. ASSUME NEW d \in Depth
        PROVE  \A i \in DOMAIN frames'[d].pend :
                 frames'[d].pend[i].written =>
                   i = Len(frames'[d].pend) /\ frames'[d].stack # <<>>
    <3>1. CASE d = depth
      <4>1. frames'[d] = f
        BY <1>2, <3>1 DEF TypeOK
      <4> QED BY <4>1, <1>1
    <3>2. CASE d # depth
      <4>1. frames'[d] = frames[d]
        BY <1>2, <3>2 DEF TypeOK
      <4> QED BY <4>1 DEF TypeOK, WrittenLast
    <3> QED BY <3>1, <3>2
  <2> QED BY <2>1 DEF WrittenLast
<1> QED BY <1>3, <1>4 DEF FramesOK

\* An instruction replaces the stack of the running frame.
LEMMA StackSet ==
    ASSUME TypeOK, Free, NEW st \in Seq(Handle), SetStack(st)
    PROVE  FramesOK'
<1>1. Top.pend \in Seq(Pending) /\ Top \in Frame
  BY TopTyped
<1>2. SetTop([Top EXCEPT !.stack = st, !.pend = Top.pend])
  <2>1. [Top EXCEPT !.stack = st, !.pend = Top.pend] = [Top EXCEPT !.stack = st]
    BY <1>1 DEF Frame
  <2> QED BY <2>1 DEF SetStack
<1> QED BY <1>1, <1>2, NoneWritten, FrameUpdate

\* A complex assignment begins: two operands more and one assignment pending.
LEMMA BeginTyped ==
    ASSUME TypeOK, HasOperand,
           NEW n \in Names, NEW super \in BOOLEAN, NEW p \in Positions,
           NEW inner \in BOOLEAN, NEW obj \in Handle,
           Begin(n, super, p, inner, obj)
    PROVE  FramesOK'
<1> DEFINE t == [name |-> n, super |-> super, pos |-> p, inner |-> inner,
                 written |-> FALSE, base |-> Len(Stack) + 2]
           st == Stack \o <<Operand, obj>>
           pd == Append(Top.pend, t)
<1>1. t \in Pending /\ ~t.written
  BY OperandTyped, TopTyped DEF Pending
<1>2. <<Operand, obj>> \in Seq(Handle)
  BY OperandTyped
<1>3. st \in Seq(Handle) /\ pd \in Seq(Pending)
  BY <1>1, <1>2, TopTyped
<1>4. \A i \in DOMAIN pd : ~pd[i].written
  <2> HIDE DEF t
  <2>1. \A i \in DOMAIN Top.pend : ~Top.pend[i].written
    BY NoneWritten DEF HasOperand
  <2> QED BY <1>1, <2>1, TopTyped
<1>5. SetTop([Top EXCEPT !.stack = st, !.pend = pd])
  BY DEF Begin, Stack
<1> HIDE DEF st, pd
<1> QED BY <1>3, <1>4, <1>5, FrameUpdate

\* A complex assignment has written: its operands give way to the result.
LEMMA WrittenTyped ==
    ASSUME TypeOK, ReadyToWrite, NEW res \in Handle, Written(res)
    PROVE  FramesOK'
<1> DEFINE k == Len(Top.pend)
           t == [Target EXCEPT !.written = TRUE]
           st == Append(Below, res)
           pd == [Top.pend EXCEPT ![k] = t]
<1>1. t \in Pending /\ k \in 1..Len(Top.pend)
  BY TargetTyped DEF Pending, ReadyToWrite
<1>2. st \in Seq(Handle) /\ pd \in Seq(Pending) /\ st # <<>>
  <2>1. Below \in Seq(Handle)
    BY WriteTyped
  <2>2. st \in Seq(Handle) /\ Len(st) = Len(Below) + 1 /\ Len(Below) \in Nat
    BY <2>1
  <2>3. pd \in Seq(Pending)
    BY <1>1, TopTyped
  <2> QED BY <2>2, <2>3
<1>3. \A i \in DOMAIN pd : pd[i].written => i = Len(pd) /\ st # <<>>
  <2> HIDE DEF t, st
  <2>1. \A i \in DOMAIN Top.pend : ~Top.pend[i].written
    BY NoneWritten DEF ReadyToWrite, Free
  <2> QED BY <1>1, <1>2, <2>1, TopTyped
<1>4. SetTop([Top EXCEPT !.stack = st, !.pend = pd])
  BY DEF Written
<1> HIDE DEF st, pd
<1> QED BY <1>2, <1>3, <1>4, FrameUpdate

\* A frame is entered with an empty stack.
LEMMA EnterTyped ==
    ASSUME TypeOK, NEW e \in Envs, NEW prom \in Handle \cup {Nil}, Enter(e, prom)
    PROVE  depth' \in Depth /\ FramesOK'
<1> DEFINE f == [env |-> e, prom |-> prom, stack |-> <<>>, pend |-> <<>>]
<1>1. depth \in Nat /\ depth + 1 \in Depth
  BY HeapAssumption DEF Enter, TypeOK, Depth
<1>2. f \in Frame /\ DOMAIN f.pend = {}
  BY DEF Frame
<1>3. frames' = [frames EXCEPT ![depth + 1] = f]
  BY DEF Enter
<1> HIDE DEF f
<1>4. frames' \in [Depth -> Frame] /\ depth' \in Depth
  BY <1>1, <1>2, <1>3 DEF Enter, TypeOK
<1>5. WrittenLast'
  BY <1>1, <1>2, <1>3 DEF TypeOK, WrittenLast
<1> QED BY <1>4, <1>5 DEF FramesOK

\* A frame is left, and its result goes to the frame below.
LEMMA LeaveTyped ==
    ASSUME TypeOK, depth > 1, NEW push \in BOOLEAN, NEW res,
           push => res \in Handle, Leave(push, res)
    PROVE  depth' \in Depth /\ FramesOK'
<1> DEFINE g == frames[depth - 1]
           st == IF push THEN Append(g.stack, res) ELSE g.stack
           f == [g EXCEPT !.stack = st]
<1>1. depth \in Depth /\ depth - 1 \in Depth /\ depth # depth - 1
  BY HeapAssumption DEF TypeOK, Depth
<1>2. g \in Frame
  BY <1>1 DEF TypeOK
<1>3. st \in Seq(Handle) /\ (st = <<>> => g.stack = <<>>)
  BY <1>2 DEF Frame
<1>4. f \in Frame /\ f.pend = g.pend /\ f.stack = st
  BY <1>2, <1>3 DEF Frame
<1>5. EmptyFrame \in Frame /\ DOMAIN EmptyFrame.pend = {}
  BY HeapAssumption DEF EmptyFrame, Frame
<1>6. frames' = [frames EXCEPT ![depth] = EmptyFrame, ![depth - 1] = f]
  BY <1>1, <1>2 DEF Leave, TypeOK, Frame
<1> HIDE DEF f, st
<1>7. depth' \in Depth /\ frames' \in [Depth -> Frame]
  BY <1>1, <1>4, <1>5, <1>6, SMTT(30) DEF Leave, TypeOK
<1>8. WrittenLast'
  BY <1>1, <1>3, <1>4, <1>5, <1>6 DEF TypeOK, WrittenLast
<1> QED BY <1>7, <1>8 DEF FramesOK

-----------------------------------------------------------------------------
(* The inductive invariant: types, and the counts.  The counts need no more *)
(* than themselves and the types, because every store above is accounted    *)
(* for whatever the place held.                                             *)

IInv == TypeOK /\ RefcountSound

CountInv == ref \in Refs /\ rc \in Counts /\ Counted(ref, rc)

\* RefcountSound in terms of one map of places and one of counts.
LEMMA SoundIsCounted == RefcountSound <=> Counted(ref, rc)
BY DEF RefcountSound, Counted, Places, Held

\* The two halves of the invariant before a step: types and counts.
LEMMA InvCounted == ASSUME IInv PROVE TypeOK /\ CountInv
BY SoundIsCounted DEF IInv, CountInv, TypeOK, Refs, Counts

\* The next state satisfies the invariant once each of its parts is typed.
StateTyped ==
    /\ len \in 0..MaxObj
    /\ kind \in [Handle -> Kinds]
    /\ cell \in [Handle -> Cells \cup {Nil}]
    /\ writer \in [Handle -> Envs]
    /\ chain \in [Envs -> Seq(Envs)]
    /\ held \subseteq Envs
    /\ depth \in Depth
    /\ FramesOK

\* The two halves after it, the types one variable group at a time.
LEMMA InvParts == ASSUME StateTyped', CountInv' PROVE IInv'
<1>1. RefcountSound'
  <2>1. Counted(ref', rc')
    BY DEF CountInv
  <2> QED BY <2>1 DEF RefcountSound, Counted, Places, Held
<1>2. TypeOK'
  BY DEF TypeOK, StateTyped, FramesOK, CountInv, Refs, Counts
<1> QED BY <1>1, <1>2 DEF IInv

\* A step that touches no place and no count.
LEMMA SameCounts ==
    ASSUME CountInv, UNCHANGED <<ref, rc>>
    PROVE  CountInv'
BY DEF CountInv

\* A step whose places and counts are known to be sound.
LEMMA NewCounts ==
    ASSUME NEW f \in Refs, NEW r \in Counts, Counted(f, r), ref' = f, rc' = r
    PROVE  CountInv'
BY DEF CountInv

\* The empty heap, with its one global frame, satisfies the invariant (RHost::new).
THEOREM InitInv == Init => IInv
<1> SUFFICES ASSUME Init PROVE IInv
  OBVIOUS
<1>1. TypeOK
  <2>1. EmptyFrame \in Frame
    BY HeapAssumption DEF EmptyFrame, Frame
  <2>2. len \in 0..MaxObj /\ depth \in Depth
    BY HeapAssumption DEF Init, Depth
  <2>3. chain \in [Envs -> Seq(Envs)]
    BY HeapAssumption DEF Init
  <2>4. ref \in [Slot -> Handle \cup {Nil}] /\ rc \in [Handle -> 0..RefMax]
    BY HeapAssumption DEF Init
  <2>5. /\ kind \in [Handle -> Kinds] /\ cell \in [Handle -> Cells \cup {Nil}]
        /\ writer \in [Handle -> Envs] /\ held \subseteq Envs
    BY HeapAssumption DEF Init, Kinds
  <2>6. frames \in [Depth -> Frame] /\ WrittenLast
    BY <2>1 DEF Init, WrittenLast, EmptyFrame
  <2> QED BY <2>2, <2>3, <2>4, <2>5, <2>6 DEF TypeOK
<1>2. RefcountSound
  <2>1. ASSUME NEW h \in Handle PROVE Places(h) = {}
    BY HeapAssumption DEF Places, Init
  <2>2. Cardinality({}) = 0
    BY FS_EmptySet
  <2>3. ASSUME NEW h \in Handle PROVE rc[h] >= Cardinality(Places(h))
    <3>1. Cardinality(Places(h)) = 0
      BY <2>1, <2>2
    <3>2. rc[h] = 0
      BY DEF Init
    <3> QED BY <3>1, <3>2
  <2> QED BY <2>3 DEF RefcountSound
<1> QED BY <1>1, <1>2 DEF IInv

\* An allocation gives the next handle its kind and moves the end of the heap.
LEMMA AllocTyped ==
    ASSUME TypeOK, NEW h \in Handle, NEW k \in Kinds, Alloc(h, k)
    PROVE  len' \in 0..MaxObj /\ kind' \in [Handle -> Kinds]
BY HeapAssumption DEF Alloc, TypeOK, Handle

-----------------------------------------------------------------------------
(* One lemma per group of actions *)

\* A literal is allocated with no reference to it.
LEMMA LiteralInv == ASSUME IInv, Literal PROVE IInv'
<1>1. TypeOK /\ CountInv
  BY InvCounted
<1>2. PICK h \in Handle, c \in Cells :
        /\ Alloc(h, "atom")
        /\ cell' = [cell EXCEPT ![h] = c]
        /\ SetStack(Append(Stack, h))
  BY DEF Literal
<1>3. CountInv'
  BY <1>1, SameCounts DEF Literal
<1>4. FramesOK'
  <2>1. Append(Stack, h) \in Seq(Handle)
    BY <1>1, TopTyped
  <2> QED BY <1>1, <1>2, <2>1, StackSet DEF Literal, CanPush
<1>5. StateTyped'
  <2>1. len' \in 0..MaxObj /\ kind' \in [Handle -> Kinds]
    BY <1>1, <1>2, AllocTyped DEF Kinds
  <2>2. cell' \in [Handle -> Cells \cup {Nil}]
    BY <1>1, <1>2 DEF TypeOK
  <2> QED BY <1>1, <1>4, <2>1, <2>2
      DEF StateTyped, TypeOK, Literal, Unchanged_envs
<1> QED BY <1>3, <1>5, InvParts

\* list(v) retains the one element it is built from.
LEMMA ListInv == ASSUME IInv, List PROVE IInv'
<1>1. TypeOK /\ CountInv
  BY InvCounted
<1>2. PICK h \in Handle, p \in Positions :
        /\ Alloc(h, "list")
        /\ ref' = [ref EXCEPT ![<<"elem", h, p>>] = Operand]
        /\ rc' = Retain(rc, Operand)
        /\ SetStack(Append(SubSeq(Stack, 1, Len(Stack) - 1), h))
  BY DEF List
<1>3. Operand \in Handle /\ SubSeq(Stack, 1, Len(Stack) - 1) \in Seq(Handle)
  BY <1>1, OperandTyped DEF List
<1>4. CountInv'
  <2>1. <<"elem", h, p>> \in Slot
    BY SlotMembers
  <2> QED BY <1>1, <1>2, <1>3, <2>1, TakeCounted, NewCounts DEF CountInv
<1>5. FramesOK'
  <2>1. Append(SubSeq(Stack, 1, Len(Stack) - 1), h) \in Seq(Handle)
    BY <1>3
  <2> QED BY <1>1, <1>2, <2>1, StackSet DEF List, HasOperand
<1>6. StateTyped'
  <2>1. len' \in 0..MaxObj /\ kind' \in [Handle -> Kinds]
    BY <1>1, <1>2, AllocTyped DEF Kinds
  <2> QED BY <1>1, <1>5, <2>1 DEF StateTyped, TypeOK, List, Unchanged_envs
<1> QED BY <1>4, <1>6, InvParts

\* Reading a variable pushes an uncounted operand.
LEMMA GetVarInv == ASSUME IInv, NEW n \in Names, GetVar(n) PROVE IInv'
<1>1. TypeOK /\ CountInv
  BY InvCounted
<1>2. PICK r \in Envs, h \in Handle : Reads(n, r, h) /\ SetStack(Append(Stack, h))
  BY DEF GetVar
<1>3. CountInv'
  BY <1>1, SameCounts DEF GetVar
<1>4. FramesOK'
  <2>1. Append(Stack, h) \in Seq(Handle)
    BY <1>1, TopTyped
  <2> QED BY <1>1, <1>2, <2>1, StackSet DEF GetVar, CanPush
<1>5. StateTyped'
  BY <1>1, <1>4 DEF StateTyped, TypeOK, GetVar, Unchanged_envs, Unchanged_heap
<1> QED BY <1>3, <1>5, InvParts

\* Reading an element pushes an uncounted operand.
LEMMA GetElemInv == ASSUME IInv, NEW p \in Positions, GetElem(p) PROVE IInv'
<1>1. TypeOK /\ CountInv
  BY InvCounted
<1> DEFINE below == SubSeq(Stack, 1, Len(Stack) - 1)
           elem  == ref[<<"elem", Operand, p>>]
<1>2. Operand \in Handle /\ below \in Seq(Handle)
  BY <1>1, OperandTyped DEF GetElem
<1>3. elem \in Handle
  BY <1>1, <1>2, SlotMembers DEF GetElem, TypeOK
<1>4. CountInv'
  BY <1>1, SameCounts DEF GetElem
<1>5. FramesOK'
  <2>1. Append(below, elem) \in Seq(Handle)
    BY <1>2, <1>3
  <2>2. SetStack(Append(below, elem))
    BY DEF GetElem
  <2> QED BY <1>1, <2>1, <2>2, StackSet DEF GetElem, HasOperand
<1>6. StateTyped'
  BY <1>1, <1>5 DEF StateTyped, TypeOK, GetElem, Unchanged_envs, Unchanged_heap
<1> QED BY <1>4, <1>6, InvParts

\* The environment an assignment stores to.
LEMMA StoreTargetTyped ==
    ASSUME TypeOK, NEW super \in BOOLEAN, NEW n \in Names, NEW r,
           StoreTarget(super, n, r)
    PROVE  r \in Envs
<1>1. CASE super
  <2>1. chain[Top.env] \in Seq(Envs)
    BY TopTyped DEF TypeOK
  <2> QED BY <1>1, <2>1, HeapAssumption DEF StoreTarget, SuperTarget
<1>2. CASE ~super
  BY <1>2, TopTyped DEF StoreTarget
<1> QED BY <1>1, <1>2

\* A simple assignment rebinds one variable.
LEMMA SetVarInv ==
    ASSUME IInv, NEW n \in Names, NEW super \in BOOLEAN, SetVar(n, super)
    PROVE  IInv'
<1>1. TypeOK /\ CountInv
  BY InvCounted
<1>2. PICK r \in Envs :
        /\ rc' = Rebind(rc, ref[Binding(r, n)], Operand)
        /\ ref' = [ref EXCEPT ![Binding(r, n)] = Operand]
  BY DEF SetVar
<1>3. CountInv'
  <2>1. Operand \in Handle /\ Binding(r, n) \in Slot
    BY <1>1, OperandTyped, SlotMembers DEF SetVar
  <2> QED BY <1>1, <1>2, <2>1, RebindCounted, NewCounts DEF CountInv
<1>4. StateTyped'
  BY <1>1 DEF StateTyped, FramesOK, WrittenLast, TypeOK, SetVar, Unchanged_envs, Unchanged_heap
<1> QED BY <1>3, <1>4, InvParts

\* An operand is dropped.
LEMMA PopInv == ASSUME IInv, Pop PROVE IInv'
<1>1. TypeOK /\ CountInv
  BY InvCounted
<1>2. CountInv'
  BY <1>1, SameCounts DEF Pop
<1>3. FramesOK'
  BY <1>1, OperandTyped, StackSet DEF Pop, HasOperand
<1>4. StateTyped'
  BY <1>1, <1>3 DEF StateTyped, TypeOK, Pop, Unchanged_envs, Unchanged_heap
<1> QED BY <1>2, <1>4, InvParts

\* rm empties a binding without a release: the count is only too high.
LEMMA RmInv == ASSUME IInv, NEW n \in Names, Rm(n) PROVE IInv'
<1>1. TypeOK /\ CountInv
  BY InvCounted
<1>2. CountInv'
  <2>1. Binding(Top.env, n) \in Slot
    BY <1>1, TopTyped, SlotMembers
  <2>2. rc' = rc
    BY DEF Rm
  <2> QED BY <1>1, <2>1, <2>2, ForgetCounted, NewCounts DEF CountInv, Rm
<1>3. StateTyped'
  BY <1>1 DEF StateTyped, FramesOK, WrittenLast, TypeOK, Rm, Unchanged_envs, Unchanged_heap
<1> QED BY <1>2, <1>3, InvParts

\* A complex assignment begins without touching a count.
LEMMA BeginAssignInv ==
    ASSUME IInv, NEW n \in Names, NEW super \in BOOLEAN, NEW p \in Positions,
           BeginAssign(n, super, p)
    PROVE  IInv'
<1>1. TypeOK /\ CountInv
  BY InvCounted
<1>2. PICK r \in Envs, h \in Handle : Begin(n, super, p, FALSE, h)
  BY DEF BeginAssign
<1>3. CountInv'
  BY <1>1, SameCounts DEF BeginAssign
<1>4. FramesOK'
  BY <1>1, <1>2, BeginTyped DEF BeginAssign
<1>5. StateTyped'
  BY <1>1, <1>4 DEF StateTyped, TypeOK, BeginAssign, Unchanged_envs, Unchanged_heap
<1> QED BY <1>3, <1>5, InvParts

\* An object pinned as shared is no longer counted.
LEMMA PinCounted ==
    ASSUME CountInv, NEW h \in Handle
    PROVE  Pinned(h) \in Counts /\ Counted(ref, Pinned(h))
<1>1. Pinned(h) \in Counts
  BY HeapAssumption DEF CountInv, Counts, Pinned
<1>2. ASSUME NEW g \in Handle
      PROVE  Pinned(h)[g] = RefMax \/ Pinned(h)[g] >= Cardinality(Held(ref, g))
  <2>1. Pinned(h)[g] = IF g = h THEN RefMax ELSE rc[g]
    BY DEF CountInv, Counts, Pinned
  <2> QED BY <2>1 DEF CountInv, Counted
<1> QED BY <1>1, <1>2 DEF Counted

\* One through an element begins by pinning that element.
LEMMA BeginNestedInv ==
    ASSUME IInv, NEW n \in Names, NEW super \in BOOLEAN, NEW p \in Positions,
           BeginNested(n, super, p)
    PROVE  IInv'
<1>1. TypeOK /\ CountInv
  BY InvCounted
<1>2. PICK r \in Envs, h \in Handle :
        /\ ref[<<"elem", h, p>>] # Nil
        /\ Begin(n, super, p, TRUE, ref[<<"elem", h, p>>])
        /\ rc' = Pinned(ref[<<"elem", h, p>>])
  BY DEF BeginNested
<1>3. ref[<<"elem", h, p>>] \in Handle
  BY <1>1, <1>2, SlotMembers DEF TypeOK
<1>4. CountInv'
  <2>1. ref' = ref
    BY DEF BeginNested
  <2> QED BY <1>1, <1>2, <1>3, <2>1, PinCounted, NewCounts DEF CountInv
<1>5. FramesOK'
  BY <1>1, <1>2, <1>3, BeginTyped DEF BeginNested
<1>6. StateTyped'
  BY <1>1, <1>5 DEF StateTyped, TypeOK, BeginNested, Unchanged_envs, Unchanged_heap
<1> QED BY <1>4, <1>6, InvParts

\* A write into an atomic vector concerns no reference.
LEMMA WriteAtomInPlaceInv == ASSUME IInv, WriteAtomInPlace PROVE IInv'
<1>1. TypeOK /\ CountInv
  BY InvCounted
<1>2. Obj \in Handle /\ Val \in Handle
  BY <1>1, WriteTyped DEF WriteAtomInPlace
<1>3. CountInv'
  BY <1>1, SameCounts DEF WriteAtomInPlace
<1>4. FramesOK'
  BY <1>1, <1>2, WrittenTyped DEF WriteAtomInPlace
<1>5. cell' \in [Handle -> Cells \cup {Nil}]
  BY <1>1, <1>2 DEF WriteAtomInPlace, TypeOK
<1>6. StateTyped'
  BY <1>1, <1>4, <1>5 DEF StateTyped, TypeOK, WriteAtomInPlace, Unchanged_envs
<1> QED BY <1>3, <1>6, InvParts

\* A write into a list releases the displaced element and retains the value.
LEMMA WriteListInPlaceInv == ASSUME IInv, WriteListInPlace PROVE IInv'
<1>1. TypeOK /\ CountInv
  BY InvCounted
<1>2. Obj \in Handle /\ Val \in Handle
  BY <1>1, WriteTyped DEF WriteListInPlace
<1> DEFINE s == <<"elem", Obj, Target.pos>>
           f == [ref EXCEPT ![s] = Nil]
           r == Release(rc, ref[s])
<1>3. s \in Slot
  BY <1>1, <1>2, TargetTyped, SlotMembers DEF WriteListInPlace, ReadyToWrite
<1>4. CountInv'
  <2>1. f \in Refs /\ r \in Counts /\ Counted(f, r)
    BY <1>1, <1>3, DropCounted DEF CountInv
  <2>2. /\ [f EXCEPT ![s] = Val] \in Refs
        /\ Retain(r, Val) \in Counts
        /\ Counted([f EXCEPT ![s] = Val], Retain(r, Val))
    <3> HIDE DEF f, r, s
    <3> QED BY <1>2, <1>3, <2>1, TakeCounted
  <2>3. ref' = [f EXCEPT ![s] = Val]
    BY <1>1 DEF WriteListInPlace, CountInv, Refs
  <2>4. rc' = Retain(r, Val)
    BY DEF WriteListInPlace
  <2> HIDE DEF f, r, s
  <2> QED BY <2>2, <2>3, <2>4, NewCounts
<1>5. FramesOK'
  BY <1>1, <1>2, WrittenTyped DEF WriteListInPlace
<1>6. StateTyped'
  BY <1>1, <1>5
  DEF StateTyped, TypeOK, WriteListInPlace, Unchanged_envs, Unchanged_heap
<1> QED BY <1>4, <1>6, InvParts

\* A rebuilt atomic vector is a new object.
LEMMA RebuildAtomInv == ASSUME IInv, RebuildAtom PROVE IInv'
<1>1. TypeOK /\ CountInv
  BY InvCounted
<1>2. PICK h \in Handle :
        /\ Alloc(h, "atom")
        /\ cell' = [cell EXCEPT ![h] = cell[Val]]
        /\ Written(h)
  BY DEF RebuildAtom
<1>3. Val \in Handle
  BY <1>1, WriteTyped DEF RebuildAtom
<1>4. CountInv'
  BY <1>1, SameCounts DEF RebuildAtom
<1>5. FramesOK'
  BY <1>1, <1>2, WrittenTyped DEF RebuildAtom
<1>6. StateTyped'
  <2>1. len' \in 0..MaxObj /\ kind' \in [Handle -> Kinds]
    BY <1>1, <1>2, AllocTyped DEF Kinds
  <2>2. cell' \in [Handle -> Cells \cup {Nil}]
    BY <1>1, <1>2, <1>3 DEF TypeOK
  <2> QED BY <1>1, <1>5, <2>1, <2>2
      DEF StateTyped, TypeOK, RebuildAtom, Unchanged_envs
<1> QED BY <1>4, <1>6, InvParts

\* The elements of the list that a write builds.
LEMMA RebuiltTyped ==
    ASSUME TypeOK, ReadyToWrite, NEW h \in Handle
    PROVE  /\ Rebuilt(h) \in Refs
           /\ Elements(h) \in SUBSET Slot
           /\ \A s \in Slot \ Elements(h) : Rebuilt(h)[s] = ref[s]
<1>1. Elements(h) \in SUBSET Slot
  BY SlotMembers DEF Elements
<1>2. ASSUME NEW s \in Slot PROVE Rebuilt(h)[s] \in Handle \cup {Nil}
  <2>1. CASE s \notin Elements(h)
    BY <2>1 DEF Rebuilt, TypeOK
  <2>2. CASE s \in Elements(h)
    <3>1. PICK p \in Positions : s = <<"elem", h, p>>
      BY <2>2 DEF Elements
    <3>2. ref[<<"elem", Obj, p>>] \in Handle \cup {Nil} /\ Val \in Handle
      BY SlotMembers, WriteTyped DEF TypeOK
    <3>3. s[3] = p
      BY <3>1
    <3> QED BY <2>2, <3>2, <3>3 DEF Rebuilt
  <2> QED BY <2>1, <2>2
<1>3. Rebuilt(h) \in Refs
  <2>1. Rebuilt(h) = [s \in Slot |-> Rebuilt(h)[s]]
    BY DEF Rebuilt
  <2> QED BY <1>2, <2>1 DEF Refs
<1> QED BY <1>1, <1>3 DEF Rebuilt

\* A rebuilt list retains every element it is built from.
LEMMA RebuildListInv == ASSUME IInv, RebuildList PROVE IInv'
<1>1. TypeOK /\ CountInv
  BY InvCounted
<1>2. PICK h \in Handle :
        /\ Alloc(h, "list")
        /\ ref' = Rebuilt(h)
        /\ rc' = RetainEach(rc, Elements(h), Rebuilt(h))
        /\ Written(h)
  BY DEF RebuildList
<1>3. CountInv'
  <2>1. /\ Rebuilt(h) \in Refs
        /\ Elements(h) \in SUBSET Slot
        /\ \A s \in Slot \ Elements(h) : Rebuilt(h)[s] = ref[s]
    BY <1>1, RebuiltTyped DEF RebuildList
  <2> QED BY <1>1, <1>2, <2>1, FillCounted, NewCounts DEF CountInv
<1>4. FramesOK'
  BY <1>1, <1>2, WrittenTyped DEF RebuildList
<1>5. StateTyped'
  <2>1. len' \in 0..MaxObj /\ kind' \in [Handle -> Kinds]
    BY <1>1, <1>2, AllocTyped DEF Kinds
  <2> QED BY <1>1, <1>4, <2>1 DEF StateTyped, TypeOK, RebuildList, Unchanged_envs
<1> QED BY <1>3, <1>5, InvParts

\* The store of a written assignment consumes its result.
LEMMA ResultTyped ==
    ASSUME TypeOK, Assigning, Target.written
    PROVE  Operand \in Handle /\ Len(Stack) \in Nat \ {0}
<1>1. Stack # <<>>
  BY TargetTyped, TopTyped DEF TypeOK, WrittenLast, Stack, Top, Target
<1> QED BY <1>1, TopTyped DEF Operand

\* The result is stored in the target variable.
LEMMA StoreInv == ASSUME IInv, Store PROVE IInv'
<1>1. TypeOK /\ CountInv /\ Assigning
  BY InvCounted DEF Store
<1>2. PICK r \in Envs :
        /\ rc' = Rebind(rc, ref[Binding(r, Target.name)], Operand)
        /\ ref' = [ref EXCEPT ![Binding(r, Target.name)] = Operand]
  BY DEF Store
<1>3. CountInv'
  <2>1. Operand \in Handle /\ Binding(r, Target.name) \in Slot
    BY <1>1, ResultTyped, TargetTyped, SlotMembers DEF Store
  <2> QED BY <1>1, <1>2, <2>1, RebindCounted, NewCounts DEF CountInv
<1>4. FramesOK'
  <2> DEFINE st == SubSeq(Stack, 1, Len(Stack) - 1)
             pd == SubSeq(Top.pend, 1, Len(Top.pend) - 1)
  <2>1. st \in Seq(Handle)
    BY <1>1, ResultTyped, TopTyped DEF Store
  <2>2. /\ pd \in Seq(Pending) /\ DOMAIN pd = 1..(Len(Top.pend) - 1)
        /\ \A i \in DOMAIN pd : pd[i] = Top.pend[i] /\ i # Len(Top.pend)
    BY <1>1, TargetTyped, TopTyped
  <2>3. \A i \in DOMAIN pd : ~pd[i].written
    BY <1>1, <2>2, TargetTyped, TopTyped DEF TypeOK, WrittenLast, Top
  <2>4. SetTop([Top EXCEPT !.stack = st, !.pend = pd])
    BY DEF Store, Stack
  <2> HIDE DEF st, pd
  <2> QED BY <1>1, <2>1, <2>2, <2>3, <2>4, FrameUpdate
<1>5. StateTyped'
  BY <1>1, <1>4 DEF StateTyped, TypeOK, Store, Unchanged_envs, Unchanged_heap
<1> QED BY <1>3, <1>5, InvParts

\* The outer object is read again for the second write.
LEMMA StoreInnerInv == ASSUME IInv, StoreInner PROVE IInv'
<1>1. TypeOK /\ CountInv /\ Assigning
  BY InvCounted DEF StoreInner
<1> DEFINE k == Len(Top.pend)
           t == [Target EXCEPT !.inner = FALSE, !.written = FALSE]
           pd == [Top.pend EXCEPT ![k] = t]
<1>2. PICK r \in Envs, h \in Handle :
        SetTop([Top EXCEPT !.stack = Append(Stack, h), !.pend = pd])
  BY DEF StoreInner, Stack
<1>3. CountInv'
  BY <1>1, SameCounts DEF StoreInner
<1>4. FramesOK'
  <2>1. t \in Pending /\ ~t.written /\ k \in 1..Len(Top.pend)
    BY <1>1, TargetTyped DEF Pending
  <2>2. Append(Stack, h) \in Seq(Handle)
    BY <1>1, TopTyped
  <2>3. pd \in Seq(Pending)
    BY <1>1, <2>1, TopTyped
  <2>4. \A i \in DOMAIN pd : ~pd[i].written
    <3> HIDE DEF t
    <3>1. \A i \in DOMAIN Top.pend : Top.pend[i].written => i = k
      BY <1>1 DEF TypeOK, WrittenLast, Top
    <3> QED BY <1>1, <2>1, <3>1, TopTyped
  <2> HIDE DEF pd
  <2> QED BY <1>1, <1>2, <2>2, <2>3, <2>4, FrameUpdate
<1>5. StateTyped'
  BY <1>1, <1>4 DEF StateTyped, TypeOK, StoreInner, Unchanged_envs, Unchanged_heap
<1> QED BY <1>3, <1>5, InvParts

\* A call makes an environment whose enclosures are environments.
LEMMA NewEnvTyped ==
    ASSUME TypeOK, NEW e \in Envs, NEW outer \in Envs, NewEnv(e, outer)
    PROVE  chain' \in [Envs -> Seq(Envs)]
<1>1. chain[outer] \in Seq(Envs) /\ <<e>> \in Seq(Envs)
  BY DEF TypeOK
<1>2. <<e>> \o chain[outer] \in Seq(Envs)
  BY <1>1
<1> QED BY <1>2 DEF NewEnv, TypeOK

\* A call without arguments.
LEMMA CallInv == ASSUME IInv, NEW outer \in Envs, Call(outer) PROVE IInv'
<1>1. TypeOK /\ CountInv
  BY InvCounted
<1>2. PICK e \in Envs : NewEnv(e, outer) /\ Enter(e, Nil)
  BY DEF Call
<1>3. CountInv'
  BY <1>1, SameCounts DEF Call
<1>4. depth' \in Depth /\ FramesOK' /\ chain' \in [Envs -> Seq(Envs)]
  BY <1>1, <1>2, EnterTyped, NewEnvTyped
<1>5. StateTyped'
  BY <1>1, <1>4 DEF StateTyped, TypeOK, Call, Unchanged_heap
<1> QED BY <1>3, <1>5, InvParts

\* A call retains its promise twice: for the formal and for the frame.
LEMMA CallWithInv ==
    ASSUME IInv, NEW outer \in Envs, NEW n \in Names, CallWith(outer, n)
    PROVE  IInv'
<1>1. TypeOK /\ CountInv
  BY InvCounted
<1>2. PICK e \in Envs, h \in Handle :
        /\ NewEnv(e, outer) /\ Enter(e, Nil)
        /\ Alloc(h, "promise")
        /\ writer' = [writer EXCEPT ![h] = Top.env]
        /\ ref' = [ref EXCEPT ![Binding(e, n)] = h, ![<<"arg", depth + 1>>] = h]
        /\ rc' = Retain(Retain(rc, h), h)
  BY DEF CallWith
<1> DEFINE b == Binding(e, n)
           a == <<"arg", depth + 1>>
           f == [ref EXCEPT ![b] = h]
           q == Retain(rc, h)
<1>3. depth' \in Depth /\ FramesOK' /\ chain' \in [Envs -> Seq(Envs)]
  BY <1>1, <1>2, EnterTyped, NewEnvTyped
<1>4. CountInv'
  <2>1. b \in Slot /\ a \in Slot
    BY <1>2, <1>3, SlotMembers DEF Enter
  <2>2. f \in Refs /\ q \in Counts /\ Counted(f, q)
    BY <1>1, <2>1, TakeCounted DEF CountInv
  <2>3. /\ [f EXCEPT ![a] = h] \in Refs
        /\ Retain(q, h) \in Counts
        /\ Counted([f EXCEPT ![a] = h], Retain(q, h))
    <3> HIDE DEF f, q, a
    <3> QED BY <2>1, <2>2, TakeCounted
  <2>4. ref' = [f EXCEPT ![a] = h] /\ rc' = Retain(q, h)
    BY <1>2
  <2> HIDE DEF f, q, a
  <2> QED BY <2>3, <2>4, NewCounts
<1>5. StateTyped'
  <2>1. len' \in 0..MaxObj /\ kind' \in [Handle -> Kinds]
    BY <1>1, <1>2, AllocTyped DEF Kinds
  <2>2. writer' \in [Handle -> Envs] /\ held' \subseteq Envs
    BY <1>1, <1>2, TopTyped DEF TypeOK, CallWith
  <2> QED BY <1>1, <1>3, <2>1, <2>2 DEF StateTyped, TypeOK, CallWith
<1> QED BY <1>4, <1>5, InvParts

\* Forcing enters a frame over the environment the promise was written in.
LEMMA ForcePromiseInv == ASSUME IInv, NEW n \in Names, ForcePromise(n) PROVE IInv'
<1>1. TypeOK /\ CountInv
  BY InvCounted
<1>2. PICK r \in Envs :
        /\ kind[ref[Binding(r, n)]] = "promise"
        /\ Resolves(Top.env, n, r)
        /\ Enter(writer[ref[Binding(r, n)]], ref[Binding(r, n)])
  BY DEF ForcePromise
<1>3. ref[Binding(r, n)] \in Handle
  BY <1>1, <1>2, SlotMembers DEF Resolves, TypeOK
<1>4. CountInv'
  BY <1>1, SameCounts DEF ForcePromise
<1>5. depth' \in Depth /\ FramesOK'
  <2>1. writer[ref[Binding(r, n)]] \in Envs
    BY <1>1, <1>3 DEF TypeOK
  <2> QED BY <1>1, <1>2, <1>3, <2>1, EnterTyped
<1>6. StateTyped'
  BY <1>1, <1>5 DEF StateTyped, TypeOK, ForcePromise, Unchanged_envs, Unchanged_heap
<1> QED BY <1>4, <1>6, InvParts

\* A closure keeps an environment.
LEMMA MakeClosureInv == ASSUME IInv, MakeClosure PROVE IInv'
<1>1. TypeOK /\ CountInv
  BY InvCounted
<1>2. CountInv'
  BY <1>1, SameCounts DEF MakeClosure
<1>3. StateTyped'
  BY <1>1, TopTyped
  DEF StateTyped, FramesOK, WrittenLast, TypeOK, MakeClosure, Unchanged_heap
<1> QED BY <1>2, <1>3, InvParts

\* A closure's frame gives back its argument, then the bindings of its
\* environment: two disjoint sets of places.
LEMMA LeaveClosureInv ==
    ASSUME IInv, depth > 1, LeaveClosure, depth' \in Depth, FramesOK'
    PROVE  IInv'
<1>1. TypeOK /\ CountInv
  BY InvCounted
<1> DEFINE arg  == {<<"arg", depth>>}
           gone == IF Captured(Top.env) THEN {} ELSE Bindings(Top.env)
           f == [s \in Slot |-> IF s \in arg THEN Nil ELSE ref[s]]
           q == ReleaseEach(rc, arg, ref)
           g == [s \in Slot |-> IF s \in gone THEN Nil ELSE f[s]]
<1>2. arg \in SUBSET Slot /\ gone \in SUBSET Slot
  BY <1>1, TopTyped, SlotMembers DEF TypeOK, Bindings
<1>3. arg \cap gone = {}
  BY DEF Bindings, Binding
<1>4. ref' = Cleared(arg \cup gone) /\ rc' = ReleaseEach(q, gone, ref)
  BY DEF LeaveClosure
<1>5. f \in Refs /\ q \in Counts /\ Counted(f, q)
  BY <1>1, <1>2, ClearCounted DEF CountInv
<1>6. ref' = g
  BY <1>4 DEF Cleared
<1>7. rc' = ReleaseEach(q, gone, f)
  <2>1. \A s \in gone : f[s] = ref[s]
    BY <1>2, <1>3
  <2> HIDE DEF gone, f, q
  <2>2. \A h \in Handle : Times(gone, f, h) = Times(gone, ref, h)
    <3> SUFFICES ASSUME NEW h \in Handle
                 PROVE  {s \in gone : f[s] = h} = {s \in gone : ref[s] = h}
      BY DEF Times
    <3> QED BY <2>1
  <2> QED BY <1>4, <2>2 DEF ReleaseEach
<1>8. CountInv'
  <2> HIDE DEF f, q, gone
  <2>1. g \in Refs /\ ReleaseEach(q, gone, f) \in Counts
        /\ Counted(g, ReleaseEach(q, gone, f))
    BY <1>2, <1>5, ClearCounted
  <2> HIDE DEF g
  <2> QED BY <1>6, <1>7, <2>1, NewCounts
<1>9. StateTyped'
  <2>1. chain' = chain \/ chain' = [chain EXCEPT ![Top.env] = <<>>]
    BY DEF LeaveClosure
  <2>2. chain' \in [Envs -> Seq(Envs)]
    <3>1. <<>> \in Seq(Envs) /\ chain \in [Envs -> Seq(Envs)]
      BY <1>1 DEF TypeOK
    <3> HIDE DEF gone, f, q, g, arg
    <3> QED BY <2>1, <3>1, ZenonT(20)
  <2> QED BY <1>1, <2>2 DEF StateTyped, TypeOK, LeaveClosure, Unchanged_heap
<1> QED BY <1>8, <1>9, InvParts

\* A closure answers its value.
LEMMA ReturnInv == ASSUME IInv, Return PROVE IInv'
<1>1. TypeOK
  BY DEF IInv
<1>2. depth' \in Depth /\ FramesOK'
  BY <1>1, OperandTyped, LeaveTyped DEF Return
<1> QED BY <1>2, LeaveClosureInv DEF Return

\* A promise remembers its value and retains it.
LEMMA ReturnForcedInv == ASSUME IInv, ReturnForced PROVE IInv'
<1>1. TypeOK /\ CountInv
  BY InvCounted
<1>2. Operand \in Handle
  BY <1>1, OperandTyped DEF ReturnForced
<1>3. depth' \in Depth /\ FramesOK'
  BY <1>1, <1>2, LeaveTyped DEF ReturnForced
<1>4. CountInv'
  <2>1. <<"memo", Top.prom>> \in Slot
    BY <1>1, TopTyped, SlotMembers DEF ReturnForced, Frame
  <2>2. /\ ref' = [ref EXCEPT ![<<"memo", Top.prom>>] = Operand]
        /\ rc' = Retain(rc, Operand)
    BY DEF ReturnForced
  <2> QED BY <1>1, <1>2, <2>1, <2>2, TakeCounted, NewCounts DEF CountInv
<1>5. StateTyped'
  BY <1>1, <1>3 DEF StateTyped, TypeOK, ReturnForced, Unchanged_envs, Unchanged_heap
<1> QED BY <1>4, <1>5, InvParts

\* An error leaves a frame the way a value does.
LEMMA UnwindInv == ASSUME IInv, Unwind PROVE IInv'
<1>1. TypeOK /\ CountInv
  BY InvCounted
<1>2. depth' \in Depth /\ FramesOK'
  BY <1>1, LeaveTyped DEF Unwind
<1>3. CASE Top.prom = Nil
  BY <1>2, <1>3, LeaveClosureInv DEF Unwind
<1>4. CASE Top.prom # Nil
  <2>1. UNCHANGED <<ref, rc>> /\ Unchanged_heap /\ Unchanged_envs
    BY <1>4 DEF Unwind
  <2>2. CountInv'
    BY <1>1, <2>1, SameCounts
  <2>3. StateTyped'
    BY <1>1, <1>2, <2>1 DEF StateTyped, TypeOK, Unchanged_envs, Unchanged_heap
  <2> QED BY <2>2, <2>3, InvParts
<1> QED BY <1>3, <1>4

\* Nothing changes.
LEMMA StutterInv == ASSUME IInv, UNCHANGED vars PROVE IInv'
<1>1. TypeOK'
  BY DEF vars, IInv, TypeOK, WrittenLast
<1>2. RefcountSound'
  BY DEF vars, IInv, RefcountSound, Places
<1> QED BY <1>1, <1>2 DEF IInv

-----------------------------------------------------------------------------
(* Every step preserves the invariant *)

\* Whatever a program does next, the invariant is kept: one lemma per operation.
THEOREM NextInv == IInv /\ [Next]_vars => IInv'
<1> SUFFICES ASSUME IInv, [Next]_vars PROVE IInv'
  OBVIOUS
<1>1. CASE Literal \/ List \/ Pop
  BY <1>1, LiteralInv, ListInv, PopInv
<1>2. CASE \E n \in Names : GetVar(n) \/ Rm(n) \/ ForcePromise(n)
  BY <1>2, GetVarInv, RmInv, ForcePromiseInv
<1>3. CASE \E p \in Positions : GetElem(p)
  BY <1>3, GetElemInv
<1>4. CASE \E n \in Names, super \in BOOLEAN : SetVar(n, super)
  BY <1>4, SetVarInv
<1>5. CASE \E n \in Names, super \in BOOLEAN, p \in Positions :
             BeginAssign(n, super, p) \/ BeginNested(n, super, p)
  BY <1>5, BeginAssignInv, BeginNestedInv
<1>6. CASE WriteAtomInPlace \/ WriteListInPlace \/ RebuildAtom \/ RebuildList
  BY <1>6, WriteAtomInPlaceInv, WriteListInPlaceInv, RebuildAtomInv, RebuildListInv
<1>7. CASE Store \/ StoreInner
  BY <1>7, StoreInv, StoreInnerInv
<1>8. CASE \E outer \in Envs : Call(outer)
  BY <1>8, CallInv
<1>9. CASE \E outer \in Envs, n \in Names : CallWith(outer, n)
  BY <1>9, CallWithInv
<1>10. CASE MakeClosure \/ Return \/ ReturnForced \/ Unwind
  BY <1>10, MakeClosureInv, ReturnInv, ReturnForcedInv, UnwindInv
<1>11. CASE UNCHANGED vars
  BY <1>11, StutterInv
<1> QED BY <1>1, <1>2, <1>3, <1>4, <1>5, <1>6, <1>7, <1>8, <1>9, <1>10, <1>11
    DEF Next

\* In every state of every program the variables have their types.
THEOREM TypeCorrect == Spec => []TypeOK
<1>1. IInv => TypeOK
  BY DEF IInv
<1> QED BY <1>1, InitInv, NextInv, PTL DEF Spec

\* In every state of every program, for any number of names, environments,
\* frames and objects, a count that still counts is no smaller than the number
\* of bindings, elements, promise values and arguments that hold the object
\* (retain, release, bind_in, set_list_elements, alloc_with, call_closure).
THEOREM RefcountSafety == Spec => []RefcountSound
<1>1. IInv => RefcountSound
  BY DEF IInv
<1> QED BY <1>1, InitInv, NextInv, PTL DEF Spec

-----------------------------------------------------------------------------
(* Writes in place *)

\* What an action leaves alone of an object on the heap.
Intact(g) == cell'[g] = cell[g] /\ \A s \in Elements(g) : ref'[s] = ref[s]

\* Bindings, memos and arguments are no elements of any object.
LEMMA ElementsOnly ==
    ASSUME NEW g \in Handle, NEW s \in Elements(g)
    PROVE  /\ s \in Slot
           /\ \A e, n : s # Binding(e, n)
           /\ \A h : s # <<"memo", h>> /\ s # <<"arg", h>>
           /\ \A h, p : s = <<"elem", h, p>> => h = g
BY SlotMembers DEF Elements, Binding

\* Leaving a frame empties its argument and its bindings only.
LEMMA LeaveIntact ==
    ASSUME TypeOK, LeaveClosure, NEW h \in Handle
    PROVE  Intact(h)
<1> DEFINE gone == IF Captured(Top.env) THEN {} ELSE Bindings(Top.env)
<1>1. ASSUME NEW s \in Elements(h) PROVE ref'[s] = ref[s]
  <2>1. s \in Slot /\ s \notin {<<"arg", depth>>} \cup gone
    BY ElementsOnly DEF Bindings
  <2>2. ref' = Cleared({<<"arg", depth>>} \cup gone)
    BY DEF LeaveClosure
  <2> HIDE DEF gone
  <2> QED BY <2>1, <2>2 DEF Cleared
<1>2. cell' = cell
  BY DEF LeaveClosure, Unchanged_heap
<1> QED BY <1>1, <1>2 DEF Intact

\* An object is created beyond the heap's end, so no object on it changes.
LEMMA AllocIntact ==
    ASSUME TypeOK, NEW h \in Handle, NEW k, Alloc(h, k),
           NEW g \in Handle, g <= len
    PROVE  g # h
BY HeapAssumption DEF Alloc, TypeOK, Handle

\* An action that writes where an object stands.
WritesInPlace == WriteAtomInPlace \/ WriteListInPlace

\* Operation by operation: each leaves the allocated objects intact, or writes into
\* the one that its guard found to be private.
LEMMA StepChanges ==
    ASSUME TypeOK, Next, NEW g \in Handle, Changed(g)
    PROVE  WritesInPlace /\ g = Obj
<1>1. g <= len /\ ~Intact(g)
  BY DEF Changed, Intact
<1>2. CASE Literal \/ RebuildAtom
  <2>1. PICK h \in Handle :
          Alloc(h, "atom") /\ \E c : cell' = [cell EXCEPT ![h] = c]
    BY <1>2 DEF Literal, RebuildAtom
  <2>2. ref' = ref /\ g # h
    BY <1>1, <1>2, <2>1, AllocIntact DEF Literal, RebuildAtom
  <2> QED BY <1>1, <2>1, <2>2 DEF Intact, TypeOK
<1>3. CASE List
  <2>1. PICK h \in Handle, p \in Positions :
          /\ Alloc(h, "list")
          /\ ref' = [ref EXCEPT ![<<"elem", h, p>>] = Operand]
    BY <1>3 DEF List
  <2>2. g # h /\ cell' = cell
    BY <1>1, <1>3, <2>1, AllocIntact DEF List
  <2>3. \A s \in Elements(g) : ref'[s] = ref[s]
    BY <1>1, <2>1, <2>2, ElementsOnly DEF TypeOK
  <2> QED BY <1>1, <2>2, <2>3 DEF Intact
<1>4. CASE RebuildList
  <2>1. PICK h \in Handle : Alloc(h, "list") /\ ref' = Rebuilt(h)
    BY <1>4 DEF RebuildList
  <2>2. g # h /\ cell' = cell
    BY <1>1, <1>4, <2>1, AllocIntact DEF RebuildList
  <2>3. ASSUME NEW s \in Elements(g) PROVE ref'[s] = ref[s]
    <3>1. s \in Slot /\ s \notin Elements(h)
      BY <2>2, ElementsOnly DEF Elements
    <3> QED BY <2>1, <3>1 DEF Rebuilt
  <2> QED BY <1>1, <2>2, <2>3 DEF Intact
<1>5. CASE WriteAtomInPlace
  <2>1. Obj \in Handle
    BY <1>1, <1>5, WriteTyped DEF WriteAtomInPlace
  <2>2. g # Obj => Intact(g)
    BY <1>1, <1>5, <2>1 DEF WriteAtomInPlace, Intact, TypeOK
  <2> QED BY <1>1, <1>5, <2>2 DEF WritesInPlace
<1>6. CASE WriteListInPlace
  <2>1. /\ ref' = [ref EXCEPT ![<<"elem", Obj, Target.pos>>] = Val]
        /\ cell' = cell
    BY <1>6 DEF WriteListInPlace, Unchanged_heap
  <2>2. g # Obj => Intact(g)
    BY <1>1, <2>1, ElementsOnly DEF Intact, TypeOK
  <2> QED BY <1>1, <1>6, <2>2 DEF WritesInPlace
<1>7. CASE \/ \E n \in Names, super \in BOOLEAN : SetVar(n, super)
           \/ Store
           \/ \E n \in Names : Rm(n)
  <2>1. ASSUME NEW e, NEW n, NEW v, ref' = [ref EXCEPT ![Binding(e, n)] = v]
        PROVE  \A s \in Elements(g) : ref'[s] = ref[s]
    BY <1>1, <2>1, ElementsOnly DEF TypeOK
  <2>2. \A s \in Elements(g) : ref'[s] = ref[s]
    <3>1. CASE \E n \in Names, super \in BOOLEAN : SetVar(n, super)
      BY <3>1, <2>1 DEF SetVar
    <3>2. CASE Store
      BY <3>2, <2>1 DEF Store
    <3>3. CASE \E n \in Names : Rm(n)
      BY <3>3, <2>1 DEF Rm
    <3> QED BY <1>7, <3>1, <3>2, <3>3
  <2>3. cell' = cell
    BY <1>7 DEF SetVar, Store, Rm, Unchanged_heap
  <2> QED BY <1>1, <2>2, <2>3 DEF Intact
<1>8. CASE \E outer \in Envs, n \in Names : CallWith(outer, n)
  <2>1. PICK outer \in Envs, n \in Names : CallWith(outer, n)
    BY <1>8
  <2>2. PICK e \in Envs, h \in Handle :
          ref' = [ref EXCEPT ![Binding(e, n)] = h, ![<<"arg", depth + 1>>] = h]
    BY <2>1 DEF CallWith
  <2>3. cell' = cell
    BY <2>1 DEF CallWith
  <2> QED BY <1>1, <2>2, <2>3, ElementsOnly DEF Intact, TypeOK
<1>9. CASE Return \/ (Unwind /\ Top.prom = Nil)
  BY <1>1, <1>9, LeaveIntact DEF Return, Unwind
<1>10. CASE ReturnForced
  <2>1. cell' = cell /\ ref' = [ref EXCEPT ![<<"memo", Top.prom>>] = Operand]
    BY <1>10 DEF ReturnForced, Unchanged_heap
  <2> QED BY <1>1, <2>1, ElementsOnly DEF Intact, TypeOK
<1>11. CASE \/ Pop \/ StoreInner \/ MakeClosure
            \/ \E n \in Names : GetVar(n) \/ ForcePromise(n)
            \/ \E p \in Positions : GetElem(p)
            \/ \E n \in Names, super \in BOOLEAN, p \in Positions :
                   BeginAssign(n, super, p) \/ BeginNested(n, super, p)
            \/ \E outer \in Envs : Call(outer)
            \/ Unwind /\ Top.prom # Nil
  <2>1. cell' = cell /\ ref' = ref
    BY <1>11 DEF Pop, StoreInner, MakeClosure, GetVar, ForcePromise, GetElem,
                 BeginAssign, BeginNested, Call, Unwind, Unchanged_heap
  <2> QED BY <1>1, <2>1 DEF Intact
<1> QED BY <1>2, <1>3, <1>4, <1>5, <1>6, <1>7, <1>8, <1>9, <1>10, <1>11 DEF Next

\* The guard of a write in place finds the object in one place at most.
LEMMA ObjectPrivate ==
    ASSUME IInv, WritesInPlace
    PROVE  /\ Obj \in Handle
           /\ Cardinality(Places(Obj)) \in Nat /\ Cardinality(Places(Obj)) <= 1
<1>1. ReadyToWrite /\ MayMutate(Obj)
  BY DEF WritesInPlace, WriteAtomInPlace, WriteListInPlace
<1>2. Obj \in Handle
  BY <1>1, WriteTyped DEF IInv
<1>3. rc[Obj] \in Nat /\ rc[Obj] <= 1 /\ rc[Obj] # RefMax
  BY <1>1, <1>2, HeapAssumption DEF IInv, TypeOK, MayMutate
<1>4. rc[Obj] >= Cardinality(Places(Obj))
  BY <1>2, <1>3 DEF IInv, RefcountSound
<1>5. Cardinality(Places(Obj)) \in Nat
  BY HeldFinite DEF Places, Held
<1> QED BY <1>2, <1>3, <1>4, <1>5

\* Whatever the program, an object is written where it stands only if at most
\* one binding, element, promise or argument list holds it (may_mutate with
\* with_data_mut and set_list_elements).
THEOREM InPlaceIsPrivate == Spec => WritesArePrivate
<1> DEFINE Private == \A h \in Handle : Changed(h) => Cardinality(Places(h)) <= 1
<1>1. IInv /\ [Next]_vars => [Private]_vars
  <2> SUFFICES ASSUME IInv, [Next]_vars PROVE Private \/ UNCHANGED vars
    OBVIOUS
  <2>1. CASE Next
    <3>1. ASSUME NEW h \in Handle, Changed(h) PROVE Cardinality(Places(h)) <= 1
      BY <2>1, <3>1, StepChanges, ObjectPrivate DEF IInv
    <3> QED BY <3>1
  <2> QED BY <2>1
<1> HIDE DEF Private
<1>2. Spec => [][Private]_vars
  BY <1>1, InitInv, NextInv, PTL DEF Spec
<1> QED BY <1>2 DEF WritesArePrivate, Private

-----------------------------------------------------------------------------
(* Values and reachable objects: recursive functions over the levels of a  *)
(* list.                                                                    *)

Levels == 0..MaxObj
Elem(f, h, p) == f[<<"elem", h, p>>]

\* One level of Tree from the level below, for any kinds, contents and places.
TreeLevel(T, kd, cl, f) == [k \in Levels |-> [h \in Handle \cup {Nil} |->
    IF h = Nil THEN <<"null">>
    ELSE IF kd[h] = "atom" THEN <<"atom", cl[h]>>
    ELSE IF k = 0 THEN <<"deep">>
    ELSE <<"list", [p \in Positions |-> T[k - 1][Elem(f, h, p)]]>>]]

\* Tree is defined: some function of the levels agrees with its equation.
LEMMA TreeExists ==
    ASSUME NEW kd, NEW cl, NEW f \in Refs
    PROVE  \E T : T = TreeLevel(T, kd, cl, f)
<1> DEFINE H == Handle \cup {Nil}
           Level(T, k, h) ==
             IF h = Nil THEN <<"null">>
             ELSE IF kd[h] = "atom" THEN <<"atom", cl[h]>>
             ELSE IF k = 0 THEN <<"deep">>
             ELSE <<"list", [p \in Positions |-> T[k - 1][Elem(f, h, p)]]>>
           Upto(T, n) == T = [k \in 0..n |-> [h \in H |-> Level(T, k, h)]]
           Good == {n \in Nat : \E T : Upto(T, n)}
<1>1. \A h \in Handle, p \in Positions : Elem(f, h, p) \in H
  BY SlotMembers DEF Refs, Elem
<1>2. 0 \in Good
  <2> DEFINE T == [k \in 0..0 |-> [h \in H |->
             IF h = Nil THEN <<"null">>
             ELSE IF kd[h] = "atom" THEN <<"atom", cl[h]>>
             ELSE <<"deep">>]]
  <2>1. Upto(T, 0)
    <3>1. \A k \in 0..0, h \in H : Level(T, k, h) = 
             IF h = Nil THEN <<"null">>
             ELSE IF kd[h] = "atom" THEN <<"atom", cl[h]>>
             ELSE <<"deep">>
      OBVIOUS
    <3> HIDE DEF Level
    <3> QED BY <3>1
  <2> QED BY <2>1
<1>3. ASSUME NEW n \in Nat, n \in Good PROVE n + 1 \in Good
  <2>1. PICK T : Upto(T, n)
    BY <1>3
  <2> DEFINE U == [k \in 0..(n + 1) |-> [h \in H |-> Level(T, k, h)]]
  <2>2. \A k \in 0..n, h \in H : U[k][h] = T[k][h]
    <3> HIDE DEF Level, H
    <3>1. \A k \in 0..n : k \in 0..(n + 1)
      OBVIOUS
    <3>2. \A k \in 0..n, h \in H : U[k][h] = Level(T, k, h)
      BY <3>1
    <3>3. \A k \in 0..n, h \in H : T[k][h] = Level(T, k, h)
      BY <2>1
    <3> QED BY <3>2, <3>3
  <2>3. ASSUME NEW k \in 0..(n + 1), NEW h \in H
        PROVE  Level(T, k, h) = Level(U, k, h)
    <3>1. CASE h = Nil \/ k = 0 \/ kd[h] = "atom"
      BY <3>1
    <3>2. CASE h # Nil /\ k # 0 /\ kd[h] # "atom"
      <4>1. k - 1 \in 0..n /\ h \in Handle
        BY <3>2
      <4>2. \A p \in Positions : T[k - 1][Elem(f, h, p)] = U[k - 1][Elem(f, h, p)]
        <5> HIDE DEF U, Level
        <5> QED BY <4>1, <2>2, <1>1
      <4> HIDE DEF U
      <4>3. [p \in Positions |-> T[k - 1][Elem(f, h, p)]]
              = [p \in Positions |-> U[k - 1][Elem(f, h, p)]]
        BY <4>2
      <4> QED BY <3>2, <4>3
    <3> QED BY <3>1, <3>2
  <2>4. Upto(U, n + 1)
    <3> HIDE DEF Level
    <3> QED BY <2>3
  <2>5. \E V : Upto(V, n + 1)
    <3> HIDE DEF U, Upto
    <3> QED BY <2>4
  <2> HIDE DEF Upto
  <2> QED BY <2>5
<1> HIDE DEF Good
<1>4. MaxObj \in Good
  BY <1>2, <1>3, SetInduction, HeapAssumption
<1>5. PICK T : Upto(T, MaxObj)
  BY <1>4 DEF Good
<1> QED BY <1>5 DEF TreeLevel, Levels

\* So the value of an object is the equation's.
LEMMA TreeEquation ==
    ASSUME NEW kd, NEW cl, NEW f \in Refs, NEW T,
           T = CHOOSE t : t = TreeLevel(t, kd, cl, f)
    PROVE  T = TreeLevel(T, kd, cl, f)
BY TreeExists

\* The values before a step.
LEMMA TreeNow == ref \in Refs => Tree = TreeLevel(Tree, kind, cell, ref)
<1>1. Tree = CHOOSE t : t = TreeLevel(t, kind, cell, ref)
  BY DEF Tree, TreeLevel, Levels, Elem
<1> QED BY <1>1, TreeEquation

\* And after it.
LEMMA TreeNext == ref' \in Refs => Tree' = TreeLevel(Tree', kind', cell', ref')
<1>1. Tree' = CHOOSE t : t = TreeLevel(t, kind', cell', ref')
  BY DEF Tree, TreeLevel, Levels, Elem
<1> QED BY <1>1, TreeEquation

\* An object one level up has its own content, or the values of its elements.
Above(T, kd, cl, f, n, h) ==
    IF kd[h] = "atom" THEN <<"atom", cl[h]>>
    ELSE <<"list", [p \in Positions |-> T[n][Elem(f, h, p)]]>>

\* One level of the equation, read for one object.
LEMMA TreeAbove ==
    ASSUME NEW T, NEW kd, NEW cl, NEW f, T = TreeLevel(T, kd, cl, f),
           NEW n \in Levels, n + 1 \in Levels, NEW h \in Handle, h # Nil
    PROVE  T[n + 1][h] = Above(T, kd, cl, f, n, h)
<1>1. n \in Nat /\ n + 1 # 0 /\ (n + 1) - 1 = n
  BY HeapAssumption DEF Levels
<1> DEFINE R(k) == IF h = Nil THEN <<"null">>
    ELSE IF kd[h] = "atom" THEN <<"atom", cl[h]>>
    ELSE IF k = 0 THEN <<"deep">>
    ELSE <<"list", [p \in Positions |-> T[k - 1][Elem(f, h, p)]]>>
<1>2. T[n + 1][h] = R(n + 1)
  <2>1. TreeLevel(T, kd, cl, f)[n + 1][h] = R(n + 1)
    BY DEF TreeLevel
  <2> HIDE DEF R
  <2> QED BY <2>1
<1>3. R(n + 1) = Above(T, kd, cl, f, n, h)
  BY <1>1 DEF Above
<1> QED BY <1>2, <1>3

\* Objects whose contents and elements a step leaves alone, and whose elements
\* are such objects again, keep their values.
LEMMA TreeKept ==
    ASSUME ref \in Refs, ref' \in Refs, NEW U \in SUBSET Handle,
           \A h \in U : /\ kind'[h] = kind[h] /\ cell'[h] = cell[h]
                        /\ \A p \in Positions :
                             /\ Elem(ref', h, p) = Elem(ref, h, p)
                             /\ Elem(ref, h, p) \in U \cup {Nil}
    PROVE  \A h \in U \cup {Nil} : Tree'[MaxObj][h] = Tree[MaxObj][h]
<1> DEFINE Good == {n \in Nat : n \in Levels =>
                     \A h \in U \cup {Nil} : Tree'[n][h] = Tree[n][h]}
<1>1. /\ Tree = TreeLevel(Tree, kind, cell, ref)
      /\ Tree' = TreeLevel(Tree', kind', cell', ref')
  BY TreeNow, TreeNext
<1>2. 0 \in Levels /\ MaxObj \in Levels /\ MaxObj \in Nat
  BY HeapAssumption DEF Levels
<1>3. 0 \in Good
  <2>1. ASSUME NEW h \in U \cup {Nil} PROVE Tree'[0][h] = Tree[0][h]
    <3>1. /\ Tree[0][h] = IF h = Nil THEN <<"null">>
                          ELSE IF kind[h] = "atom" THEN <<"atom", cell[h]>> ELSE <<"deep">>
          /\ Tree'[0][h] = IF h = Nil THEN <<"null">>
                          ELSE IF kind'[h] = "atom" THEN <<"atom", cell'[h]>> ELSE <<"deep">>
      BY <1>1, <1>2 DEF TreeLevel
    <3> QED BY <3>1
  <2> QED BY <2>1
<1>4. ASSUME NEW n \in Nat, n \in Good PROVE n + 1 \in Good
  <2>1. ASSUME n + 1 \in Levels, NEW h \in U \cup {Nil}
        PROVE  Tree'[n + 1][h] = Tree[n + 1][h]
    <3>1. n \in Levels /\ (n + 1) - 1 = n /\ n + 1 # 0
      BY <1>2, <2>1 DEF Levels
    <3>2. \A g \in U \cup {Nil} : Tree'[n][g] = Tree[n][g]
      BY <1>4, <3>1
    <3>3. CASE h = Nil
      BY <1>1, <2>1, <3>3 DEF TreeLevel
    <3>4. CASE h # Nil
      <4>1. h \in U
        BY <3>4
      <4>2. \A p \in Positions : Tree[n][Elem(ref, h, p)] = Tree'[n][Elem(ref', h, p)]
        BY <4>1, <3>2
      <4>3. [p \in Positions |-> Tree[n][Elem(ref, h, p)]]
              = [p \in Positions |-> Tree'[n][Elem(ref', h, p)]]
        BY <4>2
      <4>4. h \in Handle /\ h # Nil
        BY <4>1, <3>4
      <4>5. Tree[n + 1][h] = Above(Tree, kind, cell, ref, n, h)
        BY <1>1, <2>1, <3>1, <4>4, TreeAbove
      <4>6. Tree'[n + 1][h] = Above(Tree', kind', cell', ref', n, h)
        BY <1>1, <2>1, <3>1, <4>4, TreeAbove
      <4> QED BY <4>1, <4>3, <4>5, <4>6 DEF Above
    <3> QED BY <3>3, <3>4
  <2> QED BY <2>1
<1> HIDE DEF Good
<1>5. MaxObj \in Good
  BY <1>2, <1>3, <1>4, SetInduction
<1> QED BY <1>2, <1>5 DEF Good

\* One level of Reach from the level below.
ReachLevel(R) == [k \in Levels |-> [h \in Handle |->
    IF k = 0 THEN {ref[<<"elem", h, p>>] : p \in Positions} \ {Nil}
    ELSE Inside(R[k - 1][h])]]

\* Reach is defined, as Tree is.
LEMMA ReachEquation == Reach = ReachLevel(Reach)
<1> DEFINE Level(R, k, h) ==
             IF k = 0 THEN {ref[<<"elem", h, p>>] : p \in Positions} \ {Nil}
             ELSE Inside(R[k - 1][h])
           Upto(R, n) == R = [k \in 0..n |-> [h \in Handle |-> Level(R, k, h)]]
           Good == {n \in Nat : \E R : Upto(R, n)}
<1>1. 0 \in Good
  <2> DEFINE R == [k \in 0..0 |-> [h \in Handle |->
                     {ref[<<"elem", h, p>>] : p \in Positions} \ {Nil}]]
  <2>1. \A k \in 0..0, h \in Handle :
          Level(R, k, h) = {ref[<<"elem", h, p>>] : p \in Positions} \ {Nil}
    OBVIOUS
  <2>2. Upto(R, 0)
    <3> HIDE DEF Level
    <3> QED BY <2>1
  <2>3. \E V : Upto(V, 0)
    <3> HIDE DEF R, Upto
    <3> QED BY <2>2
  <2> HIDE DEF Upto
  <2> QED BY <2>3
<1>2. ASSUME NEW n \in Nat, n \in Good PROVE n + 1 \in Good
  <2>1. PICK R : Upto(R, n)
    BY <1>2
  <2> DEFINE U == [k \in 0..(n + 1) |-> [h \in Handle |-> Level(R, k, h)]]
  <2>2. \A k \in 0..n, h \in Handle : U[k][h] = R[k][h]
    <3> HIDE DEF Level
    <3>1. \A k \in 0..n : k \in 0..(n + 1)
      OBVIOUS
    <3>2. \A k \in 0..n, h \in Handle : U[k][h] = Level(R, k, h)
      BY <3>1
    <3>3. \A k \in 0..n, h \in Handle : R[k][h] = Level(R, k, h)
      BY <2>1
    <3> QED BY <3>2, <3>3
  <2>3. ASSUME NEW k \in 0..(n + 1), NEW h \in Handle
        PROVE  Level(R, k, h) = Level(U, k, h)
    <3>1. CASE k = 0
      BY <3>1
    <3>2. CASE k # 0
      <4>1. k - 1 \in 0..n
        BY <3>2
      <4> HIDE DEF U
      <4>2. R[k - 1][h] = U[k - 1][h]
        BY <4>1, <2>2
      <4> QED BY <3>2, <4>2
    <3> QED BY <3>1, <3>2
  <2>4. Upto(U, n + 1)
    <3> HIDE DEF Level
    <3> QED BY <2>3
  <2>5. \E V : Upto(V, n + 1)
    <3> HIDE DEF U, Upto
    <3> QED BY <2>4
  <2> HIDE DEF Upto
  <2> QED BY <2>5
<1> HIDE DEF Good
<1>3. MaxObj \in Good
  BY <1>1, <1>2, SetInduction, HeapAssumption
<1>4. PICK R : Upto(R, MaxObj)
  BY <1>3 DEF Good
<1>5. R = ReachLevel(R)
  BY <1>4 DEF ReachLevel, Levels
<1>6. Reach = CHOOSE V : V = ReachLevel(V)
  BY DEF Reach, ReachLevel, Levels
<1> QED BY <1>5, <1>6

-----------------------------------------------------------------------------
(* No cycles.  The objects can be ranked so that a list ranks above its    *)
(* elements.                                                               *)

Ranking(r, f) ==
    \A h \in Handle, p \in Positions :
        Elem(f, h, p) # Nil => r[Elem(f, h, p)] < r[h]
Ranked(f) == \E n \in Nat : \E r \in [Handle -> 0..n] : Ranking(r, f)

\* What is reached from an object ranks below it, so never is the object.
LEMMA RankedAcyclic ==
    ASSUME TypeOK, Ranked(ref)
    PROVE  Acyclic
<1>1. PICK n \in Nat : \E r \in [Handle -> 0..n] : Ranking(r, ref)
  BY DEF Ranked
<1>2. PICK r \in [Handle -> 0..n] : Ranking(r, ref)
  BY <1>1
<1> DEFINE Lower(h) == {g \in Handle : r[g] < r[h]}
           Good == {k \in Nat : k \in Levels =>
                      \A h \in Handle : Reach[k][h] \subseteq Lower(h)}
<1>3. 0 \in Levels /\ MaxObj \in Levels /\ MaxObj \in Nat
  BY HeapAssumption DEF Levels
<1>4. \A h \in Handle, p \in Positions :
        ref[<<"elem", h, p>>] # Nil => ref[<<"elem", h, p>>] \in Lower(h)
  <2>1. \A h \in Handle, p \in Positions : ref[<<"elem", h, p>>] \in Handle \cup {Nil}
    BY SlotMembers DEF TypeOK
  <2> QED BY <1>2, <2>1 DEF Ranking, Elem
<1>5. 0 \in Good
  <2>1. ASSUME NEW h \in Handle PROVE Reach[0][h] \subseteq Lower(h)
    <3>1. Reach[0][h] = {ref[<<"elem", h, p>>] : p \in Positions} \ {Nil}
      BY <1>3, ReachEquation DEF ReachLevel
    <3> QED BY <3>1, <1>4
  <2> QED BY <2>1
<1>6. ASSUME NEW k \in Nat, k \in Good PROVE k + 1 \in Good
  <2>1. ASSUME k + 1 \in Levels, NEW h \in Handle
        PROVE  Reach[k + 1][h] \subseteq Lower(h)
    <3>1. k \in Levels /\ (k + 1) - 1 = k /\ k + 1 # 0
      BY <1>3, <2>1 DEF Levels
    <3>2. Reach[k][h] \subseteq Lower(h)
      BY <1>6, <3>1
    <3>3. Reach[k + 1][h] = Inside(Reach[k][h])
      <4>1. ReachLevel(Reach)[k + 1][h] = Inside(Reach[(k + 1) - 1][h])
        BY <2>1, <3>1 DEF ReachLevel
      <4> QED BY <3>1, <4>1, ReachEquation
    <3>4. ASSUME NEW x \in Inside(Reach[k][h]) PROVE x \in Lower(h)
      <4>1. CASE x \in Reach[k][h]
        BY <4>1, <3>2
      <4>2. CASE x \notin Reach[k][h]
        <5>1. PICK g \in Reach[k][h], p \in Positions : x = ref[<<"elem", g, p>>]
          BY <4>2 DEF Inside
        <5>2. g \in Lower(h) /\ x # Nil
          BY <5>1, <3>2 DEF Inside
        <5>3. x \in Lower(g)
          BY <5>1, <5>2, <1>4
        <5>4. r[x] \in Int /\ r[g] \in Int /\ r[h] \in Int
          BY <5>2, <5>3
        <5> QED BY <5>2, <5>3, <5>4
      <4> QED BY <4>1, <4>2
    <3> QED BY <3>3, <3>4
  <2> QED BY <2>1
<1> HIDE DEF Good
<1>7. MaxObj \in Good
  BY <1>3, <1>5, <1>6, SetInduction
<1>8. ASSUME NEW h \in 1..len PROVE h \notin Reach[MaxObj][h]
  <2>1. h \in Handle
    BY HeapAssumption DEF Handle, TypeOK
  <2>2. Reach[MaxObj][h] \subseteq Lower(h)
    BY <1>3, <1>7, <2>1 DEF Good
  <2>3. r[h] \in Int
    BY <2>1
  <2> QED BY <2>2, <2>3
<1> QED BY <1>8 DEF Acyclic

\* An object that no list holds may take any elements but itself: it is ranked
\* above all others.
LEMMA RankedAbove ==
    ASSUME NEW f \in Refs, NEW g \in Refs, Ranked(f), NEW o \in Handle,
           \A h \in Handle, p \in Positions :
               /\ h # o => Elem(g, h, p) = Elem(f, h, p)
               /\ Elem(g, h, p) # o
    PROVE  Ranked(g)
<1>1. PICK n \in Nat : \E r \in [Handle -> 0..n] : Ranking(r, f)
  BY DEF Ranked
<1>2. PICK r \in [Handle -> 0..n] : Ranking(r, f)
  BY <1>1
<1> DEFINE q == [r EXCEPT ![o] = n + 1]
<1>3. n + 1 \in Nat /\ q \in [Handle -> 0..(n + 1)]
  OBVIOUS
<1>4. ASSUME NEW h \in Handle, NEW p \in Positions, Elem(g, h, p) # Nil
      PROVE  q[Elem(g, h, p)] < q[h]
  <2>1. Elem(g, h, p) \in Handle /\ Elem(g, h, p) # o
    BY <1>4, SlotMembers DEF Refs, Elem
  <2>2. q[Elem(g, h, p)] = r[Elem(g, h, p)] /\ r[Elem(g, h, p)] \in 0..n
    BY <2>1
  <2>3. CASE h = o
    BY <2>2, <2>3
  <2>4. CASE h # o
    <3>1. Elem(g, h, p) = Elem(f, h, p) /\ q[h] = r[h]
      BY <2>4
    <3> QED BY <1>2, <1>4, <2>2, <3>1 DEF Ranking
  <2> QED BY <2>3, <2>4
<1>5. Ranking(q, g)
  BY <1>4 DEF Ranking
<1> HIDE DEF q
<1> QED BY <1>3, <1>5 DEF Ranked

\* Ranks do not depend on the places that are not elements.
LEMMA RankedSame ==
    ASSUME NEW f, NEW g, Ranked(f),
           \A h \in Handle, p \in Positions : Elem(g, h, p) = Elem(f, h, p)
    PROVE  Ranked(g)
BY DEF Ranked, Ranking

-----------------------------------------------------------------------------
(* What the heap holds.  Operands, elements and remembered values are      *)
(* allocated objects and never promises.                                   *)

Plain == {h \in 1..len : kind[h] # "promise"}

PlainPlaces ==
    /\ \A s \in Slot : ref[s] \in 1..len \cup {Nil}
    /\ \A s \in ElemSlot \cup MemoSlot : ref[s] \in Plain \cup {Nil}
PlainStacks == \A d \in Depth : frames[d].stack \in Seq(Plain)

\* The heap grows at its end, if at all.
LEMMA StepAllocates ==
    ASSUME Next
    PROVE  \/ UNCHANGED <<len, kind>>
           \/ \E h \in Handle, k \in {"atom", "list", "promise"} : Alloc(h, k)
BY DEF Next, Literal, List, Pop, GetVar, Rm, ForcePromise, GetElem, SetVar,
       BeginAssign, BeginNested, WriteAtomInPlace, WriteListInPlace, RebuildAtom,
       RebuildList, Store, StoreInner, Call, CallWith, MakeClosure, Return,
       ReturnForced, Unwind, LeaveClosure, Unchanged_heap

\* An allocated object keeps its kind.
LEMMA HeapGrows ==
    ASSUME TypeOK, UNCHANGED <<len, kind>> \/ \E h \in Handle, k \in Kinds : Alloc(h, k)
    PROVE  /\ \A h \in 1..len : h \in 1..len' /\ kind'[h] = kind[h]
           /\ Plain \subseteq Plain' /\ Seq(Plain) \subseteq Seq(Plain')
           /\ 1..len \subseteq Handle
<1>1. len \in Nat /\ 1..len \subseteq Handle
  BY HeapAssumption DEF TypeOK, Handle
<1>2. \A h \in 1..len : h \in 1..len' /\ kind'[h] = kind[h]
  <2>1. CASE UNCHANGED <<len, kind>>
    BY <2>1
  <2>2. CASE \E h \in Handle, k \in Kinds : Alloc(h, k)
    <3>1. PICK h \in Handle, k \in Kinds : Alloc(h, k)
      BY <2>2
    <3>2. h = len + 1 /\ len' = h /\ kind' = [kind EXCEPT ![h] = k]
      BY <3>1 DEF Alloc
    <3> QED BY <1>1, <3>2 DEF TypeOK
  <2> QED BY <2>1, <2>2
<1>3. Plain \subseteq Plain'
  BY <1>2 DEF Plain
<1>4. Seq(Plain) \subseteq Seq(Plain')
  <2>1. ASSUME NEW st \in Seq(Plain) PROVE st \in Seq(Plain')
    <3> DEFINE P == Plain
               Q == Plain'
    <3> HIDE DEF P, Q
    <3>1. st \in Seq(P) /\ P \subseteq Q
      BY <2>1, <1>3 DEF P, Q
    <3>2. st \in Seq(Q)
      BY <3>1
    <3> QED BY <3>2 DEF Q
  <2> QED BY <2>1
<1> QED BY <1>1, <1>2, <1>3, <1>4

\* The same of any step.
LEMMA StepGrows ==
    ASSUME TypeOK, Next
    PROVE  /\ \A h \in 1..len : h \in 1..len' /\ kind'[h] = kind[h]
           /\ Plain \subseteq Plain' /\ Seq(Plain) \subseteq Seq(Plain')
           /\ 1..len \subseteq Handle
<1>1. UNCHANGED <<len, kind>> \/ \E h \in Handle, k \in Kinds : Alloc(h, k)
  BY StepAllocates DEF Kinds
<1> QED BY <1>1, HeapGrows

\* A new object other than a promise is plain.
LEMMA NewPlain ==
    ASSUME TypeOK, NEW h \in Handle, NEW k \in {"atom", "list"}, Alloc(h, k)
    PROVE  h \in Plain' /\ h \notin 1..len /\ h = len'
<1>1. h = len + 1 /\ len' = h /\ kind' = [kind EXCEPT ![h] = k] /\ len \in Nat
  BY HeapAssumption DEF Alloc, TypeOK
<1>2. kind'[h] = k /\ k # "promise"
  BY <1>1 DEF TypeOK
<1> QED BY <1>1, <1>2 DEF Plain

\* What a read answers is plain.
LEMMA ReadsPlain ==
    ASSUME TypeOK, PlainPlaces, NEW n \in Names, NEW r, NEW h, Reads(n, r, h)
    PROVE  h \in Plain /\ \E s \in Slot \ ElemSlot : ref[s] = h
<1>1. r \in Envs /\ h \in Handle
  BY ReadsTyped
<1>2. Binding(r, n) \in Slot
  BY <1>1, SlotMembers
<1> DEFINE b == ref[Binding(r, n)]
<1>3. b \in 1..len /\ b \in Handle /\ h = Forced(b)
  <2>1. b # Nil /\ b \in 1..len \cup {Nil} /\ h = Forced(b)
    BY <1>2 DEF Reads, Resolves, PlainPlaces, Forced
  <2> QED BY <2>1, <1>2 DEF TypeOK
<1> HIDE DEF b
<1>4. CASE kind[b] = "promise"
  <2>1. <<"memo", b>> \in MemoSlot /\ <<"memo", b>> \in Slot \ ElemSlot
    BY <1>3 DEF MemoSlot, ElemSlot, Slot
  <2>2. h = ref[<<"memo", b>>] /\ h # Nil
    BY <1>3, <1>4 DEF Forced, Reads
  <2> QED BY <2>1, <2>2 DEF PlainPlaces
<1>5. CASE kind[b] # "promise"
  <2>1. h = b
    BY <1>1, <1>3, <1>5, HeapAssumption DEF Forced
  <2>2. Binding(r, n) \notin ElemSlot
    BY DEF Binding, ElemSlot
  <2> QED BY <1>2, <1>3, <1>5, <2>1, <2>2 DEF Plain, b
<1> QED BY <1>4, <1>5

\* The running frame's operands are plain.
LEMMA StackPlain ==
    ASSUME TypeOK, PlainStacks
    PROVE  /\ Stack \in Seq(Plain) /\ Len(Stack) \in Nat
           /\ \A i \in 1..Len(Stack) : Stack[i] \in Plain
           /\ \A k \in 0..Len(Stack) : SubSeq(Stack, 1, k) \in Seq(Plain)
           /\ HasOperand => Operand \in Plain
           /\ ReadyToWrite => Obj \in Plain /\ Val \in Plain /\ Below \in Seq(Plain)
<1>1. Stack \in Seq(Plain)
  BY DEF PlainStacks, Stack, Top, TypeOK
<1>2. Len(Stack) \in Nat /\ \A i \in 1..Len(Stack) : Stack[i] \in Plain
  BY <1>1
<1>3. \A k \in 0..Len(Stack) : SubSeq(Stack, 1, k) \in Seq(Plain)
  <2>1. ASSUME NEW k \in 0..Len(Stack) PROVE SubSeq(Stack, 1, k) \in Seq(Plain)
    <3>1. \A i \in 1..k : Stack[i] \in Plain
      BY <1>2
    <3> QED BY <1>1, <3>1
  <2> QED BY <2>1
<1>4. HasOperand => Operand \in Plain
  BY <1>2, OperandTyped DEF Operand
<1>5. ASSUME ReadyToWrite PROVE Obj \in Plain /\ Val \in Plain /\ Below \in Seq(Plain)
  <2>1. Len(Stack) = Target.base /\ Target.base \in Nat \ {0, 1}
    BY <1>5, TargetTyped DEF ReadyToWrite
  <2>2. Target.base \in 1..Len(Stack) /\ Target.base - 1 \in 1..Len(Stack)
        /\ Target.base - 2 \in 0..Len(Stack)
    BY <2>1
  <2> QED BY <1>2, <1>3, <2>2 DEF Obj, Val, Below
<1> QED BY <1>1, <1>2, <1>3, <1>4, <1>5

\* Places and stacks that a step leaves alone stay plain.
LEMMA PlainSame ==
    ASSUME TypeOK, PlainPlaces, Next, ref' = ref
    PROVE  PlainPlaces'
BY StepGrows DEF PlainPlaces

\* One place takes an allocated object, a plain one if it is not a binding.
LEMMA PlainSet ==
    ASSUME TypeOK, PlainPlaces, Next, NEW s \in Slot, NEW v \in Plain' \cup {Nil},
           ref' = [ref EXCEPT ![s] = v]
    PROVE  PlainPlaces'
<1>1. Plain' \subseteq 1..len'
  BY DEF Plain
<1>2. ASSUME NEW t \in Slot PROVE ref'[t] = IF t = s THEN v ELSE ref[t]
  BY DEF TypeOK
<1>3. \A t \in Slot : ref'[t] \in 1..len' \cup {Nil}
  BY <1>1, <1>2, StepGrows DEF PlainPlaces
<1>4. ElemSlot \cup MemoSlot \subseteq Slot
  BY DEF Slot
<1>5. \A t \in ElemSlot \cup MemoSlot : ref'[t] \in Plain' \cup {Nil}
  BY <1>2, <1>4, StepGrows DEF PlainPlaces
<1> QED BY <1>3, <1>5 DEF PlainPlaces

\* Places are emptied.
LEMMA PlainCleared ==
    ASSUME TypeOK, PlainPlaces, Next, NEW S, ref' = Cleared(S)
    PROVE  PlainPlaces'
<1>1. ASSUME NEW t \in Slot PROVE ref'[t] = ref[t] \/ ref'[t] = Nil
  BY DEF Cleared
<1>2. ElemSlot \cup MemoSlot \subseteq Slot
  BY DEF Slot
<1> QED BY <1>1, <1>2, StepGrows DEF PlainPlaces

\* A rebuilt list holds elements of the old one and the value written.
LEMMA RebuiltPlain ==
    ASSUME TypeOK, PlainPlaces, PlainStacks, ReadyToWrite, NEW h \in Handle,
           NEW s \in Slot
    PROVE  Rebuilt(h)[s] = ref[s] \/ Rebuilt(h)[s] \in Plain \cup {Nil}
<1>1. Val \in Plain /\ Obj \in Plain /\ Plain \subseteq Handle
  BY StackPlain, HeapAssumption DEF TypeOK, Handle, Plain
<1>2. CASE s \notin Elements(h)
  BY <1>2 DEF Rebuilt
<1>3. CASE s \in Elements(h)
  <2>1. PICK p \in Positions : s = <<"elem", h, p>> /\ s[3] = p
    BY <1>3 DEF Elements
  <2>2. <<"elem", Obj, p>> \in ElemSlot
    BY <1>1 DEF ElemSlot
  <2>3. ref[<<"elem", Obj, p>>] \in Plain \cup {Nil}
    BY <2>2 DEF PlainPlaces
  <2> QED BY <1>1, <1>3, <2>1, <2>3 DEF Rebuilt
<1> QED BY <1>2, <1>3

\* No step puts a promise, or an object that is not there, where a value belongs.
LEMMA PlacesNext ==
    ASSUME TypeOK, PlainPlaces, PlainStacks, Next
    PROVE  PlainPlaces'
<1>1. Plain \subseteq Plain' /\ 1..len \subseteq Handle
  BY StepGrows
<1>2. CASE \/ Literal \/ Pop \/ WriteAtomInPlace \/ RebuildAtom \/ StoreInner
           \/ MakeClosure
           \/ \E n \in Names : GetVar(n) \/ ForcePromise(n)
           \/ \E p \in Positions : GetElem(p)
           \/ \E n \in Names, super \in BOOLEAN, p \in Positions :
                  BeginAssign(n, super, p) \/ BeginNested(n, super, p)
           \/ \E outer \in Envs : Call(outer)
           \/ Unwind /\ Top.prom # Nil
  <2>1. ref' = ref
    BY <1>2 DEF Literal, Pop, WriteAtomInPlace, RebuildAtom, StoreInner,
         MakeClosure, GetVar, ForcePromise, GetElem, BeginAssign, BeginNested,
         Call, Unwind
  <2> QED BY <2>1, PlainSame
<1>3. CASE List
  <2>1. PICK h \in Handle, p \in Positions :
          ref' = [ref EXCEPT ![<<"elem", h, p>>] = Operand]
    BY <1>3 DEF List
  <2>2. Operand \in Plain' /\ <<"elem", h, p>> \in Slot
    BY <1>1, <1>3, StackPlain, SlotMembers DEF List
  <2> QED BY <2>1, <2>2, PlainSet
<1>4. CASE \/ \E n \in Names, super \in BOOLEAN : SetVar(n, super)
           \/ Store
  <2>1. PICK r \in Envs, m \in Names :
          ref' = [ref EXCEPT ![Binding(r, m)] = Operand]
    BY <1>4, TargetTyped DEF SetVar, Store
  <2>2. Operand \in Plain
    <3>1. CASE Store
      <4>1. Len(Stack) \in 1..Len(Stack)
        BY <3>1, ResultTyped DEF Store
      <4> QED BY <4>1, StackPlain DEF Operand
    <3>2. CASE \E n \in Names, super \in BOOLEAN : SetVar(n, super)
      BY <3>2, StackPlain DEF SetVar
    <3> QED BY <1>4, <3>1, <3>2
  <2> QED BY <1>1, <2>1, <2>2, PlainSet, SlotMembers
<1>5. CASE \E n \in Names : Rm(n)
  <2>1. PICK n \in Names : ref' = [ref EXCEPT ![Binding(Top.env, n)] = Nil]
    BY <1>5 DEF Rm
  <2> QED BY <2>1, PlainSet, SlotMembers, TopTyped
<1>6. CASE WriteListInPlace
  <2>1. /\ ref' = [ref EXCEPT ![<<"elem", Obj, Target.pos>>] = Val]
        /\ ReadyToWrite /\ Assigning
    BY <1>6 DEF WriteListInPlace, ReadyToWrite
  <2>2. Val \in Plain' /\ <<"elem", Obj, Target.pos>> \in Slot
    BY <1>1, <2>1, StackPlain, SlotMembers, TargetTyped, WriteTyped
  <2> QED BY <2>1, <2>2, PlainSet
<1>7. CASE RebuildList
  <2>1. PICK h \in Handle : ref' = Rebuilt(h)
    BY <1>7 DEF RebuildList
  <2>3. \A s \in Slot : ref'[s] = ref[s] \/ ref'[s] \in Plain \cup {Nil}
    BY <1>7, <2>1, RebuiltPlain DEF RebuildList
  <2>4. Plain' \subseteq 1..len' /\ ElemSlot \cup MemoSlot \subseteq Slot
    BY DEF Plain, Slot
  <2>5. \A s \in Slot : ref'[s] \in 1..len' \cup {Nil}
    BY <1>1, <2>3, <2>4, StepGrows DEF PlainPlaces
  <2>6. \A s \in ElemSlot \cup MemoSlot : ref'[s] \in Plain' \cup {Nil}
    BY <1>1, <2>3, <2>4 DEF PlainPlaces
  <2> QED BY <2>5, <2>6 DEF PlainPlaces
<1>8. CASE \E outer \in Envs, n \in Names : CallWith(outer, n)
  <2>1. PICK outer \in Envs, n \in Names : CallWith(outer, n)
    BY <1>8
  <2>2. PICK e \in Envs, h \in Handle :
          /\ Alloc(h, "promise")
          /\ ref' = [ref EXCEPT ![Binding(e, n)] = h, ![<<"arg", depth + 1>>] = h]
    BY <2>1 DEF CallWith
  <2>3. h = len' /\ len' \in 1..len'
    BY <2>2, HeapAssumption DEF Alloc, TypeOK
  <2>4. \A s \in Slot : ref'[s] = ref[s] \/ ref'[s] = h
    BY <2>2 DEF TypeOK
  <2>5. \A s \in ElemSlot \cup MemoSlot :
          s \in Slot /\ s # Binding(e, n) /\ s # <<"arg", depth + 1>>
    BY DEF ElemSlot, MemoSlot, Slot, Binding
  <2>6. \A s \in ElemSlot \cup MemoSlot : s \in Slot /\ ref'[s] = ref[s]
    BY <2>2, <2>5 DEF TypeOK
  <2>7. \A s \in Slot : ref'[s] \in 1..len' \cup {Nil}
    BY <2>3, <2>4, StepGrows DEF PlainPlaces
  <2> QED BY <1>1, <2>6, <2>7 DEF PlainPlaces
<1>9. CASE Return \/ (Unwind /\ Top.prom = Nil)
  <2>1. LeaveClosure
    BY <1>9 DEF Return, Unwind
  <2> QED BY <2>1, PlainCleared DEF LeaveClosure
<1>10. CASE ReturnForced
  <2>1. ref' = [ref EXCEPT ![<<"memo", Top.prom>>] = Operand]
    BY <1>10 DEF ReturnForced
  <2>2. Operand \in Plain' /\ <<"memo", Top.prom>> \in Slot
    BY <1>1, <1>10, StackPlain, SlotMembers, TopTyped DEF ReturnForced, Frame
  <2> QED BY <2>1, <2>2, PlainSet
<1> QED BY <1>2, <1>3, <1>4, <1>5, <1>6, <1>7, <1>8, <1>9, <1>10 DEF Next

-----------------------------------------------------------------------------
(* What a frame's pending assignments rest on: their operands stay on the  *)
(* stack, one above the other, until they are written.                      *)

Spaced(pd) ==
    \A i \in DOMAIN pd :
        /\ pd[i].base > 2
        /\ \A j \in DOMAIN pd : i < j => pd[i].base + 2 <= pd[j].base

\* The object of an inner assignment is pinned; the value is the duplicate of
\* the operand below it, or else another object than the one written into.
Rests(st, t, K) ==
    /\ t.base <= Len(st)
    /\ t.inner => st[t.base] \in K
    /\ st[t.base - 1] = st[t.base - 2] \/ st[t.base - 1] # st[t.base]

FrameKept(f, K) ==
    /\ Spaced(f.pend)
    /\ \A i \in DOMAIN f.pend :
        /\ f.pend[i].written => Len(f.stack) = f.pend[i].base - 1
        /\ ~f.pend[i].written => Rests(f.stack, f.pend[i], K)

\* The same operands, up to an assignment's object, on another stack.
LEMMA RestsPrefix ==
    ASSUME NEW st, NEW su, NEW t, NEW K, NEW L, K \subseteq L, t.base \in Nat, t.base > 2,
           Rests(st, t, K), t.base <= Len(su),
           \A k \in 1..t.base : su[k] = st[k]
    PROVE  Rests(su, t, L)
<1>1. t.base \in 1..t.base /\ t.base - 1 \in 1..t.base /\ t.base - 2 \in 1..t.base
  OBVIOUS
<1>2. su[t.base] = st[t.base] /\ su[t.base - 1] = st[t.base - 1]
      /\ su[t.base - 2] = st[t.base - 2]
  BY <1>1
<1>3. t.inner => su[t.base] \in L
  BY <1>2 DEF Rests
<1>4. su[t.base - 1] = su[t.base - 2] \/ su[t.base - 1] # su[t.base]
  BY <1>2 DEF Rests
<1> QED BY <1>3, <1>4 DEF Rests

\* More pinned objects do no harm.
LEMMA FrameMore ==
    ASSUME NEW f, NEW K, NEW L, K \subseteq L, FrameKept(f, K)
    PROVE  FrameKept(f, L)
BY DEF FrameKept, Rests

\* The pending assignments of a frame are typed.
LEMMA PendTyped ==
    ASSUME NEW f \in Frame
    PROVE  /\ f.pend \in Seq(Pending) /\ Len(f.pend) \in Nat
           /\ DOMAIN f.pend = 1..Len(f.pend)
           /\ f.stack \in Seq(Handle) /\ Len(f.stack) \in Nat
           /\ \A i \in DOMAIN f.pend : f.pend[i] \in Pending /\ f.pend[i].base \in Nat
<1>1. f.pend \in Seq(Pending) /\ f.stack \in Seq(Handle)
  BY DEF Frame
<1>2. \A i \in DOMAIN f.pend : f.pend[i] \in Pending
  BY <1>1
<1> QED BY <1>1, <1>2 DEF Pending

\* Instructions above the pending operands leave the frame as it should be.
LEMMA KeptAbove ==
    ASSUME NEW f \in Frame, NEW g \in Frame, NEW K, NEW L, K \subseteq L,
           FrameKept(f, K), g.pend = f.pend,
           \A i \in DOMAIN f.pend : ~f.pend[i].written,
           \A i \in DOMAIN f.pend : f.pend[i].base <= Len(g.stack),
           \A i \in DOMAIN f.pend : \A k \in 1..f.pend[i].base :
               g.stack[k] = f.stack[k]
    PROVE  FrameKept(g, L)
<1>1. ASSUME NEW i \in DOMAIN f.pend PROVE Rests(g.stack, f.pend[i], L)
  <2>1. f.pend[i].base \in Nat /\ f.pend[i].base > 2
    BY PendTyped DEF FrameKept, Spaced
  <2>2. Rests(f.stack, f.pend[i], K)
    BY DEF FrameKept
  <2> QED BY <2>1, <2>2, RestsPrefix
<1> QED BY <1>1 DEF FrameKept

\* No pending assignment reaches above the floor of the innermost one.
LEMMA BelowFloor ==
    ASSUME TypeOK, NEW K, FrameKept(Top, K)
    PROVE  /\ \A i \in DOMAIN Top.pend : Top.pend[i].base <= Floor
           /\ \A i \in DOMAIN Top.pend :
                i # Len(Top.pend) => Top.pend[i].base + 2 <= Floor
           /\ Floor \in Nat /\ Top \in Frame
<1>1. Top \in Frame
  BY TopTyped
<1>2. CASE Top.pend = <<>>
  BY <1>1, <1>2 DEF Floor, Assigning
<1>3. CASE Top.pend # <<>>
  <2>1. /\ Floor = Top.pend[Len(Top.pend)].base /\ Len(Top.pend) \in DOMAIN Top.pend
        /\ Floor \in Nat
    BY <1>1, <1>3, PendTyped, TargetTyped DEF Floor, Assigning, Target
  <2>2. ASSUME NEW i \in DOMAIN Top.pend, i # Len(Top.pend)
        PROVE  Top.pend[i].base + 2 <= Floor
    <3>1. i < Len(Top.pend)
      BY <1>1, <2>2, PendTyped
    <3> QED BY <2>1, <3>1 DEF FrameKept, Spaced
  <2>3. ASSUME NEW i \in DOMAIN Top.pend PROVE Top.pend[i].base <= Floor
    <3>1. Top.pend[i].base \in Nat
      BY <1>1, PendTyped
    <3> QED BY <2>1, <2>2, <3>1
  <2> QED BY <1>1, <2>1, <2>2, <2>3
<1> QED BY <1>2, <1>3

\* A complex assignment begins above the operands of those that wait.
LEMMA KeptBegin ==
    ASSUME TypeOK, HasOperand, NEW K, NEW L, K \subseteq L, FrameKept(Top, K),
           NEW t \in Pending, ~t.written, t.base = Len(Stack) + 2,
           NEW obj \in Handle, t.inner => obj \in L,
           NEW g \in Frame, g.stack = Stack \o <<Operand, obj>>,
           g.pend = Append(Top.pend, t)
    PROVE  FrameKept(g, L)
<1>1. Floor \in Nat /\ Len(Stack) \in Nat /\ Floor < Len(Stack) /\ Stack \in Seq(Handle)
  BY BelowFloor, TopTyped DEF HasOperand
<1>2. Top \in Frame /\ Top.pend \in Seq(Pending) /\ Len(Top.pend) \in Nat
      /\ DOMAIN Top.pend = 1..Len(Top.pend)
  BY TopTyped, PendTyped
<1>3. \A i \in DOMAIN Top.pend :
        /\ ~Top.pend[i].written /\ Top.pend[i].base \in Nat
        /\ Top.pend[i].base <= Floor
  BY <1>2, NoneWritten, BelowFloor, PendTyped DEF HasOperand
<1> DEFINE n == Len(Top.pend)
<1>4. /\ DOMAIN g.pend = 1..(n + 1) /\ g.pend[n + 1] = t
      /\ \A i \in 1..n : g.pend[i] = Top.pend[i]
  BY <1>2
<1>5. <<Operand, obj>> \in Seq(Handle) /\ Len(<<Operand, obj>>) = 2
      /\ <<Operand, obj>>[1] = Operand /\ <<Operand, obj>>[2] = obj
  BY OperandTyped
<1>6. /\ Len(g.stack) = Len(Stack) + 2
      /\ \A k \in 1..Len(Stack) : g.stack[k] = Stack[k]
      /\ g.stack[Len(Stack) + 1] = Operand /\ g.stack[Len(Stack) + 2] = obj
  <2> DEFINE w == <<Operand, obj>>
  <2> HIDE DEF w
  <2>1. w \in Seq(Handle) /\ Len(w) = 2 /\ w[1] = Operand /\ w[2] = obj
        /\ g.stack = Stack \o w
    BY <1>5 DEF w
  <2>2. Len(g.stack) = Len(Stack) + 2
    BY <1>1, <2>1
  <2>3. \A k \in 1..Len(Stack) : g.stack[k] = Stack[k]
    BY <1>1, <2>1
  <2>4. g.stack[Len(Stack) + 1] = w[1] /\ g.stack[Len(Stack) + 2] = w[2]
    BY <1>1, <2>1
  <2> QED BY <2>1, <2>2, <2>3, <2>4
<1>7. Spaced(g.pend)
  <2>1. ASSUME NEW i \in DOMAIN g.pend, NEW j \in DOMAIN g.pend, i < j
        PROVE  g.pend[i].base + 2 <= g.pend[j].base
    <3>1. i \in 1..n /\ g.pend[i] = Top.pend[i]
      BY <1>2, <1>4, <2>1
    <3>2. CASE j = n + 1
      BY <1>1, <1>2, <1>3, <1>4, <3>1, <3>2, SMTT(30)
    <3>3. CASE j # n + 1
      <4>1. j \in 1..n /\ g.pend[j] = Top.pend[j]
        BY <1>2, <1>4, <3>3
      <4> QED BY <1>2, <2>1, <3>1, <4>1 DEF FrameKept, Spaced
    <3> QED BY <3>2, <3>3
  <2>2. ASSUME NEW i \in DOMAIN g.pend PROVE g.pend[i].base > 2
    <3>1. CASE i = n + 1
      BY <1>1, <1>4, <3>1
    <3>2. CASE i # n + 1
      <4>1. i \in 1..n /\ g.pend[i] = Top.pend[i]
        BY <1>2, <1>4, <3>2
      <4> QED BY <1>2, <4>1 DEF FrameKept, Spaced
    <3> QED BY <3>1, <3>2
  <2> QED BY <2>1, <2>2 DEF Spaced
<1>8. ASSUME NEW i \in DOMAIN g.pend
      PROVE  ~g.pend[i].written /\ Rests(g.stack, g.pend[i], L)
  <2>1. CASE i = n + 1
    <3>1. Operand = Stack[Len(Stack)] /\ Len(Stack) \in 1..Len(Stack)
      BY OperandTyped DEF Operand
    <3>2. t.base - 1 = Len(Stack) + 1 /\ t.base - 2 = Len(Stack) /\ t.base <= Len(g.stack)
      BY <1>1, <1>6
    <3>3. g.stack[t.base - 1] = g.stack[t.base - 2] /\ g.stack[t.base] = obj
      BY <1>6, <3>1, <3>2
    <3>4. Rests(g.stack, t, L)
      BY <3>2, <3>3 DEF Rests
    <3> QED BY <2>1, <3>4, <1>4
  <2>2. CASE i # n + 1
    <3>1. i \in DOMAIN Top.pend /\ g.pend[i] = Top.pend[i]
      BY <1>2, <1>4, <2>2
    <3> DEFINE u == Top.pend[i]
    <3>2. ~u.written /\ u.base \in Nat /\ u.base > 2 /\ u.base <= Floor
      BY <1>3, <3>1 DEF FrameKept, Spaced
    <3>3. Rests(Stack, u, K)
      BY <3>1, <3>2 DEF FrameKept, Stack
    <3> HIDE DEF u
    <3>4. u.base <= Len(g.stack) /\ \A k \in 1..u.base : g.stack[k] = Stack[k]
      BY <1>1, <1>6, <3>2
    <3>5. Rests(g.stack, u, L)
      BY <3>2, <3>3, <3>4, RestsPrefix
    <3> QED BY <3>1, <3>2, <3>5 DEF u
  <2> QED BY <2>1, <2>2
<1> QED BY <1>7, <1>8 DEF FrameKept

\* Once written, the result takes the place of the assignment's operands.
LEMMA KeptWritten ==
    ASSUME TypeOK, ReadyToWrite, NEW K, NEW L, K \subseteq L, FrameKept(Top, K),
           NEW t \in Pending, t.written, t.base = Target.base,
           NEW res \in Handle,
           NEW g \in Frame, g.stack = Append(Below, res),
           g.pend = [Top.pend EXCEPT ![Len(Top.pend)] = t]
    PROVE  FrameKept(g, L)
<1> DEFINE n == Len(Top.pend)
<1>1. Top \in Frame /\ Top.pend \in Seq(Pending) /\ n \in 1..n
      /\ DOMAIN Top.pend = 1..n /\ Target = Top.pend[n]
  BY TopTyped, PendTyped, TargetTyped DEF ReadyToWrite, Target
<1>2. /\ DOMAIN g.pend = 1..n /\ g.pend[n] = t
      /\ \A i \in 1..n : i # n => g.pend[i] = Top.pend[i]
  BY <1>1
<1>3. Len(Stack) = Target.base /\ Target.base \in Nat /\ Target.base > 2
      /\ Stack \in Seq(Handle) /\ Floor = Target.base
  BY <1>1, TargetTyped, TopTyped DEF ReadyToWrite, FrameKept, Spaced, Floor
<1>4. Len(Below) = Target.base - 2 /\ Below \in Seq(Handle)
      /\ \A k \in 1..(Target.base - 2) : Below[k] = Stack[k]
  BY <1>3, WriteTyped DEF Below
<1>5. Len(g.stack) = Target.base - 1
      /\ \A k \in 1..(Target.base - 2) : g.stack[k] = Stack[k]
  BY <1>3, <1>4
<1>6. \A i \in DOMAIN g.pend : g.pend[i].base = Top.pend[i].base
  BY <1>1, <1>2
<1>7. Spaced(g.pend)
  BY <1>1, <1>2, <1>6 DEF FrameKept, Spaced
<1>8. g.pend[n].written /\ Len(g.stack) = g.pend[n].base - 1
  BY <1>2, <1>5
<1>9. ASSUME NEW i \in DOMAIN g.pend, i # n
      PROVE  ~g.pend[i].written /\ Rests(g.stack, g.pend[i], L)
  <2>1. i \in DOMAIN Top.pend /\ g.pend[i] = Top.pend[i]
    BY <1>1, <1>2, <1>9
  <2> DEFINE u == Top.pend[i]
  <2>2. ~u.written
    BY <2>1, NoneWritten DEF ReadyToWrite, Free
  <2>3. u.base \in Nat /\ u.base > 2 /\ u.base + 2 <= Floor
    BY <1>1, <1>9, <2>1, PendTyped, BelowFloor DEF FrameKept, Spaced
  <2>4. Rests(Stack, u, K)
    BY <2>1, <2>2 DEF FrameKept, Stack
  <2> HIDE DEF u
  <2>5. u.base <= Len(g.stack) /\ \A k \in 1..u.base : g.stack[k] = Stack[k]
    BY <1>3, <1>5, <2>3
  <2>6. Rests(g.stack, u, L)
    BY <2>3, <2>4, <2>5, RestsPrefix
  <2> QED BY <2>1, <2>2, <2>6 DEF u
<1> QED BY <1>2, <1>7, <1>8, <1>9 DEF FrameKept

\* The result is stored and its assignment is through.
LEMMA KeptStored ==
    ASSUME TypeOK, Assigning, Target.written, NEW K, NEW L, K \subseteq L,
           FrameKept(Top, K),
           NEW g \in Frame, g.stack = SubSeq(Stack, 1, Len(Stack) - 1),
           g.pend = SubSeq(Top.pend, 1, Len(Top.pend) - 1)
    PROVE  FrameKept(g, L) /\ \A i \in DOMAIN g.pend : ~g.pend[i].written
<1> DEFINE n == Len(Top.pend)
<1>1. Top \in Frame /\ Top.pend \in Seq(Pending) /\ n \in 1..n
      /\ DOMAIN Top.pend = 1..n /\ Target = Top.pend[n]
  BY TopTyped, PendTyped, TargetTyped DEF Target
<1>2. /\ DOMAIN g.pend = 1..(n - 1)
      /\ \A i \in 1..(n - 1) : i \in DOMAIN Top.pend /\ i # n /\ g.pend[i] = Top.pend[i]
  BY <1>1
<1>3. /\ Len(Stack) = Target.base - 1 /\ Target.base \in Nat /\ Target.base > 2
      /\ Stack \in Seq(Handle) /\ Floor = Target.base
  BY <1>1, TargetTyped, TopTyped DEF FrameKept, Spaced, Floor, Stack
<1>4. Len(g.stack) = Target.base - 2
      /\ \A k \in 1..(Target.base - 2) : g.stack[k] = Stack[k]
  BY <1>3
<1>5. Spaced(g.pend)
  BY <1>1, <1>2 DEF FrameKept, Spaced
<1>6. ASSUME NEW i \in DOMAIN g.pend
      PROVE  ~g.pend[i].written /\ Rests(g.stack, g.pend[i], L)
  <2>1. i \in DOMAIN Top.pend /\ g.pend[i] = Top.pend[i] /\ i # n
    BY <1>2
  <2> DEFINE u == Top.pend[i]
  <2>2. ~u.written
    BY <2>1 DEF TypeOK, WrittenLast, Top
  <2>3. u.base \in Nat /\ u.base > 2 /\ u.base + 2 <= Floor
    BY <1>1, <2>1, PendTyped, BelowFloor DEF FrameKept, Spaced
  <2>4. Rests(Stack, u, K)
    BY <2>1, <2>2 DEF FrameKept, Stack
  <2> HIDE DEF u
  <2>5. u.base <= Len(g.stack) /\ \A k \in 1..u.base : g.stack[k] = Stack[k]
    BY <1>3, <1>4, <2>3
  <2>6. Rests(g.stack, u, L)
    BY <2>3, <2>4, <2>5, RestsPrefix
  <2> QED BY <2>1, <2>2, <2>6 DEF u
<1> QED BY <1>5, <1>6 DEF FrameKept

\* The inner element is rebuilt: the assignment to the variable takes over.
LEMMA KeptInner ==
    ASSUME TypeOK, Assigning, Target.written, NEW K, NEW L, K \subseteq L,
           FrameKept(Top, K),
           NEW t \in Pending, ~t.written, ~t.inner, t.base = Target.base,
           NEW h \in Handle, h # Operand,
           NEW g \in Frame, g.stack = Append(Stack, h),
           g.pend = [Top.pend EXCEPT ![Len(Top.pend)] = t]
    PROVE  FrameKept(g, L) /\ \A i \in DOMAIN g.pend : ~g.pend[i].written
<1> DEFINE n == Len(Top.pend)
<1>1. Top \in Frame /\ Top.pend \in Seq(Pending) /\ n \in 1..n
      /\ DOMAIN Top.pend = 1..n /\ Target = Top.pend[n]
  BY TopTyped, PendTyped, TargetTyped DEF Target
<1>2. /\ DOMAIN g.pend = 1..n /\ g.pend[n] = t
      /\ \A i \in 1..n : i # n => g.pend[i] = Top.pend[i]
  BY <1>1
<1>3. /\ Len(Stack) = Target.base - 1 /\ Target.base \in Nat /\ Target.base > 2
      /\ Stack \in Seq(Handle) /\ Floor = Target.base
  BY <1>1, TargetTyped, TopTyped DEF FrameKept, Spaced, Floor, Stack
<1>4. /\ Len(g.stack) = Target.base /\ g.stack[Target.base] = h
      /\ \A k \in 1..(Target.base - 1) : g.stack[k] = Stack[k]
  BY <1>3
<1>5. \A i \in DOMAIN g.pend : g.pend[i].base = Top.pend[i].base
  BY <1>1, <1>2
<1>6. Spaced(g.pend)
  BY <1>1, <1>2, <1>5 DEF FrameKept, Spaced
<1>7. Rests(g.stack, t, L)
  <2>1. g.stack[t.base - 1] = Operand
    BY <1>3, <1>4 DEF Operand
  <2> QED BY <1>3, <1>4, <2>1 DEF Rests
<1>8. ASSUME NEW i \in DOMAIN g.pend, i # n
      PROVE  ~g.pend[i].written /\ Rests(g.stack, g.pend[i], L)
  <2>1. i \in DOMAIN Top.pend /\ g.pend[i] = Top.pend[i]
    BY <1>1, <1>2, <1>8
  <2> DEFINE u == Top.pend[i]
  <2>2. ~u.written
    BY <1>8, <2>1 DEF TypeOK, WrittenLast, Top
  <2>3. u.base \in Nat /\ u.base > 2 /\ u.base + 2 <= Floor
    BY <1>1, <1>8, <2>1, PendTyped, BelowFloor DEF FrameKept, Spaced
  <2>4. Rests(Stack, u, K)
    BY <2>1, <2>2 DEF FrameKept, Stack
  <2> HIDE DEF u
  <2>5. u.base <= Len(g.stack) /\ \A k \in 1..u.base : g.stack[k] = Stack[k]
    BY <1>3, <1>4, <2>3
  <2>6. Rests(g.stack, u, L)
    BY <2>3, <2>4, <2>5, RestsPrefix
  <2> QED BY <2>1, <2>2, <2>6 DEF u
<1> QED BY <1>2, <1>6, <1>7, <1>8 DEF FrameKept

\* Objects whose count has stopped.
Sticky == {h \in Handle : rc[h] = RefMax}

Stops(r, q) == \A h \in Handle : r[h] = RefMax => q[h] = RefMax

\* No operation on counts starts one that stopped.
LEMMA RetainStops ==
    ASSUME NEW r, DOMAIN r = Handle, NEW h
    PROVE  Stops(r, Retain(r, h)) /\ DOMAIN Retain(r, h) = Handle
BY DEF Stops, Retain

\* A count that stopped is not released (release).
LEMMA ReleaseStops ==
    ASSUME NEW r, DOMAIN r = Handle, NEW h
    PROVE  Stops(r, Release(r, h)) /\ DOMAIN Release(r, h) = Handle
BY DEF Stops, Release

\* Nor by a binding that takes another value (bind_in).
LEMMA RebindStops ==
    ASSUME NEW r, DOMAIN r = Handle, NEW h, NEW g
    PROVE  Stops(r, Rebind(r, h, g))
<1>1. Stops(r, Release(r, h)) /\ DOMAIN Release(r, h) = Handle
  BY ReleaseStops
<1>2. Stops(Release(r, h), Retain(Release(r, h), g))
  BY <1>1, RetainStops
<1> QED BY <1>1, <1>2 DEF Stops, Rebind

\* No action starts a count that stopped.
LEMMA StepStops ==
    ASSUME TypeOK, Next
    PROVE  Stops(rc, rc')
<1>1. DOMAIN rc = Handle
  BY DEF TypeOK
<1>2. CASE rc' = rc
  BY <1>2 DEF Stops
<1>3. CASE List
  BY <1>1, <1>3, RetainStops DEF List
<1>4. CASE \/ \E n \in Names, super \in BOOLEAN : SetVar(n, super)
           \/ Store
  <2>1. PICK h, g : rc' = Rebind(rc, h, g)
    BY <1>4 DEF SetVar, Store
  <2> QED BY <1>1, <2>1, RebindStops
<1>5. CASE \E n \in Names, super \in BOOLEAN, p \in Positions :
             BeginAssign(n, super, p) \/ BeginNested(n, super, p)
  <2>1. rc' = rc \/ \E h : rc' = Pinned(h)
    BY <1>5 DEF BeginAssign, BeginNested
  <2> QED BY <1>1, <1>2, <2>1 DEF Pinned, Stops
<1>6. CASE WriteListInPlace
  <2>1. PICK h, g : rc' = Retain(Release(rc, h), g)
    BY <1>6 DEF WriteListInPlace
  <2>2. Stops(rc, Release(rc, h)) /\ DOMAIN Release(rc, h) = Handle
    BY <1>1, ReleaseStops
  <2>3. Stops(Release(rc, h), Retain(Release(rc, h), g))
    BY <2>2, RetainStops
  <2> QED BY <2>1, <2>2, <2>3 DEF Stops
<1>7. CASE RebuildList
  <2>1. PICK h \in Handle : rc' = RetainEach(rc, Elements(h), Rebuilt(h))
    BY <1>7 DEF RebuildList
  <2>2. Elements(h) \in SUBSET Slot
    BY <1>7, RebuiltTyped DEF RebuildList
  <2> DEFINE S == Elements(h)
             f == Rebuilt(h)
  <2>3. \A g \in Handle : Times(S, f, g) \in Nat
    <3>1. ASSUME NEW g \in Handle PROVE Times(S, f, g) \in Nat
      <4>1. {s \in S : f[s] = g} \in SUBSET Slot
        BY <2>2
      <4> QED BY <4>1, SlotFinite, FS_Subset, FS_CardinalityType DEF Times
    <3> QED BY <3>1
  <2> HIDE DEF S, f
  <2>4. Stops(rc, RetainEach(rc, S, f))
    BY <2>3, HeapAssumption DEF Stops, RetainEach
  <2> QED BY <2>1, <2>4 DEF S, f
<1>8. CASE \E outer \in Envs, n \in Names : CallWith(outer, n)
  <2>1. PICK h : rc' = Retain(Retain(rc, h), h)
    BY <1>8 DEF CallWith
  <2>2. Stops(rc, Retain(rc, h)) /\ DOMAIN Retain(rc, h) = Handle
    BY <1>1, RetainStops
  <2>3. Stops(Retain(rc, h), Retain(Retain(rc, h), h))
    BY <2>2, RetainStops
  <2> QED BY <2>1, <2>2, <2>3 DEF Stops
<1>9. CASE Return \/ (Unwind /\ Top.prom = Nil)
  <2> LeaveClosure
    BY <1>9 DEF Return, Unwind
  <2>1. PICK S, T : rc' = ReleaseEach(ReleaseEach(rc, S, ref), T, ref)
    BY DEF LeaveClosure
  <2>2. Stops(rc, ReleaseEach(rc, S, ref))
    BY DEF Stops, ReleaseEach
  <2> DEFINE q == ReleaseEach(rc, S, ref)
  <2> HIDE DEF q
  <2>3. Stops(q, ReleaseEach(q, T, ref))
    BY DEF Stops, ReleaseEach
  <2> QED BY <2>1, <2>2, <2>3 DEF Stops, q
<1>10. CASE ReturnForced
  BY <1>1, <1>10, RetainStops DEF ReturnForced
<1>11. CASE \/ Literal \/ Pop \/ WriteAtomInPlace \/ RebuildAtom \/ StoreInner
            \/ MakeClosure
            \/ \E n \in Names : GetVar(n) \/ ForcePromise(n) \/ Rm(n)
            \/ \E p \in Positions : GetElem(p)
            \/ \E outer \in Envs : Call(outer)
            \/ Unwind /\ Top.prom # Nil
  <2>1. rc' = rc
    BY <1>11 DEF Literal, Pop, WriteAtomInPlace, RebuildAtom, StoreInner, Rm,
         MakeClosure, GetVar, ForcePromise, GetElem, Call, Unwind
  <2> QED BY <2>1, <1>2
<1> QED BY <1>3, <1>4, <1>5, <1>6, <1>7, <1>8, <1>9, <1>10, <1>11 DEF Next

\* So the pinned objects stay pinned.
LEMMA StickyKept ==
    ASSUME TypeOK, Next
    PROVE  Sticky \subseteq Sticky'
BY StepStops DEF Stops, Sticky

\* Every frame's pending assignments have their operands; only the running
\* frame can have written one, and the result of an inner one is a new object.
PendingsKept == \A d \in Depth : FrameKept(frames[d], Sticky)
Unheld(f, h) == \A s \in Slot : f[s] # h
WrittenRuns ==
    \A d \in Depth : \A i \in DOMAIN frames[d].pend :
        frames[d].pend[i].written =>
            /\ d = depth
            /\ frames[d].pend[i].inner => Unheld(ref, frames[d].stack[Len(frames[d].stack)])

StackInv == PlainStacks /\ PendingsKept /\ WrittenRuns

\* In what follows the heap grew and no count started again.
Grown == /\ Seq(Plain) \subseteq Seq(Plain') /\ Plain \subseteq Plain'
         /\ Plain \subseteq Handle /\ Plain' \subseteq Handle
         /\ Sticky \subseteq Sticky'

\* Every step is such a step.
LEMMA StepGrown == ASSUME TypeOK, TypeOK', Next PROVE Grown
<1>1. Plain \subseteq Handle /\ Plain' \subseteq Handle
  BY HeapAssumption DEF TypeOK, Handle, Plain
<1> QED BY <1>1, StepGrows, StickyKept DEF Grown

\* The running frame changes.
LEMMA TopStep ==
    ASSUME TypeOK, StackInv, Grown, NEW g,
           frames' = [frames EXCEPT ![depth] = g], depth' = depth,
           g.stack \in Seq(Plain'), FrameKept(g, Sticky'),
           \A i \in DOMAIN g.pend :
               g.pend[i].written => (g.pend[i].inner => Unheld(ref', g.stack[Len(g.stack)]))
    PROVE  StackInv'
<1>1. depth \in Depth /\ frames'[depth] = g
      /\ \A d \in Depth : d # depth => frames'[d] = frames[d]
  BY DEF TypeOK
<1>2. PlainStacks'
  <2>1. ASSUME NEW d \in Depth PROVE frames'[d].stack \in Seq(Plain')
    <3>1. frames[d].stack \in Seq(Plain)
      BY DEF StackInv, PlainStacks
    <3> QED BY <1>1, <3>1 DEF Grown
  <2> QED BY <2>1 DEF PlainStacks
<1>3. PendingsKept'
  <2>1. ASSUME NEW d \in Depth PROVE FrameKept(frames'[d], Sticky')
    <3>1. FrameKept(frames[d], Sticky)
      BY DEF StackInv, PendingsKept
    <3>2. FrameKept(frames[d], Sticky')
      BY <3>1, FrameMore DEF Grown
    <3> QED BY <1>1, <3>2
  <2> QED BY <2>1 DEF PendingsKept
<1>4. WrittenRuns'
  <2>1. ASSUME NEW d \in Depth, NEW i \in DOMAIN frames'[d].pend,
               frames'[d].pend[i].written
        PROVE  /\ d = depth'
               /\ frames'[d].pend[i].inner
                    => Unheld(ref', frames'[d].stack[Len(frames'[d].stack)])
    <3>1. d = depth
      BY <1>1, <2>1 DEF StackInv, WrittenRuns
    <3> QED BY <1>1, <2>1, <3>1
  <2> QED BY <2>1 DEF WrittenRuns
<1> QED BY <1>2, <1>3, <1>4 DEF StackInv

\* The running frame replaces operands above the pending ones.
LEMMA WorkStep ==
    ASSUME TypeOK, StackInv, Grown, Free, NEW st \in Seq(Plain'), SetStack(st),
           depth' = depth, Floor <= Len(st), \A k \in 1..Floor : st[k] = Stack[k]
    PROVE  StackInv'
<1> DEFINE g == [Top EXCEPT !.stack = st]
<1>1. st \in Seq(Handle)
  <2> DEFINE P == Plain'
  <2>1. P \subseteq Handle /\ st \in Seq(P)
    BY DEF Grown
  <2> HIDE DEF P
  <2> QED BY <2>1
<1>2. Top \in Frame /\ g \in Frame /\ g.stack = st /\ g.pend = Top.pend
  BY <1>1, TopTyped DEF Frame
<1>3. frames' = [frames EXCEPT ![depth] = g]
  BY DEF SetStack, SetTop
<1> HIDE DEF g
<1>4. FrameKept(Top, Sticky)
  BY DEF StackInv, PendingsKept, TypeOK, Top
<1>5. \A i \in DOMAIN Top.pend : ~Top.pend[i].written
  BY NoneWritten
<1>6. Floor \in Nat /\ Len(st) \in Nat /\ \A i \in DOMAIN Top.pend :
        Top.pend[i].base \in Nat /\ Top.pend[i].base <= Floor
  BY <1>1, <1>2, <1>4, BelowFloor, PendTyped
<1>7. FrameKept(g, Sticky')
  <2>1. \A i \in DOMAIN Top.pend : Top.pend[i].base <= Len(g.stack)
    BY <1>2, <1>6
  <2>2. \A i \in DOMAIN Top.pend : \A k \in 1..Top.pend[i].base :
          g.stack[k] = Top.stack[k]
    BY <1>2, <1>6 DEF Stack
  <2> QED BY <1>2, <1>4, <1>5, <2>1, <2>2, KeptAbove DEF Grown
<1> QED BY <1>2, <1>3, <1>5, <1>7, TopStep

\* The frames stay as they are.
LEMMA SameStep ==
    ASSUME TypeOK, StackInv, Grown, Free, UNCHANGED <<frames, depth>>
    PROVE  StackInv'
<1>1. \A i \in DOMAIN Top.pend : ~Top.pend[i].written
  BY NoneWritten
<1>2. frames' = [frames EXCEPT ![depth] = Top] /\ depth \in Depth
  BY DEF TypeOK, Top
<1>3. Top.stack \in Seq(Plain') /\ FrameKept(Top, Sticky)
  BY <1>2 DEF StackInv, PlainStacks, PendingsKept, Grown, Top
<1>4. FrameKept(Top, Sticky')
  BY <1>3, FrameMore DEF Grown
<1> QED BY <1>1, <1>2, <1>3, <1>4, TopStep

\* A frame is entered.
LEMMA EnterStep ==
    ASSUME TypeOK, TypeOK', StackInv, Grown, Free,
           NEW e, NEW prom, Enter(e, prom)
    PROVE  StackInv'
<1> DEFINE g == [env |-> e, prom |-> prom, stack |-> <<>>, pend |-> <<>>]
<1>1. /\ depth' = depth + 1 /\ depth' \in Depth /\ depth \in Depth
      /\ frames' = [frames EXCEPT ![depth'] = g]
  BY DEF Enter, TypeOK
<1>2. /\ frames'[depth'] = g
      /\ \A d \in Depth : d # depth' => frames'[d] = frames[d]
  BY <1>1 DEF TypeOK
<1>3. g.stack = <<>> /\ g.pend = <<>> /\ DOMAIN g.pend = {}
  OBVIOUS
<1>4. \A i \in DOMAIN Top.pend : ~Top.pend[i].written
  BY NoneWritten
<1> HIDE DEF g
<1>5. PlainStacks'
  <2>1. ASSUME NEW d \in Depth PROVE frames'[d].stack \in Seq(Plain')
    <3>1. frames[d].stack \in Seq(Plain) /\ <<>> \in Seq(Plain')
      BY DEF StackInv, PlainStacks
    <3> QED BY <1>2, <1>3, <3>1 DEF Grown
  <2> QED BY <2>1 DEF PlainStacks
<1>6. PendingsKept'
  <2>1. ASSUME NEW d \in Depth PROVE FrameKept(frames'[d], Sticky')
    <3>1. FrameKept(frames[d], Sticky)
      BY DEF StackInv, PendingsKept
    <3>2. FrameKept(frames[d], Sticky')
      BY <3>1, FrameMore DEF Grown
    <3>3. FrameKept(g, Sticky')
      BY <1>3 DEF FrameKept, Spaced
    <3> QED BY <1>2, <3>2, <3>3
  <2> QED BY <2>1 DEF PendingsKept
<1>7. WrittenRuns'
  <2>1. ASSUME NEW d \in Depth, NEW i \in DOMAIN frames'[d].pend,
               frames'[d].pend[i].written
        PROVE  FALSE
    <3>1. d # depth'
      BY <1>2, <1>3
    <3>2. frames'[d] = frames[d]
      BY <1>2, <3>1
    <3>3. d = depth
      BY <2>1, <3>2 DEF StackInv, WrittenRuns
    <3> QED BY <1>4, <2>1, <3>2, <3>3 DEF Top
  <2> QED BY <2>1 DEF WrittenRuns
<1> QED BY <1>5, <1>6, <1>7 DEF StackInv

\* A frame is left, and the one below runs again.
LEMMA LeaveStep ==
    ASSUME TypeOK, TypeOK', StackInv, Grown, depth > 1, NEW push \in BOOLEAN, NEW res,
           push => res \in Plain, Leave(push, res)
    PROVE  StackInv'
<1> DEFINE f == frames[depth - 1]
           st == IF push THEN Append(f.stack, res) ELSE f.stack
           g == [f EXCEPT !.stack = st]
<1>1. depth \in Depth /\ depth - 1 \in Depth /\ depth # depth - 1 /\ depth' = depth - 1
  BY HeapAssumption DEF TypeOK, Depth, Leave
<1>2. f \in Frame /\ f.stack \in Seq(Plain)
  BY <1>1 DEF TypeOK, StackInv, PlainStacks
<1>3. st \in Seq(Plain) /\ Len(f.stack) \in Nat /\ Len(st) \in Nat
      /\ Len(f.stack) <= Len(st)
      /\ \A k \in 1..Len(f.stack) : st[k] = f.stack[k]
  <2> DEFINE P == Plain
             su == f.stack
  <2>1. su \in Seq(P) /\ (push => res \in P)
    BY <1>2
  <2> HIDE DEF P, su
  <2>2. CASE push
    <3>1. Append(su, res) \in Seq(P) /\ Len(su) \in Nat
          /\ Len(Append(su, res)) = Len(su) + 1
          /\ \A k \in 1..Len(su) : Append(su, res)[k] = su[k]
      BY <2>1, <2>2
    <3> QED BY <2>2, <3>1 DEF P, su
  <2>3. CASE ~push
    <3>1. Len(su) \in Nat
      BY <2>1
    <3> QED BY <2>1, <2>3, <3>1 DEF P, su
  <2> QED BY <2>2, <2>3
<1> HIDE DEF st
<1>4. st \in Seq(Handle)
  <2> DEFINE P == Plain
  <2>1. P \subseteq Handle /\ st \in Seq(P)
    BY <1>3 DEF Grown
  <2> HIDE DEF P
  <2> QED BY <2>1
<1>5. g \in Frame /\ g.pend = f.pend /\ g.stack = st
  BY <1>2, <1>4 DEF Frame
<1>6. frames' = [frames EXCEPT ![depth] = EmptyFrame, ![depth - 1] = g]
  BY <1>1, <1>2 DEF Leave, TypeOK, Frame, st
<1> HIDE DEF g
<1>7. /\ frames'[depth] = EmptyFrame /\ frames'[depth - 1] = g
      /\ \A d \in Depth : d # depth /\ d # depth - 1 => frames'[d] = frames[d]
  BY <1>1, <1>6 DEF TypeOK
<1>8. EmptyFrame.stack = <<>> /\ EmptyFrame.pend = <<>>
  BY DEF EmptyFrame
<1>9. \A d \in Depth : d # depth =>
        \A i \in DOMAIN frames[d].pend : ~frames[d].pend[i].written
  BY DEF StackInv, WrittenRuns
<1>10. FrameKept(g, Sticky')
  <2>1. FrameKept(f, Sticky)
    BY <1>1 DEF StackInv, PendingsKept
  <2>2. \A i \in DOMAIN f.pend : ~f.pend[i].written
    BY <1>1, <1>9
  <2>3. \A i \in DOMAIN f.pend : f.pend[i].base \in Nat /\ f.pend[i].base <= Len(f.stack)
    BY <1>2, <2>1, <2>2, PendTyped DEF FrameKept, Rests
  <2>4. \A i \in DOMAIN f.pend : f.pend[i].base <= Len(g.stack)
    BY <1>3, <1>5, <2>3
  <2>5. \A i \in DOMAIN f.pend : \A k \in 1..f.pend[i].base : g.stack[k] = f.stack[k]
    BY <1>3, <1>5, <2>3
  <2> HIDE DEF f
  <2> QED BY <1>2, <1>5, <2>1, <2>2, <2>4, <2>5, KeptAbove DEF Grown
<1>11. PlainStacks'
  <2>1. ASSUME NEW d \in Depth PROVE frames'[d].stack \in Seq(Plain')
    <3>1. frames[d].stack \in Seq(Plain) /\ <<>> \in Seq(Plain')
      BY DEF StackInv, PlainStacks
    <3> QED BY <1>3, <1>5, <1>7, <1>8, <3>1 DEF Grown
  <2> QED BY <2>1 DEF PlainStacks
<1>12. PendingsKept'
  <2>1. ASSUME NEW d \in Depth PROVE FrameKept(frames'[d], Sticky')
    <3>1. FrameKept(frames[d], Sticky)
      BY DEF StackInv, PendingsKept
    <3>2. FrameKept(frames[d], Sticky')
      BY <3>1, FrameMore DEF Grown
    <3>3. FrameKept(EmptyFrame, Sticky')
      BY <1>8 DEF FrameKept, Spaced
    <3> QED BY <1>7, <1>10, <3>2, <3>3
  <2> QED BY <2>1 DEF PendingsKept
<1>13. WrittenRuns'
  <2>1. ASSUME NEW d \in Depth, NEW i \in DOMAIN frames'[d].pend
        PROVE  ~frames'[d].pend[i].written
    <3>1. CASE d = depth
      BY <1>7, <1>8, <3>1
    <3>2. CASE d = depth - 1
      BY <1>1, <1>5, <1>7, <1>9, <3>2
    <3>3. CASE d # depth /\ d # depth - 1
      BY <1>7, <1>9, <3>3
    <3> QED BY <3>1, <3>2, <3>3
  <2> QED BY <2>1 DEF WrittenRuns
<1> QED BY <1>11, <1>12, <1>13 DEF StackInv

\* While instructions may run, the pending operands are on the stack.
LEMMA FloorHeld ==
    ASSUME TypeOK, StackInv, Free
    PROVE  Floor \in Nat /\ Floor <= Len(Stack) /\ Stack \in Seq(Plain) /\ Len(Stack) \in Nat
<1>1. FrameKept(Top, Sticky)
  BY DEF StackInv, PendingsKept, TypeOK, Top
<1>2. Floor \in Nat /\ Len(Stack) \in Nat /\ Stack \in Seq(Plain)
  BY <1>1, BelowFloor, StackPlain DEF StackInv
<1>3. CASE ~Assigning
  BY <1>2, <1>3 DEF Floor
<1>4. CASE Assigning
  <2>1. Len(Top.pend) \in DOMAIN Top.pend
    BY <1>4, TargetTyped, TopTyped
  <2>2. Rests(Top.stack, Target, Sticky)
    BY <1>1, <1>4, <2>1 DEF FrameKept, Free, Target
  <2> QED BY <1>2, <1>4, <2>2 DEF Rests, Floor, Stack
<1> QED BY <1>2, <1>3, <1>4

\* An operand is pushed.
LEMMA PushStep ==
    ASSUME TypeOK, StackInv, Grown, Free, NEW v \in Plain', SetStack(Append(Stack, v)),
           depth' = depth
    PROVE  StackInv'
<1> DEFINE P == Plain'
           st == Append(Stack, v)
<1>1. Stack \in Seq(P) /\ v \in P /\ Floor \in Nat /\ Len(Stack) \in Nat /\ Floor <= Len(Stack)
  BY FloorHeld DEF Grown
<1> HIDE DEF P
<1>2. st \in Seq(P) /\ Len(st) = Len(Stack) + 1 /\ \A k \in 1..Len(Stack) : st[k] = Stack[k]
  BY <1>1
<1>3. Floor <= Len(st) /\ \A k \in 1..Floor : st[k] = Stack[k]
  BY <1>1, <1>2
<1> HIDE DEF st
<1> QED BY <1>2, <1>3, WorkStep DEF P, st

\* The operand on top is taken, and another takes its place.
LEMMA SwapStep ==
    ASSUME TypeOK, StackInv, Grown, HasOperand, NEW v \in Plain',
           SetStack(Append(SubSeq(Stack, 1, Len(Stack) - 1), v)), depth' = depth
    PROVE  StackInv'
<1> DEFINE P == Plain'
           su == SubSeq(Stack, 1, Len(Stack) - 1)
           st == Append(su, v)
<1>1. /\ Stack \in Seq(P) /\ v \in P /\ Floor \in Nat /\ Len(Stack) \in Nat
      /\ Floor < Len(Stack)
  BY FloorHeld DEF Grown, HasOperand
<1> HIDE DEF P
<1>2. /\ su \in Seq(P) /\ Len(su) = Len(Stack) - 1
      /\ \A k \in 1..(Len(Stack) - 1) : su[k] = Stack[k]
  <2> DEFINE m == Len(Stack) - 1
  <2>1. m \in 0..Len(Stack) /\ \A k \in 1..m : k \in 1..Len(Stack) /\ Stack[k] \in P
    BY <1>1
  <2> HIDE DEF m
  <2>2. /\ SubSeq(Stack, 1, m) \in Seq(P) /\ Len(SubSeq(Stack, 1, m)) = m
        /\ \A k \in 1..m : SubSeq(Stack, 1, m)[k] = Stack[k]
    BY <1>1, <2>1
  <2> QED BY <2>2 DEF m
<1> HIDE DEF su
<1>3. st \in Seq(P) /\ Len(st) = Len(Stack) /\ \A k \in 1..(Len(Stack) - 1) : st[k] = Stack[k]
  BY <1>1, <1>2
<1>4. Floor <= Len(st) /\ \A k \in 1..Floor : st[k] = Stack[k]
  BY <1>1, <1>3
<1>5. SetStack(st)
  BY DEF su
<1> HIDE DEF st
<1> QED BY <1>3, <1>4, <1>5, WorkStep DEF P, HasOperand

\* The operand on top is dropped.
LEMMA DropStep ==
    ASSUME TypeOK, StackInv, Grown, HasOperand,
           SetStack(SubSeq(Stack, 1, Len(Stack) - 1)), depth' = depth
    PROVE  StackInv'
<1> DEFINE P == Plain'
           st == SubSeq(Stack, 1, Len(Stack) - 1)
<1>1. /\ Stack \in Seq(P) /\ Floor \in Nat /\ Len(Stack) \in Nat
      /\ Floor < Len(Stack)
  BY FloorHeld DEF Grown, HasOperand
<1> HIDE DEF P
<1>2. /\ st \in Seq(P) /\ Len(st) = Len(Stack) - 1
      /\ \A k \in 1..(Len(Stack) - 1) : st[k] = Stack[k]
  <2> DEFINE m == Len(Stack) - 1
  <2>1. m \in 0..Len(Stack) /\ \A k \in 1..m : k \in 1..Len(Stack) /\ Stack[k] \in P
    BY <1>1
  <2> HIDE DEF m
  <2>2. /\ SubSeq(Stack, 1, m) \in Seq(P) /\ Len(SubSeq(Stack, 1, m)) = m
        /\ \A k \in 1..m : SubSeq(Stack, 1, m)[k] = Stack[k]
    BY <1>1, <2>1
  <2> QED BY <2>2 DEF m
<1>3. Floor <= Len(st) /\ \A k \in 1..Floor : st[k] = Stack[k]
  BY <1>1, <1>2
<1> HIDE DEF st
<1> QED BY <1>2, <1>3, WorkStep DEF P, st, HasOperand

\* A complex assignment begins.
LEMMA BeginStep ==
    ASSUME TypeOK, StackInv, Grown, HasOperand, NEW n \in Names, NEW super \in BOOLEAN,
           NEW p \in Positions, NEW inner \in BOOLEAN, NEW obj \in Plain,
           inner => obj \in Sticky', Begin(n, super, p, inner, obj), depth' = depth
    PROVE  StackInv'
<1> DEFINE t == [name |-> n, super |-> super, pos |-> p, inner |-> inner,
                 written |-> FALSE, base |-> Len(Stack) + 2]
           w == <<Operand, obj>>
           st == Stack \o w
           pd == Append(Top.pend, t)
           g == [Top EXCEPT !.stack = st, !.pend = pd]
<1>1. t \in Pending /\ ~t.written /\ t.base = Len(Stack) + 2 /\ t.inner = inner
  BY OperandTyped, TopTyped DEF Pending
<1> HIDE DEF t
<1>2. Operand \in Plain /\ Operand \in Handle /\ obj \in Handle /\ Stack \in Seq(Plain)
  BY StackPlain, OperandTyped DEF StackInv, Grown
<1>3. st \in Seq(Plain) /\ st \in Seq(Handle)
  <2> DEFINE P == Plain
  <2>1. Operand \in P /\ obj \in P /\ Stack \in Seq(P) /\ Stack \in Seq(Handle)
    BY <1>2, TopTyped
  <2> HIDE DEF P
  <2>2. w \in Seq(P) /\ w \in Seq(Handle)
    BY <1>2, <2>1
  <2> HIDE DEF w
  <2> QED BY <2>1, <2>2 DEF P
<1>4. pd \in Seq(Pending)
  BY <1>1, TopTyped
<1>5. Top \in Frame /\ g \in Frame /\ g.stack = st /\ g.pend = pd
  BY <1>3, <1>4, TopTyped DEF Frame
<1>6. frames' = [frames EXCEPT ![depth] = g]
  BY DEF Begin, SetTop, t, Stack
<1> HIDE DEF g
<1>7. FrameKept(Top, Sticky)
  BY DEF StackInv, PendingsKept, TypeOK, Top
<1>8. FrameKept(g, Sticky')
  BY <1>1, <1>2, <1>5, <1>7, KeptBegin DEF Grown
<1>9. \A i \in DOMAIN g.pend : ~g.pend[i].written
  <2>1. \A i \in DOMAIN Top.pend : ~Top.pend[i].written
    BY NoneWritten DEF HasOperand
  <2> QED BY <1>1, <1>5, <2>1, TopTyped
<1>10. g.stack \in Seq(Plain')
  BY <1>3, <1>5 DEF Grown
<1> QED BY <1>6, <1>8, <1>9, <1>10, TopStep

\* An assignment writes, in place or a new object.
LEMMA WrittenStep ==
    ASSUME TypeOK, StackInv, Grown, ReadyToWrite, NEW res \in Plain', Written(res),
           depth' = depth, Target.inner => Unheld(ref', res)
    PROVE  StackInv'
<1> DEFINE t == [Target EXCEPT !.written = TRUE]
           k == Len(Top.pend)
           st == Append(Below, res)
           pd == [Top.pend EXCEPT ![k] = t]
           g == [Top EXCEPT !.stack = st, !.pend = pd]
<1>1. t \in Pending /\ t.written /\ t.base = Target.base /\ t.inner = Target.inner
      /\ k \in 1..Len(Top.pend)
  BY TargetTyped DEF Pending, ReadyToWrite
<1> HIDE DEF t
<1>2. res \in Handle
  BY DEF Grown
<1>3. st \in Seq(Plain') /\ st \in Seq(Handle) /\ Len(st) \in Nat /\ st[Len(st)] = res
  <2> DEFINE P == Plain'
  <2>1. Below \in Seq(P) /\ res \in P /\ Below \in Seq(Handle)
    BY StackPlain, WriteTyped DEF StackInv, Grown
  <2> HIDE DEF P
  <2>2. st \in Seq(P) /\ st \in Seq(Handle) /\ Len(st) \in Nat /\ st[Len(st)] = res
    BY <1>2, <2>1
  <2> QED BY <2>2 DEF P
<1>4. pd \in Seq(Pending)
  BY <1>1, TopTyped
<1>5. Top \in Frame /\ g \in Frame /\ g.stack = st /\ g.pend = pd
  BY <1>3, <1>4, TopTyped DEF Frame
<1>6. frames' = [frames EXCEPT ![depth] = g]
  BY DEF Written, SetTop, t
<1> HIDE DEF g, st
<1>7. FrameKept(Top, Sticky)
  BY DEF StackInv, PendingsKept, TypeOK, Top
<1>8. FrameKept(g, Sticky')
  BY <1>1, <1>2, <1>5, <1>7, KeptWritten DEF Grown, st
<1>9. ASSUME NEW i \in DOMAIN g.pend, g.pend[i].written
      PROVE  g.pend[i].inner => Unheld(ref', g.stack[Len(g.stack)])
  <2>1. \A j \in DOMAIN Top.pend : ~Top.pend[j].written
    BY NoneWritten DEF ReadyToWrite, Free
  <2>2. g.pend[i].inner = Target.inner
    BY <1>1, <1>5, <1>9, <2>1, TopTyped
  <2>3. g.stack[Len(g.stack)] = res
    BY <1>3, <1>5
  <2> QED BY <2>2, <2>3
<1>10. g.stack \in Seq(Plain')
  BY <1>3, <1>5
<1> QED BY <1>6, <1>8, <1>9, <1>10, TopStep

\* The object of an inner assignment is never written in place.
LEMMA InnerPinned ==
    ASSUME TypeOK, StackInv, ReadyToWrite, Target.inner
    PROVE  ~MayMutate(Obj)
<1>1. FrameKept(Top, Sticky)
  BY DEF StackInv, PendingsKept, TypeOK, Top
<1>2. Len(Top.pend) \in DOMAIN Top.pend
  BY TargetTyped, TopTyped DEF ReadyToWrite
<1>3. Rests(Top.stack, Target, Sticky)
  BY <1>1, <1>2 DEF FrameKept, ReadyToWrite, Target
<1>4. Obj \in Sticky
  BY <1>3 DEF Rests, Obj, Stack
<1>5. rc[Obj] = RefMax /\ RefMax \in Nat /\ RefMax > 1
  BY <1>4, HeapAssumption DEF Sticky
<1> QED BY <1>5 DEF MayMutate

\* Operation by operation: what pending assignments rest on stays.
LEMMA StackNext ==
    ASSUME TypeOK, TypeOK', PlainPlaces, StackInv, Next
    PROVE  StackInv'
<1>1. Grown /\ PlainStacks
  BY StepGrown DEF StackInv
<1>2. CASE Literal
  <2>1. PICK h \in Handle : Alloc(h, "atom") /\ SetStack(Append(Stack, h))
    BY <1>2 DEF Literal
  <2>2. h \in Plain'
    BY <2>1, NewPlain
  <2> QED BY <1>1, <1>2, <2>1, <2>2, PushStep DEF Literal, CanPush
<1>3. CASE List
  <2>1. PICK h \in Handle : /\ Alloc(h, "list")
                            /\ SetStack(Append(SubSeq(Stack, 1, Len(Stack) - 1), h))
    BY <1>3 DEF List
  <2>2. h \in Plain'
    BY <2>1, NewPlain
  <2> QED BY <1>1, <1>3, <2>1, <2>2, SwapStep DEF List
<1>4. CASE Pop
  BY <1>1, <1>4, DropStep DEF Pop
<1>5. CASE \E n \in Names : GetVar(n)
  <2>1. PICK n \in Names : GetVar(n)
    BY <1>5
  <2>2. PICK r \in Envs, h \in Handle : Reads(n, r, h) /\ SetStack(Append(Stack, h))
    BY <2>1 DEF GetVar
  <2>3. h \in Plain'
    BY <1>1, <2>2, ReadsPlain DEF Grown
  <2> QED BY <1>1, <2>1, <2>2, <2>3, PushStep DEF GetVar, CanPush
<1>6. CASE \E p \in Positions : GetElem(p)
  <2>1. PICK p \in Positions : GetElem(p)
    BY <1>6
  <2>2. Operand \in Plain /\ HasOperand
    BY <1>1, <2>1, StackPlain DEF GetElem
  <2> DEFINE v == ref[<<"elem", Operand, p>>]
  <2>3. v \in Plain'
    <3>1. <<"elem", Operand, p>> \in ElemSlot
      BY <1>1, <2>2 DEF ElemSlot, Grown
    <3>2. v \in Plain \cup {Nil} /\ v # Nil
      BY <2>1, <3>1 DEF PlainPlaces, GetElem
    <3> QED BY <1>1, <3>2 DEF Grown
  <2>4. SetStack(Append(SubSeq(Stack, 1, Len(Stack) - 1), v)) /\ depth' = depth
    BY <2>1 DEF GetElem
  <2> HIDE DEF v
  <2> QED BY <1>1, <2>2, <2>3, <2>4, SwapStep
<1>7. CASE \/ \E n \in Names, super \in BOOLEAN : SetVar(n, super)
           \/ \E n \in Names : Rm(n)
           \/ MakeClosure
  <2>1. Free /\ UNCHANGED <<frames, depth>>
    BY <1>7 DEF SetVar, Rm, MakeClosure, HasOperand
  <2> QED BY <1>1, <2>1, SameStep
<1>8. CASE \E n \in Names, super \in BOOLEAN, p \in Positions :
             BeginAssign(n, super, p) \/ BeginNested(n, super, p)
  <2>1. PICK n \in Names, super \in BOOLEAN, p \in Positions :
             BeginAssign(n, super, p) \/ BeginNested(n, super, p)
    BY <1>8
  <2>2. HasOperand /\ depth' = depth
    BY <2>1 DEF BeginAssign, BeginNested
  <2>3. CASE BeginAssign(n, super, p)
    <3>1. PICK r \in Envs, h \in Handle :
            Reads(n, r, h) /\ Begin(n, super, p, FALSE, h)
      BY <2>3 DEF BeginAssign
    <3>2. h \in Plain
      BY <3>1, ReadsPlain
    <3>3. PICK no : no = FALSE
      OBVIOUS
    <3>4. Begin(n, super, p, no, h) /\ no \in BOOLEAN /\ ~no
      BY <3>1, <3>3
    <3> QED BY <1>1, <2>2, <3>2, <3>4, BeginStep
  <2>4. CASE BeginNested(n, super, p)
    <3>1. PICK r \in Envs, h \in Handle :
            /\ Reads(n, r, h) /\ ref[<<"elem", h, p>>] # Nil
            /\ Begin(n, super, p, TRUE, ref[<<"elem", h, p>>])
            /\ rc' = Pinned(ref[<<"elem", h, p>>])
      BY <2>4 DEF BeginNested
    <3> DEFINE v == ref[<<"elem", h, p>>]
    <3>2. <<"elem", h, p>> \in ElemSlot
      BY DEF ElemSlot
    <3>3. v \in Plain /\ v \in Handle
      BY <1>1, <3>1, <3>2 DEF PlainPlaces, Grown
    <3>4. v \in Sticky'
      BY <3>1, <3>3 DEF Pinned, Sticky, TypeOK
    <3>5. Begin(n, super, p, TRUE, v)
      BY <3>1
    <3> HIDE DEF v
    <3>6. PICK yes : yes = TRUE
      OBVIOUS
    <3>7. Begin(n, super, p, yes, v) /\ yes \in BOOLEAN
      BY <3>5, <3>6
    <3> QED BY <1>1, <2>2, <3>3, <3>4, <3>7, BeginStep
  <2> QED BY <2>1, <2>3, <2>4
<1>9. CASE WriteAtomInPlace \/ WriteListInPlace
  <2>1. ReadyToWrite /\ MayMutate(Obj) /\ Written(Obj) /\ depth' = depth
    BY <1>9 DEF WriteAtomInPlace, WriteListInPlace
  <2>2. ~Target.inner
    BY <2>1, InnerPinned
  <2>3. Obj \in Plain'
    BY <1>1, <2>1, StackPlain DEF Grown
  <2> QED BY <1>1, <2>1, <2>2, <2>3, WrittenStep
<1>10. CASE RebuildAtom \/ RebuildList
  <2>1. ReadyToWrite /\ depth' = depth
    BY <1>10 DEF RebuildAtom, RebuildList
  <2>2. PICK h \in Handle, k \in {"atom", "list"} :
          Alloc(h, k) /\ Written(h) /\ (ref' = ref \/ ref' = Rebuilt(h))
    BY <1>10 DEF RebuildAtom, RebuildList
  <2>3. h \in Plain' /\ h \notin 1..len
    BY <2>2, NewPlain
  <2>4. Unheld(ref', h)
    <3>1. ASSUME NEW s \in Slot PROVE ref'[s] \in 1..len \cup {Nil}
      <4>1. ref'[s] = ref[s] \/ ref'[s] \in Plain \cup {Nil}
        BY <1>1, <2>1, <2>2, RebuiltPlain
      <4> QED BY <4>1 DEF PlainPlaces, Plain
    <3>2. h # Nil
      BY HeapAssumption
    <3> QED BY <2>3, <3>1, <3>2 DEF Unheld
  <2> QED BY <1>1, <2>1, <2>2, <2>3, <2>4, WrittenStep
<1>11. CASE Store
  <2> DEFINE m == Len(Stack) - 1
             k == Len(Top.pend) - 1
             st == SubSeq(Stack, 1, m)
             pd == SubSeq(Top.pend, 1, k)
             g == [Top EXCEPT !.stack = st, !.pend = pd]
  <2>1. Assigning /\ Target.written
    BY <1>11 DEF Store
  <2>2. st \in Seq(Plain) /\ st \in Seq(Handle)
    <3>1. m \in 0..Len(Stack)
      BY <2>1, ResultTyped
    <3>2. st \in Seq(Plain)
      BY <1>1, <3>1, StackPlain
    <3> DEFINE P == Plain
    <3>3. P \subseteq Handle /\ st \in Seq(P)
      BY <1>1, <3>2 DEF Grown
    <3> HIDE DEF P, st
    <3>4. st \in Seq(Handle)
      BY <3>3
    <3> QED BY <3>2, <3>4
  <2>3. pd \in Seq(Pending)
    <3>1. Top.pend \in Seq(Pending) /\ k \in 0..Len(Top.pend)
      BY <2>1, TargetTyped, TopTyped
    <3>2. \A i \in 1..k : Top.pend[i] \in Pending
      BY <3>1
    <3> HIDE DEF k
    <3> QED BY <3>1, <3>2
  <2> HIDE DEF st, pd
  <2>4. g \in Frame /\ g.stack = st /\ g.pend = pd
    BY <2>2, <2>3, TopTyped DEF Frame
  <2>5. frames' = [frames EXCEPT ![depth] = g] /\ depth' = depth
    BY <1>11 DEF Store, SetTop, st, pd, Stack
  <2> HIDE DEF g
  <2>6. FrameKept(Top, Sticky)
    BY DEF StackInv, PendingsKept, TypeOK, Top
  <2>7. FrameKept(g, Sticky') /\ \A i \in DOMAIN g.pend : ~g.pend[i].written
    BY <1>1, <2>1, <2>4, <2>6, KeptStored DEF Grown, st, pd
  <2>8. g.stack \in Seq(Plain')
    BY <1>1, <2>2, <2>4 DEF Grown
  <2> QED BY <1>1, <2>5, <2>7, <2>8, TopStep
<1>12. CASE StoreInner
  <2>1. Assigning /\ Target.written /\ Target.inner /\ depth' = depth
    BY <1>12 DEF StoreInner
  <2>2. PICK r \in Envs, h \in Handle :
         /\ Reads(Target.name, r, h)
         /\ SetTop([Top EXCEPT
                !.stack = Append(Top.stack, h),
                !.pend  = [Top.pend EXCEPT ![Len(Top.pend)] =
                    [Target EXCEPT !.inner = FALSE, !.written = FALSE]]])
    BY <1>12 DEF StoreInner
  <2>3. h \in Plain /\ \E s \in Slot \ ElemSlot : ref[s] = h
    BY <2>1, <2>2, ReadsPlain, TargetTyped
  <2>4. h # Operand
    <3>1. Len(Top.pend) \in DOMAIN Top.pend
      BY <2>1, TargetTyped, TopTyped
    <3>2. depth \in Depth
      BY DEF TypeOK
    <3>3. Unheld(ref, Stack[Len(Stack)])
      BY <2>1, <3>1, <3>2 DEF StackInv, WrittenRuns, Stack, Top, Target
    <3> QED BY <2>3, <3>3 DEF Unheld, Operand
  <2> DEFINE t == [Target EXCEPT !.inner = FALSE, !.written = FALSE]
             k == Len(Top.pend)
             st == Append(Stack, h)
             pd == [Top.pend EXCEPT ![k] = t]
             g == [Top EXCEPT !.stack = st, !.pend = pd]
  <2>5. t \in Pending /\ ~t.written /\ ~t.inner /\ t.base = Target.base
    BY <2>1, TargetTyped DEF Pending
  <2>6. frames' = [frames EXCEPT ![depth] = g]
    BY <2>2 DEF SetTop, Stack
  <2> HIDE DEF t
  <2>7. st \in Seq(Plain) /\ st \in Seq(Handle)
    <3> DEFINE P == Plain
    <3>1. P \subseteq Handle /\ Stack \in Seq(P) /\ h \in P
      BY <1>1, <2>3, StackPlain DEF Grown
    <3> HIDE DEF P
    <3>2. st \in Seq(P) /\ st \in Seq(Handle)
      BY <3>1
    <3> QED BY <3>2 DEF P
  <2>8. pd \in Seq(Pending)
    BY <2>1, <2>5, TargetTyped, TopTyped
  <2> HIDE DEF st, pd
  <2>9. g \in Frame /\ g.stack = st /\ g.pend = pd
    BY <2>7, <2>8, TopTyped DEF Frame
  <2> HIDE DEF g
  <2>10. FrameKept(Top, Sticky)
    BY DEF StackInv, PendingsKept, TypeOK, Top
  <2>11. FrameKept(g, Sticky') /\ \A i \in DOMAIN g.pend : ~g.pend[i].written
    BY <1>1, <2>1, <2>4, <2>5, <2>9, <2>10, KeptInner DEF Grown, st, pd
  <2>12. g.stack \in Seq(Plain')
    BY <1>1, <2>7, <2>9 DEF Grown
  <2> QED BY <1>1, <2>1, <2>6, <2>11, <2>12, TopStep
<1>13. CASE \/ \E outer \in Envs : Call(outer)
            \/ \E outer \in Envs, n \in Names : CallWith(outer, n)
            \/ \E n \in Names : ForcePromise(n)
  <2>1. Free
    BY <1>13 DEF Call, CallWith, ForcePromise, CanPush
  <2>2. \E e, prom : Enter(e, prom)
    BY <1>13 DEF Call, CallWith, ForcePromise
  <2>3. PICK e, prom : Enter(e, prom)
    BY <2>2
  <2> QED BY <1>1, <2>1, <2>3, EnterStep
<1>14. CASE Return \/ ReturnForced
  <2>1. depth > 1 /\ HasOperand /\ Leave(TRUE, Operand)
    BY <1>14 DEF Return, ReturnForced
  <2>2. Operand \in Plain
    BY <1>1, <2>1, StackPlain
  <2>3. PICK yes : yes = TRUE
    OBVIOUS
  <2>4. Leave(yes, Operand) /\ yes \in BOOLEAN
    BY <2>1, <2>3
  <2> QED BY <1>1, <2>1, <2>2, <2>4, LeaveStep
<1>15. CASE Unwind
  <2>1. depth > 1 /\ Leave(FALSE, Nil)
    BY <1>15 DEF Unwind
  <2>2. PICK no : no = FALSE
    OBVIOUS
  <2>3. Leave(no, Nil) /\ no \in BOOLEAN /\ ~no
    BY <2>1, <2>2
  <2> QED BY <1>1, <2>1, <2>3, LeaveStep
<1> QED BY <1>2, <1>3, <1>4, <1>5, <1>6, <1>7, <1>8, <1>9, <1>10, <1>11, <1>12,
           <1>13, <1>14, <1>15 DEF Next

\* An object written in place is held by one place at most.
LEMMA PrivatePlace ==
    ASSUME IInv, WritesInPlace, NEW e \in Slot, NEW s \in Slot,
           ref[e] = Obj, ref[s] = Obj
    PROVE  e = s
<1> SUFFICES ASSUME e # s PROVE FALSE
  OBVIOUS
<1> DEFINE S == Places(Obj)
<1>1. {e, s} \subseteq S
  BY DEF Places
<1>2. Cardinality(S) \in Nat /\ Cardinality(S) <= 1 /\ IsFiniteSet(S)
  BY ObjectPrivate, HeldFinite DEF Places, Held
<1> HIDE DEF S
<1>3. Cardinality({e, s}) = 2
  <2>1. Cardinality({e}) = 1 /\ IsFiniteSet({e}) /\ s \notin {e}
    BY FS_Singleton
  <2>2. Cardinality({e} \cup {s}) = Cardinality({e}) + 1
    BY <2>1, FS_AddElement
  <2>3. {e} \cup {s} = {e, s}
    OBVIOUS
  <2> QED BY <2>1, <2>2, <2>3
<1>4. Cardinality({e, s}) <= Cardinality(S)
  BY <1>1, <1>2, FS_Subset
<1> QED BY <1>2, <1>3, <1>4

\* The object written in place is held by a variable, directly or as the value
\* of a promise, so no list holds it; nor is it the value written.
LEMMA WrittenUnlisted ==
    ASSUME StableTargets, IInv, PlainPlaces, StackInv, WritesInPlace
    PROVE  /\ \A h \in Handle, p \in Positions : Elem(ref, h, p) # Obj
           /\ Val # Obj
<1>1. ReadyToWrite /\ MayMutate(Obj) /\ StillBound /\ TypeOK
  BY DEF WritesInPlace, WriteAtomInPlace, WriteListInPlace, ReadyToWrite, IInv
<1>2. ~Target.inner /\ Assigning
  BY <1>1, InnerPinned DEF ReadyToWrite
<1>3. PICK s \in Slot \ ElemSlot : ref[s] = Obj
  <2>1. PICK r \in Envs, h \in Handle : Reads(Target.name, r, h) /\ h = Obj
    BY <1>1, <1>2 DEF StillBound
  <2>2. Target.name \in Names
    BY <1>1, <1>2, TargetTyped
  <2> QED BY <1>1, <2>1, <2>2, ReadsPlain
<1>4. ASSUME NEW h \in Handle, NEW p \in Positions, Elem(ref, h, p) = Obj
      PROVE  FALSE
  <2> DEFINE e == <<"elem", h, p>>
  <2>1. e \in ElemSlot /\ e \in Slot /\ ref[e] = Obj
    BY <1>4 DEF ElemSlot, Slot, Elem
  <2> HIDE DEF e
  <2>2. e = s
    BY <1>3, <2>1, PrivatePlace
  <2> QED BY <1>3, <2>1, <2>2
<1>5. Val # Obj
  <2>1. FrameKept(Top, Sticky) /\ Len(Top.pend) \in DOMAIN Top.pend
    BY <1>1, <1>2, TargetTyped, TopTyped DEF StackInv, PendingsKept, TypeOK, Top
  <2>2. Rests(Top.stack, Target, Sticky) /\ Target.base > 2
    BY <1>1, <2>1 DEF FrameKept, ReadyToWrite, Target, Spaced
  <2>3. Target.base \in Nat /\ Len(Stack) = Target.base /\ Stack \in Seq(Handle)
    BY <1>1, <1>2, TargetTyped, TopTyped DEF ReadyToWrite
  <2>4. Stack[Target.base - 2] # Obj
    <3> DEFINE k == Target.base - 2
    <3>1. k \in 1..k /\ k \in 0..Len(Stack)
      BY <2>2, <2>3
    <3>2. Below[k] = Stack[k] /\ k \in DOMAIN Below
      BY <2>3, <3>1, FirstPart DEF Below
    <3> QED BY <1>1, <3>2 DEF MayMutate, OnStack
  <2> QED BY <2>2, <2>4 DEF Rests, Val, Obj, Stack
<1> QED BY <1>4, <1>5

\* Only three actions give an object elements.
LEMMA ElementsSame ==
    ASSUME TypeOK, Next, ~List, ~WriteListInPlace, ~RebuildList,
           NEW h \in Handle, NEW p \in Positions
    PROVE  Elem(ref', h, p) = Elem(ref, h, p)
<1> DEFINE e == <<"elem", h, p>>
<1>1. e \in Elements(h)
  BY DEF Elements
<1> SUFFICES ref'[e] = ref[e]
  BY DEF Elem
<1>2. /\ e \in Slot /\ \A x, n : e # Binding(x, n)
      /\ \A x : e # <<"memo", x>> /\ e # <<"arg", x>>
  BY <1>1, ElementsOnly
<1> HIDE DEF e
<1>3. CASE ref' = ref
  BY <1>3
<1>4. CASE \E x, n, v : ref' = [ref EXCEPT ![Binding(x, n)] = v]
  BY <1>2, <1>4 DEF TypeOK
<1>5. CASE \E outer \in Envs, n \in Names : CallWith(outer, n)
  <2>1. PICK outer \in Envs, n \in Names : CallWith(outer, n)
    BY <1>5
  <2>2. PICK x \in Envs, v \in Handle :
          ref' = [ref EXCEPT ![Binding(x, n)] = v, ![<<"arg", depth + 1>>] = v]
    BY <2>1 DEF CallWith
  <2> QED BY <1>2, <2>2 DEF TypeOK
<1>6. CASE LeaveClosure
  BY <1>1, <1>6, LeaveIntact DEF Intact
<1>7. CASE ReturnForced
  BY <1>2, <1>7 DEF ReturnForced, TypeOK
<1>8. ref' = ref \/ LeaveClosure \/ ReturnForced
      \/ (\E outer \in Envs, n \in Names : CallWith(outer, n))
      \/ (\E x, n, v : ref' = [ref EXCEPT ![Binding(x, n)] = v])
  BY DEF Next, Literal, Pop, GetVar, Rm, ForcePromise, GetElem, SetVar, BeginAssign,
         BeginNested, WriteAtomInPlace, RebuildAtom, Store, StoreInner, Call,
         MakeClosure, Return, Unwind
<1> QED BY <1>3, <1>4, <1>5, <1>6, <1>7, <1>8

\* No step lets a list contain itself.
LEMMA RankedNext ==
    ASSUME StableTargets, IInv, IInv', PlainPlaces, StackInv, Ranked(ref), Next
    PROVE  Ranked(ref')
<1>1. TypeOK /\ ref \in Refs /\ ref' \in Refs
  BY DEF IInv, TypeOK, Refs
<1>2. CASE ~List /\ ~WriteListInPlace /\ ~RebuildList
  <2>1. \A h \in Handle, p \in Positions : Elem(ref', h, p) = Elem(ref, h, p)
    BY <1>1, <1>2, ElementsSame
  <2> QED BY <2>1, RankedSame
<1>3. ASSUME NEW o \in Handle, o \notin 1..len,
             \A s \in Slot : /\ s \notin Elements(o) => ref'[s] = ref[s]
                             /\ ref'[s] \in 1..len \cup {Nil}
      PROVE  Ranked(ref')
  <2>1. ASSUME NEW h \in Handle, NEW p \in Positions
        PROVE  /\ h # o => Elem(ref', h, p) = Elem(ref, h, p)
               /\ Elem(ref', h, p) # o
    <3>1. <<"elem", h, p>> \in Slot
      BY SlotMembers
    <3>2. h # o => <<"elem", h, p>> \notin Elements(o)
      BY DEF Elements
    <3> QED BY <1>3, <3>1, <3>2, HeapAssumption DEF Elem
  <2> QED BY <1>1, <2>1, RankedAbove
<1>4. CASE List
  <2>1. PICK o \in Handle, p \in Positions :
          Alloc(o, "list") /\ ref' = [ref EXCEPT ![<<"elem", o, p>>] = Operand]
    BY <1>4 DEF List
  <2>2. o \notin 1..len
    BY <1>1, <2>1, NewPlain
  <2>3. Operand \in 1..len
    BY <1>1, <1>4, StackPlain DEF List, StackInv, Plain
  <2>4. <<"elem", o, p>> \in Elements(o) /\ <<"elem", o, p>> \in Slot
    BY SlotMembers DEF Elements
  <2>5. ASSUME NEW s \in Slot
        PROVE  /\ s \notin Elements(o) => ref'[s] = ref[s]
               /\ ref'[s] \in 1..len \cup {Nil}
    BY <1>1, <2>1, <2>3, <2>4 DEF PlainPlaces, Refs
  <2> QED BY <1>3, <2>2, <2>5
<1>5. CASE RebuildList
  <2>1. PICK o \in Handle : Alloc(o, "list") /\ ref' = Rebuilt(o)
    BY <1>5 DEF RebuildList
  <2>2. o \notin 1..len
    BY <1>1, <2>1, NewPlain
  <2>3. ASSUME NEW s \in Slot
        PROVE  /\ s \notin Elements(o) => ref'[s] = ref[s]
               /\ ref'[s] \in 1..len \cup {Nil}
    <3>1. ReadyToWrite /\ PlainStacks
      BY <1>5 DEF RebuildList, StackInv
    <3>2. ref'[s] = ref[s] \/ ref'[s] \in Plain \cup {Nil}
      BY <1>1, <2>1, <3>1, RebuiltPlain
    <3>3. s \notin Elements(o) => ref'[s] = ref[s]
      BY <2>1 DEF Rebuilt
    <3> QED BY <3>2, <3>3 DEF PlainPlaces, Plain
  <2> QED BY <1>3, <2>2, <2>3
<1>6. CASE WriteListInPlace
  <2>1. /\ \A h \in Handle, p \in Positions : Elem(ref, h, p) # Obj
        /\ Val # Obj
    BY <1>6, WrittenUnlisted DEF WritesInPlace
  <2>2. /\ ref' = [ref EXCEPT ![<<"elem", Obj, Target.pos>>] = Val]
        /\ Obj \in Handle
    BY <1>1, <1>6, WriteTyped DEF WriteListInPlace
  <2>3. ASSUME NEW h \in Handle, NEW p \in Positions
        PROVE  /\ h # Obj => Elem(ref', h, p) = Elem(ref, h, p)
               /\ Elem(ref', h, p) # Obj
    BY <1>1, <2>1, <2>2, SlotMembers DEF Elem, Refs
  <2> QED BY <1>1, <2>2, <2>3, RankedAbove
<1> QED BY <1>2, <1>4, <1>5, <1>6

-----------------------------------------------------------------------------
(* The invariant of the values *)

VInv == IInv /\ PlainPlaces /\ StackInv /\ Ranked(ref)

\* The empty heap satisfies it.
LEMMA InitValues == Init => VInv
<1> SUFFICES ASSUME Init PROVE VInv
  OBVIOUS
<1>1. IInv
  BY InitInv
<1>2. /\ \A s \in Slot : ref[s] = Nil
      /\ \A d \in Depth : frames[d].stack = <<>> /\ frames[d].pend = <<>>
  BY DEF Init, EmptyFrame
<1>3. PlainPlaces
  BY <1>2 DEF PlainPlaces, Slot
<1>4. StackInv
  <2>1. PlainStacks
    <3> DEFINE P == Plain
    <3>1. \A d \in Depth : frames[d].stack \in Seq(P)
      <4> HIDE DEF P
      <4>1. <<>> \in Seq(P)
        OBVIOUS
      <4> QED BY <1>2, <4>1
    <3> QED BY <3>1 DEF PlainStacks
  <2>2. PendingsKept
    BY <1>2 DEF PendingsKept, FrameKept, Spaced
  <2>3. WrittenRuns
    BY <1>2 DEF WrittenRuns
  <2> QED BY <2>1, <2>2, <2>3 DEF StackInv
<1>5. Ranked(ref)
  <2> DEFINE r == [h \in Handle |-> 0]
  <2>1. r \in [Handle -> 0..0] /\ 0 \in Nat
    OBVIOUS
  <2>2. Ranking(r, ref)
    BY <1>2, SlotMembers DEF Ranking, Elem
  <2> HIDE DEF r
  <2> QED BY <2>1, <2>2 DEF Ranked
<1> QED BY <1>1, <1>3, <1>4, <1>5 DEF VInv

\* Every step preserves it.
LEMMA NextValues == StableTargets /\ VInv /\ [Next]_vars => VInv'
<1> SUFFICES ASSUME StableTargets, VInv, [Next]_vars PROVE VInv'
  OBVIOUS
<1>1. IInv'
  BY NextInv DEF VInv
<1>2. CASE Next
  <2>1. PlainPlaces' /\ StackInv'
    BY <1>1, <1>2, PlacesNext, StackNext DEF VInv, IInv, StackInv
  <2>2. Ranked(ref')
    BY <1>1, <1>2, RankedNext DEF VInv
  <2>3. Ranked(ref)'
    BY <2>2 DEF Ranked, Ranking, Elem
  <2> QED BY <1>1, <2>1, <2>3 DEF VInv
<1>3. CASE UNCHANGED vars
  <2>1. PlainPlaces'
    BY <1>3 DEF vars, VInv, PlainPlaces, Plain
  <2>2. StackInv'
    BY <1>3 DEF vars, VInv, StackInv, PlainStacks, PendingsKept, WrittenRuns, Plain,
                FrameKept, Spaced, Rests, Sticky, Unheld
  <2>3. Ranked(ref)'
    BY <1>3 DEF vars, VInv, Ranked, Ranking, Elem
  <2> QED BY <1>1, <2>1, <2>2, <2>3 DEF VInv
<1> QED BY <1>2, <1>3

\* No program whose assignments keep their targets makes a list contain
\* itself, directly or through its elements, for any number of objects and
\* positions: x[[1]] <- x builds a new list, since the operand scan of
\* may_mutate finds x among the operands.
THEOREM NoListInsideItself == ASSUME StableTargets PROVE Spec => []Acyclic
<1>1. VInv => Acyclic
  BY RankedAcyclic DEF VInv, IInv
<1> QED BY <1>1, InitValues, NextValues, PTL DEF Spec

-----------------------------------------------------------------------------
(* Operands *)

\* A step changes the value of no object on the heap but the one it writes.
LEMMA ValuesKept ==
    ASSUME StableTargets, VInv, VInv', Next, NEW h \in 1..len,
           ~(WritesInPlace /\ h = Obj)
    PROVE  Tree'[MaxObj][h] = Tree[MaxObj][h]
<1> DEFINE U == {g \in 1..len : ~(WritesInPlace /\ g = Obj)}
<1>1. /\ TypeOK /\ ref \in Refs /\ ref' \in Refs
      /\ \A g \in 1..len : kind'[g] = kind[g] /\ g \in Handle
  BY StepGrows DEF VInv, IInv, TypeOK, Refs
<1>2. U \in SUBSET Handle /\ h \in U
  BY <1>1
<1>3. ASSUME NEW g \in U
      PROVE  /\ kind'[g] = kind[g] /\ cell'[g] = cell[g]
             /\ \A p \in Positions :
                  /\ Elem(ref', g, p) = Elem(ref, g, p)
                  /\ Elem(ref, g, p) \in U \cup {Nil}
  <2>1. ~Changed(g) /\ g <= len /\ g \in Handle
    <3>1. g \in Handle /\ g \in 1..len /\ ~(WritesInPlace /\ g = Obj)
      BY <1>1
    <3>2. g <= len
      BY <3>1, <1>1 DEF TypeOK
    <3> QED BY <1>1, <3>1, <3>2, StepChanges
  <2>2. cell'[g] = cell[g] /\ \A s \in Elements(g) : ref'[s] = ref[s]
    BY <2>1 DEF Changed
  <2>3. ASSUME NEW p \in Positions
        PROVE  /\ Elem(ref', g, p) = Elem(ref, g, p)
               /\ Elem(ref, g, p) \in U \cup {Nil}
    <3>1. <<"elem", g, p>> \in Elements(g) /\ <<"elem", g, p>> \in Slot
      BY <2>1, SlotMembers DEF Elements
    <3>2. Elem(ref, g, p) \in 1..len \cup {Nil}
      BY <3>1 DEF VInv, PlainPlaces, Elem
    <3>3. WritesInPlace => Elem(ref, g, p) # Obj
      BY <2>1, WrittenUnlisted DEF VInv
    <3> QED BY <2>2, <3>1, <3>2, <3>3 DEF Elem
  <2> QED BY <1>1, <2>2, <2>3
<1> HIDE DEF U
<1> QED BY <1>1, <1>2, <1>3, TreeKept

\* The object written leaves the running frame's stack, but for the result.
LEMMA WrittenPopped ==
    ASSUME StableTargets, VInv, WritesInPlace,
           NEW i \in DOMAIN Stack \cap DOMAIN frames'[depth].stack,
           frames'[depth].stack[i] = Stack[i]
    PROVE  Stack[i] # Obj
<1>1. ReadyToWrite /\ MayMutate(Obj) /\ Written(Obj) /\ TypeOK /\ Assigning
  BY DEF WritesInPlace, WriteAtomInPlace, WriteListInPlace, VInv, IInv, ReadyToWrite
<1> DEFINE k == Target.base - 2
<1>2. Target.base \in Nat /\ k \in 0..Len(Stack) /\ Len(Stack) = Target.base
      /\ Stack \in Seq(Handle) /\ Obj \in Handle
  BY <1>1, TargetTyped, TopTyped, WriteTyped DEF ReadyToWrite
<1>3. Below \in Seq(Handle) /\ Len(Below) = k /\ \A j \in 1..k : Below[j] = Stack[j]
  BY <1>2, FirstPart DEF Below
<1>4. frames'[depth].stack = Append(Below, Obj)
  BY <1>1 DEF Written, SetTop, TypeOK, Top
<1> HIDE DEF k
<1>5. i \in 1..(k + 1)
  BY <1>3, <1>4
<1>6. CASE i = k + 1
  <2>1. i = Target.base - 1
    BY <1>2, <1>6 DEF k
  <2> QED BY <2>1, WrittenUnlisted DEF VInv, Val
<1>7. CASE i \in 1..k
  <2>1. Below[i] = Stack[i] /\ i \in DOMAIN Below
    BY <1>3, <1>7
  <2> QED BY <1>1, <2>1 DEF MayMutate, OnStack
<1> QED BY <1>2, <1>5, <1>6, <1>7

\* Whatever a program executes above them, the operands waiting on the running
\* frame's stack keep their values, elements and all: a write in place only
\* reaches an object that no operand left waiting is or contains (may_mutate's
\* scan of the operand stack, with the counts of the containers).
THEOREM OperandsUndisturbed == ASSUME StableTargets PROVE Spec => RunningOperandsKept
<1>1. VInv /\ VInv' /\ [Next]_vars => [Kept(depth)]_vars
  <2> SUFFICES ASSUME VInv, VInv', Next PROVE Kept(depth)
    OBVIOUS
  <2>1. ASSUME NEW i \in DOMAIN Stack \cap DOMAIN frames'[depth].stack,
               frames'[depth].stack[i] = Stack[i]
        PROVE  Tree'[MaxObj][Stack[i]] = Value(Stack[i])
    <3>1. Stack[i] \in 1..len
      <4>1. PlainStacks /\ TypeOK
        BY DEF VInv, StackInv, IInv
      <4>2. i \in 1..Len(Stack)
        BY <4>1, TopTyped
      <4> QED BY <4>1, <4>2, StackPlain DEF Plain
    <3>2. WritesInPlace => Stack[i] # Obj
      BY <2>1, WrittenPopped
    <3> QED BY <3>1, <3>2, ValuesKept DEF Value
  <2> QED BY <2>1 DEF Kept, Stack, Top
<1>2. Spec => [][Kept(depth)]_vars
  BY <1>1, InitValues, NextValues, PTL DEF Spec
<1> QED BY <1>2 DEF RunningOperandsKept

-----------------------------------------------------------------------------
(* Assignment, as the variables see it *)

\* What the refinement asks of a step, variable by variable.
NoneChanges ==
    \A e \in Envs, n \in Names : VarValue(e, n)' = VarValue(e, n)
OneChanges(e, n) ==
    /\ <<e, n>> \in Open /\ <<e, n>> \in Open'
    /\ \A d \in Envs, m \in Names :
           <<d, m>> # <<e, n>> => VarValue(d, m)' = VarValue(d, m)
EnvGoes(e) ==
    \A d \in Envs, m \in Names :
        VarValue(d, m)' = IF d = e THEN Absent ELSE VarValue(d, m)

\* Such a step is a step of RValues.
LEMMA AsValues ==
    ASSUME \/ NoneChanges
           \/ \E e \in Envs, n \in Names : OneChanges(e, n)
           \/ \E e \in Envs : EnvGoes(e)
    PROVE  Values!Next
<1> DEFINE V == [x \in Envs \X Names |-> VarValue(x[1], x[2])]
<1>0. Values!Next <=>
        \/ V' = V
        \/ \E x \in Envs \X Names :
              /\ x \in Open \cap Open'
              /\ \E v \in {V'[x]} : V' = [V EXCEPT ![x] = v]
        \/ \E e \in Envs :
              V' = [x \in Envs \X Names |-> IF x[1] = e THEN Absent ELSE V[x]]
  BY DEF Values!Next, Values!Settle, Values!Assign, Values!Discard, Values!Variable
<1>1. V = [x \in Envs \X Names |-> VarValue(x[1], x[2])]
  OBVIOUS
<1>2. V' = [x \in Envs \X Names |-> VarValue(x[1], x[2])']
  OBVIOUS
<1>3. \A x \in Envs \X Names : x[1] \in Envs /\ x[2] \in Names /\ x = <<x[1], x[2]>>
  OBVIOUS
<1>4. CASE NoneChanges
  <2>1. V' = V
    BY <1>2, <1>3, <1>4 DEF NoneChanges
  <2> HIDE DEF V
  <2> QED BY <1>0, <2>1
<1>5. CASE \E e \in Envs, n \in Names : OneChanges(e, n)
  <2>1. PICK e \in Envs, n \in Names : OneChanges(e, n)
    BY <1>5
  <2> DEFINE y == <<e, n>>
  <2>2. y \in Envs \X Names /\ y \in Open \cap Open'
    BY <2>1 DEF OneChanges
  <2>3. \A x \in Envs \X Names : x # y => VarValue(x[1], x[2])' = VarValue(x[1], x[2])
    BY <1>3, <2>1 DEF OneChanges
  <2> HIDE DEF y
  <2>4. \A x \in Envs \X Names : x # y => V'[x] = V[x]
    BY <1>2, <2>3
  <2>5. V = [x \in Envs \X Names |-> V[x]] /\ V' = [x \in Envs \X Names |-> V'[x]]
    BY <1>2
  <2> HIDE DEF V
  <2>6. V' = [V EXCEPT ![y] = V'[y]]
    BY <2>2, <2>4, <2>5
  <2> QED BY <1>0, <2>2, <2>6
<1>6. CASE \E e \in Envs : EnvGoes(e)
  <2>1. PICK e \in Envs : EnvGoes(e)
    BY <1>6
  <2>2. \A x \in Envs \X Names :
          VarValue(x[1], x[2])' = IF x[1] = e THEN Absent ELSE VarValue(x[1], x[2])
    BY <1>3, <2>1 DEF EnvGoes
  <2>3. V' = [x \in Envs \X Names |-> IF x[1] = e THEN Absent ELSE V[x]]
    BY <1>2, <2>2
  <2> HIDE DEF V
  <2> QED BY <1>0, <2>3
<1> QED BY <1>4, <1>5, <1>6

\* The empty heap gives no variable a value.
LEMMA InitAsValues == Init => Values!Init
<1> SUFFICES ASSUME Init PROVE Values!Init
  OBVIOUS
<1>1. \A e \in Envs, n \in Names : VarValue(e, n) = Absent
  BY SlotMembers DEF Init, VarValue
<1>2. Open = Envs \X Names
  BY HeapAssumption DEF Open, Init, EmptyFrame, Assigning, Top, Depth
<1>3. [x \in Envs \X Names |-> VarValue(x[1], x[2])] = [x \in Envs \X Names |-> Absent]
  BY <1>1
<1> QED BY <1>2, <1>3 DEF Values!Init, Values!Variable

\* A variable keeps its value if it keeps its object, the promise in it its
\* own, and that object is not the one written.
LEMMA VariableKept ==
    ASSUME StableTargets, VInv, VInv', Next, NEW e \in Envs, NEW n \in Names,
           NEW b, b = ref[Binding(e, n)], ref'[Binding(e, n)] = b,
           b # Nil /\ kind[b] = "promise" => ref'[<<"memo", b>>] = ref[<<"memo", b>>],
           ~(WritesInPlace /\ Forced(b) = Obj)
    PROVE  VarValue(e, n)' = VarValue(e, n)
<1>1. Binding(e, n) \in Slot /\ TypeOK /\ PlainPlaces
  BY SlotMembers DEF VInv, IInv
<1>2. CASE b = Nil
  BY <1>2 DEF VarValue
<1>3. CASE b # Nil
  <2>1. b \in 1..len
    BY <1>1, <1>3 DEF PlainPlaces
  <2>2. kind'[b] = kind[b] /\ b \in Handle
    BY <1>1, <2>1, StepGrows
  <2>3. PICK f : f = Forced(b)
    OBVIOUS
  <2>4. f = IF kind[b] = "promise" THEN ref[<<"memo", b>>] ELSE b
    BY <1>3, <2>3 DEF Forced
  <2>5. f = IF kind'[b] = "promise" THEN ref'[<<"memo", b>>] ELSE b
    BY <1>3, <2>2, <2>4
  <2>6. f = Nil \/ f \in 1..len
    BY <1>1, <2>1, <2>2, <2>4, SlotMembers DEF PlainPlaces
  <2>7. f # Nil => Tree'[MaxObj][f] = Tree[MaxObj][f]
    BY <2>3, <2>6, ValuesKept
  <2>8. VarValue(e, n) = IF f = Nil THEN Lazy ELSE Tree[MaxObj][f]
    BY <1>3, <2>4 DEF VarValue, Forced, Value
  <2>9. VarValue(e, n)' = IF f = Nil THEN Lazy ELSE Tree'[MaxObj][f]
    BY <1>3, <2>5 DEF VarValue, Forced, Value
  <2> QED BY <2>7, <2>8, <2>9
<1> QED BY <1>2, <1>3

\* If no binding and no remembered value changes, and nothing is written in
\* place, no variable changes.
LEMMA NoVariable ==
    ASSUME StableTargets, VInv, VInv', Next, ~WritesInPlace,
           \A s \in BindSlot \cup MemoSlot : ref'[s] = ref[s]
    PROVE  NoneChanges
<1>1. ASSUME NEW e \in Envs, NEW n \in Names PROVE VarValue(e, n)' = VarValue(e, n)
  <2>1. PICK b : b = ref[Binding(e, n)]
    OBVIOUS
  <2>2. Binding(e, n) \in BindSlot /\ Binding(e, n) \in Slot
    BY SlotMembers DEF Binding, BindSlot
  <2>3. b # Nil => <<"memo", b>> \in MemoSlot
    BY <2>1, <2>2 DEF VInv, IInv, TypeOK, MemoSlot
  <2> QED BY <2>1, <2>2, <2>3, VariableKept
<1> QED BY <1>1 DEF NoneChanges

\* If one binding changes, its variable alone does.
LEMMA OneVariable ==
    ASSUME StableTargets, VInv, VInv', Next, ~WritesInPlace,
           NEW e \in Envs, NEW n \in Names,
           <<e, n>> \in Open, <<e, n>> \in Open',
           \A s \in BindSlot \cup MemoSlot : s # Binding(e, n) => ref'[s] = ref[s]
    PROVE  OneChanges(e, n)
<1>1. ASSUME NEW d \in Envs, NEW m \in Names, <<d, m>> # <<e, n>>
      PROVE  VarValue(d, m)' = VarValue(d, m)
  <2>1. PICK b : b = ref[Binding(d, m)]
    OBVIOUS
  <2>2. /\ Binding(d, m) \in BindSlot /\ Binding(d, m) \in Slot
        /\ Binding(d, m) # Binding(e, n)
    BY <1>1, SlotMembers DEF Binding, BindSlot
  <2>3. b # Nil => <<"memo", b>> \in MemoSlot /\ <<"memo", b>> # Binding(e, n)
    BY <2>1, <2>2 DEF VInv, IInv, TypeOK, MemoSlot, Binding
  <2> QED BY <2>1, <2>2, <2>3, VariableKept
<1> QED BY <1>1 DEF OneChanges

\* While instructions may run, any variable may be assigned.
LEMMA FreeOpens ==
    ASSUME Free, NEW e \in Envs, NEW n \in Names
    PROVE  <<e, n>> \in Open
BY DEF Free, Open

\* The same of the state after a step.
LEMMA FreeOpensNext ==
    ASSUME Free', NEW e \in Envs, NEW n \in Names
    PROVE  <<e, n>> \in Open'
BY DEF Free, Open

-----------------------------------------------------------------------------
(* A promise is the argument of one variable *)

PromiseOnce ==
    \A s, t \in BindSlot :
        ref[s] # Nil /\ kind[ref[s]] = "promise" /\ ref[s] = ref[t] => s = t

\* Bindings take plain objects, but for a call's formal, whose promise is new.
LEMMA PromiseOnceNext ==
    ASSUME VInv, VInv', Next, PromiseOnce
    PROVE  PromiseOnce'
<1>1. TypeOK /\ PlainPlaces /\ PlainStacks /\ BindSlot \subseteq Slot
  BY DEF VInv, IInv, StackInv, Slot
<1>2. \A h \in 1..len : kind'[h] = kind[h] /\ h \in Handle
  BY <1>1, StepGrows
<1>3. ASSUME \A s \in BindSlot : \/ ref'[s] = ref[s] \/ ref'[s] = Nil
                                 \/ ref'[s] \in Plain
      PROVE  PromiseOnce'
  <2>1. ASSUME NEW s \in BindSlot, ref'[s] # Nil, kind'[ref'[s]] = "promise"
        PROVE  ref'[s] = ref[s] /\ kind[ref[s]] = "promise" /\ ref[s] # Nil
    BY <1>1, <1>2, <1>3, <2>1 DEF Plain, PlainPlaces
  <2>2. ASSUME NEW s \in BindSlot, NEW t \in BindSlot,
               ref'[s] # Nil, kind'[ref'[s]] = "promise", ref'[s] = ref'[t]
        PROVE  s = t
    <3>1. ref'[s] = ref[s] /\ kind[ref[s]] = "promise" /\ ref[s] # Nil
      BY <2>1, <2>2
    <3>2. ref'[t] = ref[t]
      BY <2>1, <2>2
    <3> QED BY <2>2, <3>1, <3>2 DEF PromiseOnce
  <2> QED BY <2>2 DEF PromiseOnce
<1>4. CASE \E outer \in Envs, n \in Names : CallWith(outer, n)
  <2>1. PICK outer \in Envs, n \in Names : CallWith(outer, n)
    BY <1>4
  <2>2. PICK e \in Envs, h \in Handle :
          /\ Alloc(h, "promise")
          /\ ref' = [ref EXCEPT ![Binding(e, n)] = h, ![<<"arg", depth + 1>>] = h]
    BY <2>1 DEF CallWith
  <2>3. h \notin 1..len /\ h # Nil
    BY <1>1, <2>2, HeapAssumption DEF Alloc, TypeOK
  <2>4. Binding(e, n) \in BindSlot /\ <<"arg", depth + 1>> \notin BindSlot
    BY DEF Binding, BindSlot
  <2>5. /\ ref'[Binding(e, n)] = h
        /\ \A s \in BindSlot : s # Binding(e, n) => ref'[s] = ref[s] /\ ref'[s] # h
    BY <1>1, <2>2, <2>3, <2>4 DEF TypeOK, PlainPlaces
  <2>6. ASSUME NEW s \in BindSlot, NEW t \in BindSlot,
               ref'[s] # Nil, kind'[ref'[s]] = "promise", ref'[s] = ref'[t]
        PROVE  s = t
    <3>1. CASE s # Binding(e, n) /\ t # Binding(e, n)
      <4>1. ref[s] # Nil /\ ref[s] = ref[t] /\ ref[s] \in 1..len
        BY <1>1, <2>5, <2>6, <3>1 DEF PlainPlaces
      <4>2. kind[ref[s]] = "promise"
        BY <1>2, <2>5, <2>6, <3>1, <4>1
      <4> QED BY <4>1, <4>2 DEF PromiseOnce
    <3> QED BY <2>5, <2>6, <3>1
  <2> QED BY <2>6 DEF PromiseOnce
<1>5. CASE \/ \E n \in Names, super \in BOOLEAN : SetVar(n, super)
           \/ Store \/ \E n \in Names : Rm(n)
  <2>1. PICK s, v : ref' = [ref EXCEPT ![s] = v] /\ (v = Nil \/ v \in Plain)
    <3>1. ASSUME NEW n \in Names, NEW super \in BOOLEAN, SetVar(n, super)
          PROVE  \E s, v : ref' = [ref EXCEPT ![s] = v] /\ (v = Nil \/ v \in Plain)
      BY <1>1, <3>1, StackPlain DEF SetVar
    <3>2. ASSUME Store
          PROVE  \E s, v : ref' = [ref EXCEPT ![s] = v] /\ (v = Nil \/ v \in Plain)
      <4>1. Len(Stack) \in 1..Len(Stack)
        BY <1>1, <3>2, ResultTyped DEF Store
      <4>2. Operand \in Plain
        BY <1>1, <4>1, StackPlain DEF Operand
      <4> QED BY <3>2, <4>2 DEF Store
    <3>3. ASSUME NEW n \in Names, Rm(n)
          PROVE  \E s, v : ref' = [ref EXCEPT ![s] = v] /\ (v = Nil \/ v \in Plain)
      BY <3>3 DEF Rm
    <3> QED BY <1>5, <3>1, <3>2, <3>3
  <2> QED BY <1>1, <1>3, <2>1 DEF TypeOK
<1>6. CASE LeaveClosure
  <2>1. PICK S : ref' = Cleared(S)
    BY <1>6 DEF LeaveClosure
  <2> QED BY <1>1, <1>3, <2>1 DEF Cleared
<1>7. CASE \A s \in BindSlot : ref'[s] = ref[s]
  BY <1>3, <1>7
<1>8. CASE List \/ WriteListInPlace \/ ReturnForced \/ RebuildList
  <2>1. \A s \in BindSlot : \A h, p : s # <<"elem", h, p>> /\ s # <<"memo", h>>
    BY DEF BindSlot
  <2>2. \A s \in BindSlot, h \in Handle : s \notin Elements(h)
    BY <2>1 DEF Elements
  <2>3. \A s \in BindSlot : ref'[s] = ref[s]
    BY <1>1, <1>8, <2>1, <2>2, ZenonT(60)
       DEF List, WriteListInPlace, ReturnForced, RebuildList, Rebuilt, TypeOK
  <2> QED BY <1>7, <2>3
<1>9. CASE ref' = ref
  BY <1>7, <1>9
<1> QED
  BY <1>4, <1>5, <1>6, <1>8, <1>9
  DEF Next, Literal, Pop, GetVar, ForcePromise, GetElem, BeginAssign, BeginNested,
      WriteAtomInPlace, RebuildAtom, StoreInner, Call, MakeClosure, Return, Unwind

\* A write in place changes the variable the assignment names: the object is
\* that variable's, and no other's, directly or as a promise's value.
LEMMA WriteIsAssign ==
    ASSUME LocalTargets, StableTargets, VInv, VInv', PromiseOnce, WritesInPlace
    PROVE  Target.name \in Names /\ OneChanges(Top.env, Target.name)
<1>1. /\ ReadyToWrite /\ StillBound /\ Assigning /\ ~Target.written /\ TypeOK /\ StackInv
      /\ MayMutate(Obj) /\ Written(Obj) /\ Next /\ IInv /\ UNCHANGED depth /\ PlainPlaces
  BY DEF WritesInPlace, WriteAtomInPlace, WriteListInPlace, VInv, IInv, ReadyToWrite, Next
<1>2. ~Target.inner /\ Target.name \in Names /\ Top.env \in Envs /\ Target.super \in BOOLEAN
  BY <1>1, InnerPinned, TargetTyped, TopTyped
<1>3. Reads(Target.name, Top.env, Obj) /\ ~Target.super
  BY <1>1, <1>2 DEF StillBound, Targetable
<1> DEFINE x == Binding(Top.env, Target.name)
           Through(c) == IF kind[ref[c]] = "promise" THEN <<"memo", ref[c]>> ELSE c
<1>4. <<Top.env, Target.name>> \in Open
  BY <1>1, <1>2, FreeOpens DEF Free
<1>5. <<Top.env, Target.name>> \in Open'
  <2> DEFINE k == Len(Top.pend)
             t == [Target EXCEPT !.written = TRUE]
             pd == [Top.pend EXCEPT ![k] = t]
  <2>1. Target \in Pending /\ Top.pend \in Seq(Pending) /\ k \in 1..k /\ k \in Nat
    BY <1>1, TargetTyped, TopTyped
  <2>2. t.name = Target.name /\ t.super = Target.super /\ t.written /\ t \in Pending
    BY <2>1 DEF Pending
  <2>3. Top'.env = Top.env /\ Top'.pend = pd
    BY <1>1, TopTyped DEF Written, SetTop, Top, TypeOK, Frame
  <2> HIDE DEF t
  <2>4. Len(pd) = k /\ pd[k] = t /\ pd # <<>>
    BY <2>1, <2>2
  <2> HIDE DEF pd, k
  <2>5. Assigning' /\ Target' = t
    BY <2>3, <2>4 DEF Assigning, Target
  <2> QED BY <1>2, <1>3, <2>2, <2>3, <2>5 DEF Open, StoreTarget
<1>6. ASSUME NEW e \in Envs, NEW n \in Names
      PROVE  /\ Binding(e, n) \in Slot /\ Binding(e, n) \in BindSlot
             /\ ref[Binding(e, n)] # Nil =>
                  Forced(ref[Binding(e, n)]) = ref[Through(Binding(e, n))]
             /\ ref[Binding(e, n)] # Nil => Through(Binding(e, n)) \in Slot
  <2>1. Binding(e, n) \in Slot /\ Binding(e, n) \in BindSlot
    BY SlotMembers DEF Binding, BindSlot
  <2>2. ref[Binding(e, n)] \in Handle \cup {Nil}
    BY <1>1, <2>1 DEF TypeOK
  <2> QED BY <2>1, <2>2, SlotMembers DEF Forced
<1>7. ASSUME NEW e \in Envs, NEW n \in Names, <<e, n>> # <<Top.env, Target.name>>
      PROVE  VarValue(e, n)' = VarValue(e, n)
  <2> DEFINE y == Binding(e, n)
  <2>1. y # x /\ y \in Slot /\ x \in Slot /\ y \in BindSlot /\ x \in BindSlot
    BY <1>2, <1>6, <1>7 DEF Binding
  <2>2. ref[x] # Nil /\ ref[Through(x)] = Obj /\ Through(x) \in Slot
    BY <1>2, <1>3, <1>6 DEF Reads, Forced
  <2>3. \A h, p, g : <<"elem", h, p>> # y /\ <<"elem", h, p>> # <<"memo", g>>
    BY DEF Binding
  <2>4. /\ ref'[y] = ref[y]
        /\ \A g \in Handle : ref'[<<"memo", g>>] = ref[<<"memo", g>>]
    <3>1. CASE WriteAtomInPlace
      BY <3>1 DEF WriteAtomInPlace
    <3>2. CASE WriteListInPlace
      <4>1. ref' = [ref EXCEPT ![<<"elem", Obj, Target.pos>>] = Val]
        BY <3>2 DEF WriteListInPlace
      <4>2. Obj \in Handle /\ Target.pos \in Positions
        BY <1>1, WriteTyped, TargetTyped
      <4> QED BY <1>1, <2>1, <2>3, <4>1, <4>2, SlotMembers DEF TypeOK
    <3> QED BY <3>1, <3>2 DEF WritesInPlace
  <2>5. ASSUME Forced(ref[y]) = Obj PROVE FALSE
    <3>1. ref[y] # Nil
      <4>1. Obj \in Handle
        BY <1>1, WriteTyped
      <4> QED BY <2>5, <4>1, HeapAssumption DEF Forced
    <3>2. ref[Through(y)] = Obj /\ Through(y) \in Slot
      BY <1>6, <2>5, <3>1
    <3>3. Through(y) = Through(x)
      <4> HIDE DEF Through, x, y
      <4> QED BY <1>1, <2>2, <3>2, PrivatePlace
    <3>4. \A g : x # <<"memo", g>> /\ y # <<"memo", g>>
      BY DEF Binding
    <3> HIDE DEF x, y
    <3>5. kind[ref[x]] = "promise" /\ ref[x] = ref[y]
      BY <2>1, <3>3, <3>4
    <3> QED BY <2>1, <3>1, <3>5 DEF PromiseOnce
  <2>6. PICK b : b = ref[y]
    OBVIOUS
  <2>7. b # Nil => b \in Handle
    BY <1>1, <2>1, <2>6 DEF TypeOK
  <2> QED BY <1>1, <2>4, <2>5, <2>6, <2>7, VariableKept
<1> QED BY <1>2, <1>4, <1>5, <1>7 DEF OneChanges

\* Once the result is stored, instructions run again.
LEMMA StoredFree ==
    ASSUME TypeOK, Store
    PROVE  Free'
<1> DEFINE k == Len(Top.pend) - 1
           pd == SubSeq(Top.pend, 1, k)
<1>1. Top.pend \in Seq(Pending) /\ k \in 0..Len(Top.pend) /\ Len(Top.pend) = k + 1
  BY TargetTyped, TopTyped DEF Store
<1>2. Top'.pend = pd
  BY TopTyped DEF Store, SetTop, Top, TypeOK, Frame
<1>3. /\ Len(pd) = k /\ \A i \in 1..k : pd[i] = Top.pend[i]
      /\ pd \in Seq(Pending)
  BY <1>1, FirstPart
<1> HIDE DEF pd
<1>4. \A i \in DOMAIN Top.pend : Top.pend[i].written => i = Len(Top.pend)
  BY DEF TypeOK, WrittenLast, Top
<1>5. ASSUME pd # <<>> PROVE ~pd[Len(pd)].written
  <2>1. k \in 1..k /\ k \in DOMAIN Top.pend /\ k # Len(Top.pend)
    BY <1>1, <1>3, <1>5
  <2>2. pd[Len(pd)] = Top.pend[k]
    BY <1>3, <2>1
  <2> QED BY <1>4, <2>1, <2>2
<1> QED BY <1>2, <1>5 DEF Free, Assigning, Target

\* When a frame is left, none of the assignments that the one below has pending
\* is written.
LEMMA LeftFree ==
    ASSUME TypeOK, StackInv, depth > 1, NEW push, NEW res, Leave(push, res)
    PROVE  Free'
<1>1. depth \in Depth /\ depth - 1 \in Depth /\ depth - 1 # depth
  BY HeapAssumption DEF TypeOK, Depth
<1> DEFINE g == frames[depth - 1]
<1>2. g \in Frame /\ depth' = depth - 1
  BY <1>1 DEF TypeOK, Leave
<1>3. Top'.pend = g.pend
  BY <1>1, <1>2 DEF Leave, Top, TypeOK, Frame
<1>4. \A i \in DOMAIN g.pend : ~g.pend[i].written
  BY <1>1 DEF StackInv, WrittenRuns
<1> HIDE DEF g
<1>5. g.pend # <<>> => Len(g.pend) \in DOMAIN g.pend
  BY <1>2, PendTyped
<1> QED BY <1>3, <1>4, <1>5 DEF Free, Assigning, Target

\* A simple assignment, a removal, or the store of a complex one changes the
\* variable it names.
LEMMA StoreIsAssign ==
    ASSUME StableTargets, VInv, VInv', ~WritesInPlace,
           \/ \E n \in Names, super \in BOOLEAN : SetVar(n, super)
           \/ Store \/ \E n \in Names : Rm(n)
    PROVE  \E e \in Envs, n \in Names : OneChanges(e, n)
<1>1. TypeOK /\ Next /\ Top.env \in Envs
  BY TopTyped DEF VInv, IInv, Next
<1>2. PICK e \in Envs, n \in Names :
        /\ \E v : ref' = [ref EXCEPT ![Binding(e, n)] = v]
        /\ \/ Free /\ UNCHANGED <<frames, depth>>
           \/ Store /\ n = Target.name /\ StoreTarget(Target.super, n, e)
  <2>1. CASE \E n \in Names, super \in BOOLEAN : SetVar(n, super)
    BY <2>1 DEF SetVar, HasOperand
  <2>2. CASE Store
    <3>1. Target.name \in Names
      BY <1>1, <2>2, TargetTyped DEF Store
    <3> QED BY <2>2, <3>1 DEF Store
  <2>3. CASE \E n \in Names : Rm(n)
    BY <1>1, <2>3 DEF Rm
  <2> QED BY <2>1, <2>2, <2>3
<1>3. \A s \in BindSlot \cup MemoSlot : s # Binding(e, n) => ref'[s] = ref[s]
  BY <1>1, <1>2 DEF TypeOK, Slot
<1>4. <<e, n>> \in Open /\ <<e, n>> \in Open'
  <2>1. CASE Free /\ UNCHANGED <<frames, depth>>
    <3>1. Free'
      BY <2>1 DEF Free, Assigning, Target, Top
    <3> QED BY <2>1, <3>1, FreeOpens, FreeOpensNext
  <2>2. CASE Store /\ n = Target.name /\ StoreTarget(Target.super, n, e)
    <3>1. <<e, n>> \in Open
      BY <2>2 DEF Open, Store
    <3>2. Free'
      BY <1>1, <2>2, StoredFree
    <3> QED BY <3>1, <3>2, FreeOpensNext
  <2> QED BY <1>2, <2>1, <2>2
<1> QED BY <1>1, <1>3, <1>4, OneVariable

\* A call gives its formal a promise, in an environment of its own.
LEMMA CallIsAssign ==
    ASSUME StableTargets, VInv, VInv', ~WritesInPlace,
           NEW outer \in Envs, NEW n \in Names, CallWith(outer, n)
    PROVE  \E e \in Envs : OneChanges(e, n)
<1>1. TypeOK /\ Next
  BY DEF VInv, IInv, Next
<1>2. PICK e \in Envs, h \in Handle :
        /\ Enter(e, Nil)
        /\ ref' = [ref EXCEPT ![Binding(e, n)] = h, ![<<"arg", depth + 1>>] = h]
  BY DEF CallWith
<1>3. \A s \in BindSlot \cup MemoSlot : s # Binding(e, n) => ref'[s] = ref[s]
  <2>1. \A s \in BindSlot \cup MemoSlot : s \in Slot /\ s # <<"arg", depth + 1>>
    BY DEF Slot, BindSlot, MemoSlot
  <2> QED BY <1>1, <1>2, <2>1 DEF TypeOK
<1>4. Free
  BY DEF CallWith, CanPush
<1>5. Free'
  <2>1. depth' \in Depth /\ depth' = depth + 1
    BY <1>1, <1>2, HeapAssumption DEF Enter, TypeOK, Depth
  <2>2. Top'.pend = <<>>
    BY <1>1, <1>2, <2>1 DEF Enter, Top, TypeOK
  <2> QED BY <2>2 DEF Free, Assigning
<1> QED BY <1>1, <1>3, <1>4, <1>5, FreeOpens, FreeOpensNext, OneVariable

\* An argument that has been evaluated is the value of one variable at most.
LEMMA ForcedIsAssign ==
    ASSUME StableTargets, VInv, VInv', PromiseOnce, ~WritesInPlace, ReturnForced
    PROVE  NoneChanges \/ \E e \in Envs, n \in Names : OneChanges(e, n)
<1>1. /\ TypeOK /\ StackInv /\ Next /\ Free /\ Leave(TRUE, Operand) /\ depth > 1
      /\ Top.prom # Nil /\ ref' = [ref EXCEPT ![<<"memo", Top.prom>>] = Operand]
  BY DEF VInv, IInv, Next, ReturnForced, HasOperand
<1> DEFINE q == Top.prom
           Named(e, n) == ref[Binding(e, n)] = q /\ kind[q] = "promise"
<1>2. /\ \A e \in Envs, n \in Names :
           Binding(e, n) \in Slot /\ Binding(e, n) \in BindSlot
      /\ \A e, n, h : Binding(e, n) # <<"memo", h>>
  BY SlotMembers DEF Binding, BindSlot
<1>3. ASSUME NEW e \in Envs, NEW n \in Names, ~Named(e, n)
      PROVE  VarValue(e, n)' = VarValue(e, n)
  <2>1. PICK b : b = ref[Binding(e, n)]
    OBVIOUS
  <2>2. ref'[Binding(e, n)] = b
    BY <1>1, <1>2, <2>1 DEF TypeOK
  <2>3. b # Nil => b \in Handle /\ <<"memo", b>> \in Slot
    BY <1>1, <1>2, <2>1, SlotMembers DEF TypeOK
  <2>4. b # Nil /\ kind[b] = "promise" => ref'[<<"memo", b>>] = ref[<<"memo", b>>]
    BY <1>1, <1>3, <2>1, <2>3 DEF TypeOK
  <2> QED BY <1>1, <2>1, <2>2, <2>4, VariableKept
<1>4. CASE \A e \in Envs, n \in Names : ~Named(e, n)
  BY <1>3, <1>4 DEF NoneChanges
<1>5. CASE \E e \in Envs, n \in Names : Named(e, n)
  <2>1. PICK e \in Envs, n \in Names : Named(e, n)
    BY <1>5
  <2>2. ASSUME NEW d \in Envs, NEW m \in Names, <<d, m>> # <<e, n>> PROVE ~Named(d, m)
    <3>1. Binding(d, m) # Binding(e, n)
      BY <2>2 DEF Binding
    <3> QED BY <1>1, <1>2, <2>1, <3>1 DEF PromiseOnce
  <2>3. Free'
    <3>1. PICK yes : yes = TRUE
      OBVIOUS
    <3>2. Leave(yes, Operand)
      BY <1>1, <3>1
    <3> QED BY <1>1, <3>2, LeftFree
  <2>4. <<e, n>> \in Open /\ <<e, n>> \in Open'
    BY <1>1, <2>3, FreeOpens, FreeOpensNext
  <2>5. \A d \in Envs, m \in Names :
          <<d, m>> # <<e, n>> => VarValue(d, m)' = VarValue(d, m)
    BY <1>3, <2>2
  <2> QED BY <2>4, <2>5 DEF OneChanges
<1> QED BY <1>4, <1>5

\* A frame that is left takes the variables of its environment with it, or none.
LEMMA LeaveIsDiscard ==
    ASSUME StableTargets, VInv, VInv', Next, ~WritesInPlace, LeaveClosure
    PROVE  NoneChanges \/ EnvGoes(Top.env)
<1>1. TypeOK /\ Top.env \in Envs
  BY TopTyped DEF VInv, IInv
<1> DEFINE gone == IF Captured(Top.env) THEN {} ELSE Bindings(Top.env)
<1>2. /\ ref' = [s \in Slot |-> IF s \in {<<"arg", depth>>} \cup gone THEN Nil ELSE ref[s]]
  BY DEF LeaveClosure, Cleared
<1>3. /\ \A e \in Envs, n \in Names : Binding(e, n) \in Slot
      /\ \A e, n : Binding(e, n) # <<"arg", depth>>
      /\ \A h : <<"memo", h>> # <<"arg", depth>> /\ <<"memo", h>> \notin gone
      /\ \A e, n : e # Top.env => Binding(e, n) \notin gone
      /\ \A h \in Handle : <<"memo", h>> \in Slot
  BY SlotMembers DEF Binding, Bindings
<1>4. ASSUME NEW e \in Envs, NEW n \in Names, Binding(e, n) \notin gone
      PROVE  VarValue(e, n)' = VarValue(e, n)
  <2>1. PICK b : b = ref[Binding(e, n)]
    OBVIOUS
  <2>2. b # Nil => b \in Handle
    BY <1>1, <1>3, <2>1 DEF TypeOK
  <2>3. ref'[Binding(e, n)] = b
    BY <1>2, <1>3, <1>4, <2>1
  <2>4. b # Nil => ref'[<<"memo", b>>] = ref[<<"memo", b>>]
    BY <1>2, <1>3, <2>2
  <2> QED BY <2>1, <2>3, <2>4, VariableKept
<1>5. CASE Captured(Top.env)
  BY <1>4, <1>5 DEF NoneChanges
<1>6. CASE ~Captured(Top.env)
  <2>1. ASSUME NEW e \in Envs, NEW n \in Names, e = Top.env
        PROVE  VarValue(e, n)' = Absent
    <3>1. Binding(e, n) \in gone
      BY <1>6, <2>1 DEF Bindings
    <3>2. ref'[Binding(e, n)] = Nil
      BY <1>2, <1>3, <3>1
    <3> QED BY <3>2 DEF VarValue
  <2>2. ASSUME NEW e \in Envs, NEW n \in Names, e # Top.env
        PROVE  VarValue(e, n)' = VarValue(e, n)
    BY <1>3, <1>4, <2>2
  <2> QED BY <2>1, <2>2 DEF EnvGoes
<1> QED BY <1>5, <1>6

\* Every step of the heap is one of the variables, or leaves them alone.
LEMMA StepAsValues ==
    ASSUME LocalTargets, StableTargets, VInv, VInv', PromiseOnce, Next
    PROVE  Values!Next
<1>1. Top.env \in Envs /\ TypeOK
  BY TopTyped DEF VInv, IInv
<1>2. CASE WritesInPlace
  BY <1>1, <1>2, WriteIsAssign, AsValues
<1> SUFFICES ASSUME ~WritesInPlace PROVE Values!Next
  BY <1>2
<1>3. CASE \/ \E n \in Names, super \in BOOLEAN : SetVar(n, super)
           \/ Store \/ \E n \in Names : Rm(n)
  BY <1>3, StoreIsAssign, AsValues
<1>4. CASE \E outer \in Envs, n \in Names : CallWith(outer, n)
  BY <1>4, CallIsAssign, AsValues
<1>5. CASE ReturnForced
  BY <1>5, ForcedIsAssign, AsValues
<1>6. CASE LeaveClosure
  BY <1>1, <1>6, LeaveIsDiscard, AsValues
<1>7. CASE \A s \in BindSlot \cup MemoSlot : ref'[s] = ref[s]
  BY <1>7, NoVariable, AsValues
<1>8. CASE List \/ RebuildList
  <2>1. \A s \in BindSlot \cup MemoSlot : s \in Slot /\ \A h, p : s # <<"elem", h, p>>
    BY DEF BindSlot, MemoSlot, Slot
  <2>2. \A s \in BindSlot \cup MemoSlot, h \in Handle : s \notin Elements(h)
    BY <2>1 DEF Elements
  <2>3. \A s \in BindSlot \cup MemoSlot : ref'[s] = ref[s]
    BY <1>1, <1>8, <2>1, <2>2 DEF List, RebuildList, Rebuilt, TypeOK
  <2> QED BY <1>7, <2>3
<1>9. CASE ref' = ref
  BY <1>7, <1>9
<1> QED
  BY <1>3, <1>4, <1>5, <1>6, <1>8, <1>9
  DEF Next, WritesInPlace, Literal, Pop, GetVar, ForcePromise, GetElem, BeginAssign,
      BeginNested, RebuildAtom, StoreInner, Call, MakeClosure, Return, Unwind

\* Copy-on-modify keeps the promise that R's variables hold values: whatever
\* objects the heap shares, every step of every program whose complex
\* assignments are to the running frame's own variables changes the one variable
\* it names and no other, and the end of a call takes that call's own variables
\* away (assign_index with may_mutate, bind_in, rm, call_closure, force_value).
THEOREM VariablesHoldValues ==
    ASSUME LocalTargets, StableTargets
    PROVE  Spec => ValueSemantics
<1> DEFINE V == [x \in Envs \X Names |-> VarValue(x[1], x[2])]
<1>1. Init => VInv /\ PromiseOnce /\ Values!Init
  <2>1. Init => PromiseOnce
    BY DEF Init, PromiseOnce, Slot
  <2> QED BY <2>1, InitValues, InitAsValues
<1>2. VInv /\ PromiseOnce /\ [Next]_vars => VInv' /\ PromiseOnce'
  <2> SUFFICES ASSUME VInv, PromiseOnce, [Next]_vars PROVE VInv' /\ PromiseOnce'
    OBVIOUS
  <2>1. VInv'
    BY NextValues
  <2>2. CASE Next
    BY <2>1, <2>2, PromiseOnceNext
  <2>3. CASE UNCHANGED vars
    BY <2>1, <2>3 DEF vars, PromiseOnce
  <2> QED BY <2>1, <2>2, <2>3
<1>3. VInv /\ VInv' /\ PromiseOnce /\ [Next]_vars => [Values!Next]_<<V, Open>>
  <2> SUFFICES ASSUME VInv, VInv', PromiseOnce, [Next]_vars
               PROVE  Values!Next \/ UNCHANGED <<V, Open>>
    OBVIOUS
  <2>1. CASE Next
    BY <2>1, StepAsValues
  <2>2. CASE UNCHANGED vars
    <3>1. ref' \in Refs /\ ref \in Refs
      BY DEF VInv, IInv, TypeOK, Refs
    <3>2. Open' = Open
      BY <2>2 DEF vars, Open, Assigning, Target, Top, StoreTarget, SuperTarget
    <3>3. Tree' = Tree
      <4>1. Tree = CHOOSE t : t = TreeLevel(t, kind, cell, ref)
        BY DEF Tree, TreeLevel, Levels, Elem
      <4>2. Tree' = CHOOSE t : t = TreeLevel(t, kind', cell', ref')
        BY DEF Tree, TreeLevel, Levels, Elem
      <4> QED BY <2>2, <4>1, <4>2 DEF vars
    <3>4. \A e \in Envs, n \in Names : VarValue(e, n)' = VarValue(e, n)
      BY <2>2, <3>3 DEF vars, VarValue, Forced, Value
    <3>5. V' = V
      BY <3>4
    <3> QED BY <3>2, <3>5
  <2> QED BY <2>1, <2>2
<1> QED BY <1>1, <1>2, <1>3, PTL DEF Spec, ValueSemantics, Values!Spec
=============================================================================
