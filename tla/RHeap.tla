------------------------------- MODULE RHeap -------------------------------
(***************************************************************************)
(* The R heap of rlang: objects, the count of durable references each one  *)
(* carries, the environments and call frames that hold those references,   *)
(* and copy-on-modify assignment, which writes into an object when its     *)
(* count allows and rebuilds it otherwise.                                 *)
(*                                                                         *)
(* A program is any sequence of the operations the compiler emits.  Each   *)
(* call frame runs on a virtual machine of its own, with its own operand   *)
(* stack; operands are not counted references.                             *)
(***************************************************************************)
EXTENDS Integers, Sequences, FiniteSets

CONSTANTS
    Names,        \* variable names
    Envs,         \* environments (the Rc cells of host.rs)
    Global,       \* the global environment
    Cells,        \* contents of an atomic vector
    Positions,    \* element positions of a list
    Nil,          \* no reference
    MaxObj,       \* bound: heap length
    MaxLists,     \* bound: lists that list() builds
    MaxDepth,     \* MAX_DEPTH, the limit on nested calls
    MaxStack,     \* bound: operands on one stack
    MaxWaiting,   \* bound: operands a frame leaves waiting while it calls
    RefMax,       \* REFCNT_MAX, the count at which counting stops
    LocalTargets, \* programs considered: a complex assignment only targets a
                  \* variable that the running frame's own environment binds
    StableTargets \* programs considered: evaluating its subscripts does not
                  \* rebind that variable

Handle == 1..MaxObj
Depth  == 1..MaxDepth

\* The places that keep an object: an environment binding, a list element,
\* a forced promise's value, a call frame's argument list.
BindSlot == {"bind"} \X Envs \X Names
ElemSlot == {"elem"} \X Handle \X Positions
MemoSlot == {"memo"} \X Handle
ArgSlot  == {"arg"} \X Depth
Slot     == BindSlot \cup ElemSlot \cup MemoSlot \cup ArgSlot

ASSUME HeapAssumption ==
    /\ IsFiniteSet(Names) /\ IsFiniteSet(Envs) /\ IsFiniteSet(Positions)
    /\ Global \in Envs
    /\ MaxObj \in Nat /\ MaxLists \in Nat /\ MaxDepth \in Nat \ {0}
    /\ MaxStack \in Nat /\ MaxWaiting \in Nat
    /\ RefMax \in Nat /\ RefMax > 1
    /\ Nil \notin Handle
    /\ LocalTargets \in BOOLEAN /\ StableTargets \in BOOLEAN

VARIABLES
    len,     \* heap length: handles 1..len are allocated
    kind,    \* an object's data variant
    cell,    \* an atomic vector's content
    writer,  \* the environment a promise's expression was written in
    ref,     \* what each durable place holds
    rc,      \* RObj.refcnt
    chain,   \* an environment and its enclosures, innermost first
    held,    \* environments a closure on the heap encloses
    depth,   \* number of call frames
    frames   \* the call frames and their operand stacks

vars == <<len, kind, cell, writer, ref, rc, chain, held, depth, frames>>

Kinds == {"free", "atom", "list", "promise"}

\* A pending complex assignment name[[pos]] <- v, or name[[pos]][[pos]] <- v while
\* inner: the operand stack stood at base once its object had been pushed.
\* Once written, only the store of the result is left.
Pending == [name : Names, super : BOOLEAN, pos : Positions,
            inner : BOOLEAN, written : BOOLEAN, base : Nat \ {0, 1}]

\* prom is the promise a frame forces, Nil for a closure's frame.
Frame == [env : Envs, prom : Handle \cup {Nil},
          stack : Seq(Handle), pend : Seq(Pending)]

EmptyFrame == [env |-> Global, prom |-> Nil, stack |-> <<>>, pend |-> <<>>]

\* Only the innermost pending assignment can have been written, and its result
\* is then on the stack.
WrittenLast ==
    \A d \in Depth : \A i \in DOMAIN frames[d].pend :
        frames[d].pend[i].written =>
            i = Len(frames[d].pend) /\ frames[d].stack # <<>>

\* The type of the state.
TypeOK ==
    /\ len \in 0..MaxObj
    /\ kind \in [Handle -> Kinds]
    /\ cell \in [Handle -> Cells \cup {Nil}]
    /\ writer \in [Handle -> Envs]
    /\ ref \in [Slot -> Handle \cup {Nil}]
    /\ rc \in [Handle -> 0..RefMax]
    /\ chain \in [Envs -> Seq(Envs)]
    /\ held \subseteq Envs
    /\ depth \in Depth
    /\ frames \in [Depth -> Frame] /\ WrittenLast

Init ==
    /\ len = 0
    /\ kind = [h \in Handle |-> "free"]
    /\ cell = [h \in Handle |-> Nil]
    /\ writer = [h \in Handle |-> Global]
    /\ ref = [s \in Slot |-> Nil]
    /\ rc = [h \in Handle |-> 0]
    /\ chain = [e \in Envs |-> IF e = Global THEN <<Global>> ELSE <<>>]
    /\ held = {Global}
    /\ depth = 1
    /\ frames = [d \in Depth |-> EmptyFrame]

-----------------------------------------------------------------------------
(* Reference counts *)

\* Mutant: retain without the check that stops counting at REFCNT_MAX.
RetainUncapped(r, h) == IF h = Nil THEN r ELSE [r EXCEPT ![h] = @ + 1]

\* host.rs retain / release of one value; Nil stands for no value.
Retain(r, h) ==
    IF h = Nil THEN r
    ELSE [r EXCEPT ![h] = IF @ = RefMax THEN @ ELSE @ + 1]
Release(r, h) ==
    IF h = Nil THEN r
    ELSE [r EXCEPT ![h] = IF @ \in {0, RefMax} THEN @ ELSE @ - 1]

\* Mutant: bind_in gives the displaced value back and forgets the new one.
RebindUnretained(r, old, new) == IF old = new THEN r ELSE Release(r, old)

\* A slot takes a new value: bind_in's early return, release, then retain.
Rebind(r, old, new) ==
    IF old = new THEN r ELSE Retain(Release(r, old), new)

\* Retaining, or releasing, what f holds in every slot of S, one by one.
Times(S, f, h) == Cardinality({s \in S : f[s] = h})
RetainEach(r, S, f) ==
    [h \in Handle |-> IF r[h] + Times(S, f, h) >= RefMax THEN RefMax
                      ELSE r[h] + Times(S, f, h)]
ReleaseEach(r, S, f) ==
    [h \in Handle |-> IF r[h] = RefMax THEN RefMax
                      ELSE IF r[h] > Times(S, f, h) THEN r[h] - Times(S, f, h)
                      ELSE 0]

-----------------------------------------------------------------------------
(* Frames, operands and names *)

Top   == frames[depth]
Stack == Top.stack
Operand == Stack[Len(Stack)]

\* The innermost assignment pending in the running frame.
Assigning == Top.pend # <<>>
Target    == Top.pend[Len(Top.pend)]

\* Instructions work above the operands of the pending assignment, whose store
\* directly follows its write.
Floor      == IF Assigning THEN Target.base ELSE 0
Free       == Assigning => ~Target.written
HasOperand == Free /\ Len(Stack) > Floor
CanPush(k) == Free /\ Len(Stack) + k <= MaxStack

SetTop(f)    == frames' = [frames EXCEPT ![depth] = f]
SetStack(st) == SetTop([Top EXCEPT !.stack = st])

Binding(e, n) == <<"bind", e, n>>

\* The first environment of the chain that binds n: lookup_from.
Resolves(e, n, r) ==
    \E i \in DOMAIN chain[e] :
        /\ r = chain[e][i]
        /\ ref[Binding(r, n)] # Nil
        /\ \A j \in 1..(i - 1) : ref[Binding(chain[e][j], n)] = Nil

\* Where n <<- v stores: the nearest enclosure that binds n, else Global.
SuperTarget(e, n, r) ==
    \/ \E i \in DOMAIN chain[e] \ {1} :
           /\ r = chain[e][i]
           /\ ref[Binding(r, n)] # Nil
           /\ \A j \in 2..(i - 1) : ref[Binding(chain[e][j], n)] = Nil
    \/ /\ r = Global
       /\ \A j \in DOMAIN chain[e] \ {1} : ref[Binding(chain[e][j], n)] = Nil

StoreTarget(super, n, r) ==
    IF super THEN SuperTarget(Top.env, n, r) ELSE r = Top.env

\* What reading a binding yields: a promise answers its value once forced.
Forced(h) == IF h = Nil THEN Nil
             ELSE IF kind[h] = "promise" THEN ref[<<"memo", h>>] ELSE h

\* The running frame reads n and gets the object h.
Reads(n, r, h) ==
    /\ Resolves(Top.env, n, r)
    /\ h = Forced(ref[Binding(r, n)])
    /\ h # Nil

-----------------------------------------------------------------------------
(* Allocation *)

\* A new object at the end of the heap; its count starts at zero.
Alloc(h, k) ==
    /\ len < MaxObj
    /\ h = len + 1
    /\ len' = h
    /\ kind' = [kind EXCEPT ![h] = k]

Unchanged_heap == UNCHANGED <<len, kind, cell, writer>>
Unchanged_envs == UNCHANGED <<chain, held>>

\* A literal vector, or any primitive that answers a fresh atomic vector.
Literal ==
    /\ CanPush(1)
    /\ \E h \in Handle, c \in Cells :
         /\ Alloc(h, "atom")
         /\ cell' = [cell EXCEPT ![h] = c]
         /\ SetStack(Append(Stack, h))
    /\ UNCHANGED <<writer, ref, rc, depth>> /\ Unchanged_envs

\* list(v): a container retains what it is built from.
List ==
    /\ HasOperand
    /\ Cardinality({g \in Handle : kind[g] = "list"}) < MaxLists
    /\ \E h \in Handle, p \in Positions :
         /\ Alloc(h, "list")
         /\ ref' = [ref EXCEPT ![<<"elem", h, p>>] = Operand]
         /\ rc' = Retain(rc, Operand)
         /\ SetStack(Append(SubSeq(Stack, 1, Len(Stack) - 1), h))
    /\ UNCHANGED <<cell, writer, depth>> /\ Unchanged_envs

-----------------------------------------------------------------------------
(* Reading and simple assignment *)

\* GETVAR of a name whose value is at hand.
GetVar(n) ==
    /\ CanPush(1)
    /\ \E r \in Envs, h \in Handle :
         Reads(n, r, h) /\ SetStack(Append(Stack, h))
    /\ UNCHANGED <<ref, rc, depth>> /\ Unchanged_heap /\ Unchanged_envs

\* v[[p]]: the element's own handle is pushed, not a copy.
GetElem(p) ==
    /\ HasOperand
    /\ kind[Operand] = "list"
    /\ ref[<<"elem", Operand, p>>] # Nil
    /\ SetStack(Append(SubSeq(Stack, 1, Len(Stack) - 1),
                       ref[<<"elem", Operand, p>>]))
    /\ UNCHANGED <<ref, rc, depth>> /\ Unchanged_heap /\ Unchanged_envs

\* n <- v and n <<- v; the value stays as the assignment's own value.
SetVar(n, super) ==
    /\ HasOperand
    /\ \E r \in Envs :
         /\ StoreTarget(super, n, r)
         /\ rc' = Rebind(rc, ref[Binding(r, n)], Operand)
         /\ ref' = [ref EXCEPT ![Binding(r, n)] = Operand]
    /\ UNCHANGED <<depth, frames>> /\ Unchanged_heap /\ Unchanged_envs

Pop ==
    /\ HasOperand
    /\ SetStack(SubSeq(Stack, 1, Len(Stack) - 1))
    /\ UNCHANGED <<ref, rc, depth>> /\ Unchanged_heap /\ Unchanged_envs

\* rm(n) takes the binding away and leaves the count as it is.
Rm(n) ==
    /\ Free
    /\ ref[Binding(Top.env, n)] # Nil
    /\ ref' = [ref EXCEPT ![Binding(Top.env, n)] = Nil]
    /\ UNCHANGED <<rc, depth, frames>> /\ Unchanged_heap /\ Unchanged_envs

-----------------------------------------------------------------------------
(* Complex assignment: n[[p]] <- v and n[[p]][[p]] <- v *)

\* The right-hand side is on top of the stack; it is duplicated, as it is the
\* value of the whole assignment, and the target's object is pushed.
Begin(n, super, p, inner, obj) ==
    SetTop([Top EXCEPT
        !.stack = @ \o <<Operand, obj>>,
        !.pend  = Append(@, [name |-> n, super |-> super, pos |-> p,
                             inner |-> inner, written |-> FALSE,
                             base |-> Len(Stack) + 2])])

Targetable(r, super) == LocalTargets => r = Top.env /\ ~super

BeginAssign(n, super, p) ==
    /\ HasOperand /\ CanPush(2)
    /\ \E r \in Envs, h \in Handle :
         /\ Reads(n, r, h)
         /\ Targetable(r, super)
         /\ Begin(n, super, p, FALSE, h)
    /\ UNCHANGED <<ref, rc, depth>> /\ Unchanged_heap /\ Unchanged_envs

\* Mutant: the compiler emits no MARK_SHARED for an intermediate object.
NotPinned(h) == rc

\* MARK_SHARED: an object reached through a container is pinned as shared.
Pinned(h) == [rc EXCEPT ![h] = RefMax]

BeginNested(n, super, p) ==
    /\ HasOperand /\ CanPush(2)
    /\ \E r \in Envs, h \in Handle :
         /\ Reads(n, r, h)
         /\ Targetable(r, super)
         /\ kind[h] = "list"
         /\ ref[<<"elem", h, p>>] # Nil
         /\ Begin(n, super, p, TRUE, ref[<<"elem", h, p>>])
         /\ rc' = Pinned(ref[<<"elem", h, p>>])
    /\ UNCHANGED <<ref, depth>> /\ Unchanged_heap /\ Unchanged_envs

\* The operands of the pending write, and the stack once they are popped.
Obj   == Stack[Target.base]
Val   == Stack[Target.base - 1]
Below == SubSeq(Stack, 1, Target.base - 2)

OnStack(h, st) == \E i \in DOMAIN st : st[i] = h

\* Mutants: an object with two references counts as private; the pending
\* operands are not looked at.
MayMutateShared(h) == rc[h] <= 2 /\ ~OnStack(h, Below)
MayMutateUnscanned(h) == rc[h] <= 1

\* Whether h may be written into: no other durable reference, and no operand
\* of the running virtual machine.
MayMutate(h) == rc[h] <= 1 /\ ~OnStack(h, Below)

\* The variable of the pending assignment still holds the object pushed; where
\* targets are local, it is still the running frame's own variable.
StillBound == \E r \in Envs, h \in Handle :
    /\ Reads(Target.name, r, h)
    /\ Targetable(r, Target.super)
    /\ h = Obj \/ Target.inner

ReadyToWrite ==
    /\ Assigning /\ ~Target.written
    /\ Len(Stack) = Target.base
    /\ StableTargets => StillBound

Written(res) ==
    SetTop([Top EXCEPT
        !.stack = Append(Below, res),
        !.pend  = [@ EXCEPT ![Len(@)] = [Target EXCEPT !.written = TRUE]]])

IntoAtom == kind[Obj] = "atom" /\ kind[Val] = "atom"
WriteAtomInPlace ==
    /\ ReadyToWrite
    /\ IntoAtom /\ MayMutate(Obj)
    /\ cell' = [cell EXCEPT ![Obj] = cell[Val]]
    /\ Written(Obj)
    /\ UNCHANGED <<len, kind, writer, ref, rc, depth>> /\ Unchanged_envs

\* set_list_elements: the displaced element is released, the value retained.
WriteListInPlace ==
    /\ ReadyToWrite
    /\ kind[Obj] = "list" /\ MayMutate(Obj)
    /\ ref' = [ref EXCEPT ![<<"elem", Obj, Target.pos>>] = Val]
    /\ rc' = Retain(Release(rc, ref[<<"elem", Obj, Target.pos>>]), Val)
    /\ Written(Obj)
    /\ UNCHANGED <<depth>> /\ Unchanged_heap /\ Unchanged_envs

RebuildAtom ==
    /\ ReadyToWrite
    /\ IntoAtom /\ ~MayMutate(Obj)
    /\ \E h \in Handle :
         /\ Alloc(h, "atom")
         /\ cell' = [cell EXCEPT ![h] = cell[Val]]
         /\ Written(h)
    /\ UNCHANGED <<writer, ref, rc, depth>> /\ Unchanged_envs

\* The elements of a rebuilt list; an atomic vector that receives a list is
\* promoted, its own elements being fresh copies that nothing refers to.
Elements(h) == {<<"elem", h, p>> : p \in Positions}
Rebuilt(h) == [s \in Slot |->
    IF s \notin Elements(h) THEN ref[s]
    ELSE IF s[3] = Target.pos THEN Val
    ELSE IF kind[Obj] = "list" THEN ref[<<"elem", Obj, s[3]>>] ELSE Nil]

RebuildList ==
    /\ ReadyToWrite
    /\ ~IntoAtom
    /\ kind[Obj] = "list" => ~MayMutate(Obj)
    /\ \E h \in Handle :
         /\ Alloc(h, "list")
         /\ ref' = Rebuilt(h)
         /\ rc' = RetainEach(rc, Elements(h), Rebuilt(h))
         /\ Written(h)
    /\ UNCHANGED <<cell, writer, depth>> /\ Unchanged_envs

\* The result goes back into the target variable; the assignment's value, the
\* right-hand side, is left on the stack.
Store ==
    /\ Assigning /\ Target.written /\ ~Target.inner
    /\ \E r \in Envs :
         /\ StoreTarget(Target.super, Target.name, r)
         /\ rc' = Rebind(rc, ref[Binding(r, Target.name)], Operand)
         /\ ref' = [ref EXCEPT ![Binding(r, Target.name)] = Operand]
    /\ SetTop([Top EXCEPT !.stack = SubSeq(@, 1, Len(@) - 1),
                           !.pend  = SubSeq(@, 1, Len(@) - 1)])
    /\ UNCHANGED <<depth>> /\ Unchanged_heap /\ Unchanged_envs

\* The element is rebuilt: now n[[p]] <- that element, with n read again.
StoreInner ==
    /\ Assigning /\ Target.written /\ Target.inner
    /\ \E r \in Envs, h \in Handle :
         /\ Reads(Target.name, r, h)
         /\ SetTop([Top EXCEPT
                !.stack = Append(@, h),
                !.pend  = [@ EXCEPT ![Len(@)] =
                    [Target EXCEPT !.inner = FALSE, !.written = FALSE]]])
    /\ UNCHANGED <<ref, rc, depth>> /\ Unchanged_heap /\ Unchanged_envs

-----------------------------------------------------------------------------
(* Calls and promises *)

Enter(e, prom) ==
    /\ depth < MaxDepth
    /\ Len(Stack) <= MaxWaiting
    /\ depth' = depth + 1
    /\ frames' = [frames EXCEPT
           ![depth + 1] = [env |-> e, prom |-> prom, stack |-> <<>>, pend |-> <<>>]]

\* A closure over outer is called: its frame's environment encloses outer.
NewEnv(e, outer) ==
    /\ chain[e] = <<>>
    /\ chain' = [chain EXCEPT ![e] = <<e>> \o chain[outer]]

Call(outer) ==
    /\ CanPush(1)
    /\ outer \in held
    /\ \E e \in Envs : NewEnv(e, outer) /\ Enter(e, Nil)
    /\ UNCHANGED <<ref, rc, held>> /\ Unchanged_heap

\* The same with one argument, promised over the caller's environment: the
\* formal n and the frame's argument list both hold the promise.
CallWith(outer, n) ==
    /\ CanPush(1)
    /\ outer \in held
    /\ \E e \in Envs, h \in Handle :
         /\ NewEnv(e, outer) /\ Enter(e, Nil)
         /\ Alloc(h, "promise")
         /\ writer' = [writer EXCEPT ![h] = Top.env]
         /\ ref' = [ref EXCEPT ![Binding(e, n)] = h, ![<<"arg", depth + 1>>] = h]
         /\ rc' = Retain(Retain(rc, h), h)
    /\ held' = held \cup {Top.env}
    /\ UNCHANGED cell

\* GETVAR of an unforced promise runs its expression where it was written.
ForcePromise(n) ==
    /\ CanPush(1)
    /\ \E r \in Envs :
         /\ Resolves(Top.env, n, r)
         /\ kind[ref[Binding(r, n)]] = "promise"
         /\ Forced(ref[Binding(r, n)]) = Nil
         /\ Enter(writer[ref[Binding(r, n)]], ref[Binding(r, n)])
    /\ UNCHANGED <<ref, rc>> /\ Unchanged_heap /\ Unchanged_envs

\* A closure defined in the running frame keeps its environment alive.
MakeClosure ==
    /\ Free
    /\ held' = held \cup {Top.env}
    /\ UNCHANGED <<ref, rc, chain, depth, frames>> /\ Unchanged_heap

\* The frame below, with res pushed if the frame above answered one.
Leave(push, res) ==
    /\ depth' = depth - 1
    /\ frames' = [frames EXCEPT
           ![depth] = EmptyFrame,
           ![depth - 1].stack = IF push THEN Append(@, res) ELSE @]

\* Whether some closure keeps environment e alive, by way of its enclosures.
Captured(e) == \E o \in held : \E i \in DOMAIN chain[o] : chain[o][i] = e

Bindings(e) == {Binding(e, n) : n \in Names}
Cleared(S) == [s \in Slot |-> IF s \in S THEN Nil ELSE ref[s]]

\* A closure's frame is left, by a value or by an error: its argument is
\* released, and its bindings are when the environment dies with the frame.
LeaveClosure ==
    LET arg  == {<<"arg", depth>>}
        gone == IF Captured(Top.env) THEN {} ELSE Bindings(Top.env)
    IN  /\ ref' = Cleared(arg \cup gone)
        /\ rc' = ReleaseEach(ReleaseEach(rc, arg, ref), gone, ref)
        /\ chain' = IF Captured(Top.env) THEN chain
                    ELSE [chain EXCEPT ![Top.env] = <<>>]
        /\ UNCHANGED held /\ Unchanged_heap

Return ==
    /\ depth > 1 /\ Top.prom = Nil
    /\ HasOperand /\ ~Assigning
    /\ Leave(TRUE, Operand)
    /\ LeaveClosure

\* The promise remembers its value and retains it; what it may have remembered
\* meanwhile is not released.
ReturnForced ==
    /\ depth > 1 /\ Top.prom # Nil
    /\ HasOperand /\ ~Assigning
    /\ Leave(TRUE, Operand)
    /\ ref' = [ref EXCEPT ![<<"memo", Top.prom>>] = Operand]
    /\ rc' = Retain(rc, Operand)
    /\ Unchanged_heap /\ Unchanged_envs

\* An error leaves the frame, to be caught in the one below or to go on.
Unwind ==
    /\ depth > 1
    /\ Leave(FALSE, Nil)
    /\ IF Top.prom = Nil THEN LeaveClosure
       ELSE UNCHANGED <<ref, rc>> /\ Unchanged_heap /\ Unchanged_envs

-----------------------------------------------------------------------------
Next ==
    \/ Literal \/ List \/ Pop
    \/ \E n \in Names : GetVar(n) \/ Rm(n) \/ ForcePromise(n)
    \/ \E p \in Positions : GetElem(p)
    \/ \E n \in Names, super \in BOOLEAN : SetVar(n, super)
    \/ \E n \in Names, super \in BOOLEAN, p \in Positions :
           BeginAssign(n, super, p) \/ BeginNested(n, super, p)
    \/ WriteAtomInPlace \/ WriteListInPlace \/ RebuildAtom \/ RebuildList
    \/ Store \/ StoreInner
    \/ \E outer \in Envs : Call(outer)
    \/ \E outer \in Envs, n \in Names : CallWith(outer, n)
    \/ MakeClosure \/ Return \/ ReturnForced \/ Unwind

Spec == Init /\ [][Next]_vars

-----------------------------------------------------------------------------
(* Properties *)

\* The durable places that hold h.
Places(h) == {s \in Slot : ref[s] = h}

\* A reference count is never below the number of places that hold the
\* object, however they came to hold it, unless counting stopped (retain,
\* release, bind_in, set_list_elements, alloc_with, call_closure, force_value).
RefcountSound ==
    \A h \in Handle : rc[h] = RefMax \/ rc[h] >= Cardinality(Places(h))

\* An allocated object is changed where it stands.
Changed(h) ==
    /\ h <= len
    /\ cell'[h] # cell[h] \/ \E s \in Elements(h) : ref'[s] # ref[s]

\* An object is written in place only if at most one durable place holds it
\* (may_mutate's contract with with_data_mut and set_list_elements).
WritesArePrivate ==
    [][\A h \in Handle : Changed(h) => Cardinality(Places(h)) <= 1]_vars
=============================================================================
