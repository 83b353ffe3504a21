---------------------------- MODULE RHeapValues ----------------------------
(***************************************************************************)
(* The values that the heap of RHeap gives to variables and operands, and  *)
(* the properties of assignment stated over those values.                  *)
(***************************************************************************)
EXTENDS RHeap

CONSTANTS Absent, Lazy   \* no variable; an argument not evaluated yet

\* The value of object h, its elements followed k levels down.
Tree[k \in 0..MaxObj] == [h \in Handle \cup {Nil} |->
    IF h = Nil THEN <<"null">>
    ELSE IF kind[h] = "atom" THEN <<"atom", cell[h]>>
    ELSE IF k = 0 THEN <<"deep">>
    ELSE <<"list", [p \in Positions |-> Tree[k - 1][ref[<<"elem", h, p>>]]]>>]
Value(h) == Tree[MaxObj][h]

VarValue(e, n) ==
    LET h == ref[Binding(e, n)]
    IN  IF h = Nil THEN Absent
        ELSE IF Forced(h) = Nil THEN Lazy
        ELSE Value(Forced(h))

\* Once the object is written, an assignment only concerns its own target.
Open == IF Assigning /\ Target.written
        THEN {x \in Envs \X Names :
                 /\ x[2] = Target.name
                 /\ StoreTarget(Target.super, x[2], x[1])}
        ELSE Envs \X Names

\* README: y <- x; y[1] <- 9 leaves x alone.  Whatever way the heap shares
\* objects, an assignment changes the variable it names and no other.
Values == INSTANCE RValues
              WITH val  <- [x \in Envs \X Names |-> VarValue(x[1], x[2])],
                   open <- Open
ValueSemantics == Values!Spec

-----------------------------------------------------------------------------
\* A list never comes to contain itself, directly or through its elements:
\* x[[1]] <- x builds a new list (the operand scan of may_mutate).
Inside(S) == (S \cup {ref[<<"elem", h, p>>] : h \in S, p \in Positions}) \ {Nil}
Reach[k \in 0..MaxObj] == [h \in Handle |->
    IF k = 0 THEN {ref[<<"elem", h, p>>] : p \in Positions} \ {Nil}
    ELSE Inside(Reach[k - 1][h])]
Acyclic == \A h \in 1..len : h \notin Reach[MaxObj][h]

\* The value of an operand that stays where it is on the stack of frame d.
Kept(d) ==
    LET st == frames[d].stack IN
    \A i \in DOMAIN st \cap DOMAIN frames'[d].stack :
        frames'[d].stack[i] = st[i] => Tree'[MaxObj][st[i]] = Value(st[i])

\* The values waiting on the running frame's operand stack are not disturbed
\* by what the frame executes above them: a pending argument, the right-hand
\* side of a pending assignment, the object of an outer one.
RunningOperandsKept == [][Kept(depth)]_vars

\* Nor are the operands that wait on the stacks of the calling frames (the
\* pending operands that the comment on may_mutate says are scanned).
OperandsKept == [][\A d \in 1..depth : Kept(d)]_vars
=============================================================================
