------------------------------ MODULE RValues ------------------------------
(***************************************************************************)
(* What copy-on-modify promises an R program: variables hold values, not   *)
(* references.  An assignment gives one variable a new value, the one it   *)
(* names, and no other variable notices.                                   *)
(***************************************************************************)
CONSTANTS Envs, Names, Absent

VARIABLES
    val,    \* the value of each variable of each environment
    open    \* the variables that the assignment in progress may change

Variable == Envs \X Names

Init ==
    /\ val = [x \in Variable |-> Absent]
    /\ open = Variable

\* Variable x takes a value: assigned, removed, or an argument evaluated.
Assign(x) ==
    /\ x \in open \cap open'
    /\ \E v \in {val'[x]} : val' = [val EXCEPT ![x] = v]

\* A call is over and nothing refers to its environment any more.
Discard(e) ==
    val' = [x \in Variable |-> IF x[1] = e THEN Absent ELSE val[x]]

\* An assignment settles on its target, or is through, changing nothing.
Settle == val' = val

Next ==
    \/ Settle
    \/ \E x \in Variable : Assign(x)
    \/ \E e \in Envs : Discard(e)

Spec == Init /\ [][Next]_<<val, open>>
=============================================================================
