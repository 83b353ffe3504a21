------------------------------- MODULE Machine -------------------------------
(***************************************************************************)
(* The virtual machine that runs what src/compiler.rs emits: the code of a *)
(* chunk is a sequence of operations, records with a field "o" and often   *)
(* one "arg", whose jumps are relative.  One action runs one operation.    *)
(*                                                                         *)
(* Values are vectors of small integers, strings or logicals (0 and 1); an *)
(* unboxed native number has the type "num", the boxed one "int".          *)
(***************************************************************************)
EXTENDS Integers, Sequences, SequencesExt, FiniteSets

CONSTANT NA     \* the missing element

-----------------------------------------------------------------------------
(***************************************************************************)
(* Values, and the operators that machine and meaning share.               *)
(***************************************************************************)

Vec(t, elems) == [t |-> t, elems |-> elems]
Num(n) == Vec("num", <<n>>)
Lgl(x) == Vec("lgl", <<x>>)
Bool(b) == IF b THEN 1 ELSE 0
Null == Vec("null", <<>>)
Err == Vec("err", <<>>)
TryError == Vec("try-error", <<>>)

\* A value as the program sees it, which cannot tell an unboxed number.
Boxed(v) == IF v.t = "num" THEN Vec("int", v.elems) ELSE v

Numeric(v) == v.t \in {"num", "int", "lgl"}
LglOf(x) == IF x = NA THEN NA ELSE Bool(x # 0)

\* An operator on two elements; a missing one makes the result missing.
Apply2(op, a, b) ==
    IF NA \in {a, b} THEN NA
    ELSE CASE op = "+" -> a + b [] op = "-" -> a - b [] op = "*" -> a * b
           [] op = "<" -> Bool(a < b) [] op = "<=" -> Bool(a <= b) [] op = "==" -> Bool(a = b)

\* The and and the or of three-valued logic.
And3(x, y) == IF 0 \in {x, y} THEN 0 ELSE IF NA \in {x, y} THEN NA ELSE 1
Or3(x, y) == IF 1 \in {x, y} THEN 1 ELSE IF NA \in {x, y} THEN NA ELSE 0

\* a:b as an expression.
Colon(l, r) ==
    IF l.elems = <<>> \/ r.elems = <<>> \/ ~Numeric(l) \/ ~Numeric(r) THEN Err
    ELSE LET a == l.elems[1]
             b == r.elems[1]
         IN  IF NA \in {a, b} THEN Err
             ELSE Vec("int", IF a <= b THEN [i \in 1..b - a + 1 |-> a + i - 1]
                                       ELSE [i \in 1..a - b + 1 |-> a - i + 1])

\* A binary operator: element by element, the shorter operand recycled.  Two
\* unboxed numbers stay unboxed under the native + - *.
Binary(op, l, r) ==
    IF op = ":" THEN Colon(l, r)
    ELSE IF ~Numeric(l) \/ ~Numeric(r) THEN Err
    ELSE LET ll == Len(l.elems)
             lr == Len(r.elems)
             n  == IF ll = 0 \/ lr = 0 THEN 0 ELSE IF ll > lr THEN ll ELSE lr
             at(v, i) == v.elems[((i - 1) % Len(v.elems)) + 1]
             type == IF op \in {"<", "<=", "==", "&", "|"} THEN "lgl"
                     ELSE IF l.t = "num" /\ r.t = "num" THEN "num" ELSE "int"
         IN  Vec(type, [i \in 1..n |->
                CASE op = "&" -> And3(LglOf(at(l, i)), LglOf(at(r, i)))
                  [] op = "|" -> Or3(LglOf(at(l, i)), LglOf(at(r, i)))
                  [] OTHER    -> Apply2(op, at(l, i), at(r, i))])

\* The truth of a condition, or why it has none.
condition_truth(v) ==
    IF Len(v.elems) # 1 \/ ~Numeric(v) THEN Err
    ELSE IF v.elems[1] = NA THEN Err ELSE Lgl(LglOf(v.elems[1]))

\* One operand of && or ||, as one logical.
logic2_operand(v) ==
    IF ~Numeric(v) \/ Len(v.elems) > 1 THEN Err
    ELSE IF v.elems = <<>> THEN Lgl(NA) ELSE Lgl(LglOf(v.elems[1]))

\* x[i] and x[i] <- v for one element; one past the end grows the vector.
Index(x, i) ==
    IF ~Numeric(i) \/ Len(i.elems) # 1 THEN Err
    ELSE Vec(Boxed(x).t,
             <<IF i.elems[1] \in DOMAIN x.elems THEN x.elems[i.elems[1]] ELSE NA>>)
IndexSet(x, i, v) ==
    IF ~Numeric(i) \/ Len(i.elems) # 1 \/ ~Numeric(v) \/ Len(v.elems) # 1 THEN Err
    ELSE IF i.elems[1] \notin 1..Len(x.elems) + 1 THEN Err
    ELSE Vec("int", [j \in 1..(IF i.elems[1] > Len(x.elems) THEN i.elems[1] ELSE Len(x.elems)) |->
                        IF j = i.elems[1] THEN v.elems[1] ELSE x.elems[j]])

\* Functions the programs call: cat writes its argument and is invisible,
\* length is an ordinary primitive, rev reverses and has a replacement form.
Call(f, v) ==
    CASE f = "cat"    -> Null
      [] f = "length" -> Num(Len(v.elems))
      [] f = "rev"    -> Vec(Boxed(v).t, Reverse(v.elems))
Replace(f, x, v) == IF Len(x.elems) = Len(v.elems) THEN Vec("int", Reverse(v.elems)) ELSE Err

\* The branch switch(x, ...) selects, 0 for none.
SwitchIndex(x, names) ==
    LET named(n) == {j \in DOMAIN names : names[j] = n}
        least(S) == IF S = {} THEN 0 ELSE CHOOSE j \in S : \A l \in S : j <= l
    IN  IF Len(x.elems) # 1 THEN Err
        ELSE IF x.elems[1] = NA THEN Num(0)
        ELSE IF x.t = "str" THEN
             Num(IF named(x.elems[1]) # {} THEN least(named(x.elems[1])) ELSE least(named("")))
        ELSE Num(IF x.elems[1] \in DOMAIN names THEN x.elems[1] ELSE 0)

-----------------------------------------------------------------------------
(***************************************************************************)
(* The state: one chunk per frame, the body of try in a frame of its own;  *)
(* the environment holds the variables that are not slots.                 *)
(***************************************************************************)

VARIABLES
    prog,       \* the program and the mode it was compiled in
    mode,
    frames,     \* the running chunks: code, position, operand stack, slots
    env,        \* the variables kept by name
    visible,    \* whether the last value is to be echoed
    signal,     \* a break or next on its way out of a lazy body
    out,        \* what cat has written
    echoed,     \* what has been echoed
    status      \* "running", "done" or "error"

vars == <<prog, mode, frames, env, visible, signal, out, echoed, status>>

Frame(code) == [code |-> code, pc |-> 1, stack |-> <<>>, slots |-> <<>>]

\* The machine before the first operation of code.
Loaded(code) ==
    /\ frames = <<Frame(code)>>
    /\ env = <<>>
    /\ visible = TRUE
    /\ signal = "none"
    /\ out = <<>>
    /\ echoed = <<>>
    /\ status = "running"

Cur == Last(frames)
AtEnd == Cur.pc > Len(Cur.code)
Here == Cur.code[Cur.pc]
Doing(ops) == status = "running" /\ ~AtEnd /\ Here.o \in ops

\* The i-th value from the top of the operand stack, and the stack with the
\* top n replaced by the values vs.
Top(i) == Cur.stack[Len(Cur.stack) - i + 1]
Put(n, vs) == SubSeq(Cur.stack, 1, Len(Cur.stack) - n) \o vs

Bind(f, x, v) == [y \in DOMAIN f \cup {x} |-> IF y = x THEN v ELSE f[y]]

Going(stack, pc, slots) ==
    frames' = [frames EXCEPT ![Len(frames)] =
                 [code |-> Cur.code, pc |-> pc, stack |-> stack, slots |-> slots]]
Go(n, vs) == Going(Put(n, vs), Cur.pc + 1, Cur.slots)

\* An error ends the chunk; try answers for the ones of its body.
Abort ==
    IF Len(frames) = 1
    THEN status' = "error" /\ UNCHANGED <<frames, visible>>
    ELSE LET caller == frames[Len(frames) - 1]
         IN  /\ frames' = Append(SubSeq(frames, 1, Len(frames) - 2),
                                 [caller EXCEPT !.stack = Append(@, TryError)])
             /\ visible' = FALSE
             /\ UNCHANGED status

\* Replace the top n values by v, or fail when v is an error.
Answer(n, v) ==
    IF v = Err THEN Abort ELSE Go(n, <<v>>) /\ UNCHANGED <<visible, status>>

\* Operands: constants, names, slots; a constant built by the host is visible.
Push ==
    /\ Doing({"const", "const-visible", "name"})
    /\ Go(0, <<IF Here.o = "name" THEN Vec("name", <<Here.arg>>) ELSE Here.arg>>)
    /\ visible' = (visible \/ Here.o = "const-visible")
    /\ UNCHANGED <<prog, mode, env, signal, out, echoed, status>>

Shuffle ==
    /\ Doing({"dup", "pop", "swap", "rot"})
    /\ CASE Here.o = "dup"  -> Go(0, <<Top(1)>>)
         [] Here.o = "pop"  -> Go(1, <<>>)
         [] Here.o = "swap" -> Go(2, <<Top(1), Top(2)>>)
         [] Here.o = "rot"  -> Go(3, <<Top(2), Top(1), Top(3)>>)
    /\ UNCHANGED <<prog, mode, env, visible, signal, out, echoed, status>>

GetSlot ==
    /\ Doing({"get-slot"})
    /\ Go(0, <<IF Here.arg \in DOMAIN Cur.slots THEN Cur.slots[Here.arg] ELSE Null>>)
    /\ UNCHANGED <<prog, mode, env, visible, signal, out, echoed, status>>

SetSlot ==
    /\ Doing({"set-slot"})
    /\ Going(Put(1, <<>>), Cur.pc + 1, Bind(Cur.slots, Here.arg, Top(1)))
    /\ UNCHANGED <<prog, mode, env, visible, signal, out, echoed, status>>

\* A name is looked up in the environment; its value is visible.
b_getvar ==
    /\ Doing({"getvar"})
    /\ IF Here.arg \in DOMAIN env
       THEN Go(0, <<env[Here.arg]>>) /\ visible' = TRUE /\ UNCHANGED status
       ELSE Abort
    /\ UNCHANGED <<prog, mode, env, signal, out, echoed>>

b_setvar ==
    /\ Doing({"setvar"})
    /\ env' = Bind(env, Top(2).elems[1], Top(1))
    /\ Go(2, <<Top(1)>>)
    /\ visible' = FALSE
    /\ UNCHANGED <<prog, mode, signal, out, echoed, status>>

\* Operators, subscripts and conditions; none of them sets the flag.
Operator ==
    /\ Doing({"native", "binop", "minus", "index", "index-set", "replace", "truthy", "logic2-arg"})
    /\ CASE Here.o \in {"native", "binop"} -> Answer(2, Binary(Here.arg, Top(2), Top(1)))
         [] Here.o = "minus"      -> Answer(1, Binary("-", Num(0), Top(1)))
         [] Here.o = "index"      -> Answer(2, Index(Top(2), Top(1)))
         [] Here.o = "index-set"  -> Answer(3, IndexSet(Top(3), Top(2), Top(1)))
         [] Here.o = "replace"    -> Answer(3, Replace(Top(3).elems[1], Top(2), Top(1)))
         [] Here.o = "truthy"     -> Answer(1, condition_truth(Top(1)))
         [] Here.o = "logic2-arg" -> Answer(1, logic2_operand(Top(1)))
    /\ UNCHANGED <<prog, mode, env, signal, out, echoed>>

\* The far end of a range whose start is a literal, read natively: only an
\* unboxed number can be.
b_abs(v) == IF v.t = "num" THEN Num(IF v.elems[1] < 0 THEN -v.elems[1] ELSE v.elems[1]) ELSE Num(0)

\* What a loop over a:b is set up with; a missing end gives one round.
b_range(what, a, b) ==
    LET from == IF a.elems = <<>> THEN NA ELSE a.elems[1]
        to   == IF b.elems = <<>> THEN NA ELSE b.elems[1]
        lost == NA \in {from, to}
    IN  CASE what = "from" -> IF lost THEN Vec("int", <<NA>>) ELSE Num(from)
          [] what = "step" -> Num(IF lost THEN 1 ELSE IF from > to THEN -1 ELSE 1)
          [] what = "len"  -> Num(IF lost THEN 1 ELSE IF from <= to THEN to - from + 1
                                                      ELSE from - to + 1)

b_seq_elem(v, i) ==
    LET x == v.elems[i.elems[1] + 1]
    IN  IF v.t \in {"num", "int"} /\ x # NA THEN Num(x) ELSE Vec(v.t, <<x>>)

\* The helpers of loops and of switch.
LoopHelper ==
    /\ Doing({"abs", "range", "seq-len", "seq-elem", "switch-index"})
    /\ CASE Here.o = "abs"      -> Answer(1, b_abs(Top(1)))
         [] Here.o = "range"    -> Answer(2, b_range(Here.arg, Top(2), Top(1)))
         [] Here.o = "seq-len"  -> Answer(1, Num(Len(Top(1).elems)))
         [] Here.o = "seq-elem" -> Answer(2, b_seq_elem(Top(2), Top(1)))
         [] Here.o = "switch-index" -> Answer(1, SwitchIndex(Top(1), Here.arg))
    /\ UNCHANGED <<prog, mode, env, signal, out, echoed>>

\* A test on the top value, which a conditional jump follows.
Probe ==
    /\ Doing({"is", "is-signal"})
    /\ Go(1, <<Lgl(Bool(Top(1).elems[1] = (IF Here.o = "is" THEN Here.arg.elems[1] ELSE Here.arg)))>>)
    /\ UNCHANGED <<prog, mode, env, visible, signal, out, echoed, status>>

Branch ==
    /\ Doing({"jump", "jump-if-false", "jump-if-true"})
    /\ LET plain == Here.o = "jump"
           taken == plain \/ Top(1).elems[1] = Bool(Here.o = "jump-if-true")
       IN  Going(Put(IF plain THEN 0 ELSE 1, <<>>), Cur.pc + (IF taken THEN Here.arg ELSE 1),
                 Cur.slots)
    /\ UNCHANGED <<prog, mode, env, visible, signal, out, echoed, status>>

\* A call is visible unless the callee says otherwise.
CallFunction ==
    /\ Doing({"call"})
    /\ Go(1, <<Call(Here.arg, Top(1))>>)
    /\ visible' = (Here.arg # "cat")
    /\ out' = IF Here.arg = "cat" THEN Append(out, Boxed(Top(1))) ELSE out
    /\ UNCHANGED <<prog, mode, env, signal, echoed, status>>

\* The call of try runs the lazy body in a chunk of its own.
CallTry ==
    /\ Doing({"try"})
    /\ frames' = Append([frames EXCEPT ![Len(frames)].pc = @ + 1], Frame(Here.arg))
    /\ visible' = TRUE
    /\ UNCHANGED <<prog, mode, env, signal, out, echoed, status>>

\* The end of a lazy body; its last value is the value of the call.
Return ==
    /\ status = "running" /\ AtEnd /\ Len(frames) > 1
    /\ LET result == IF Cur.stack = <<>> THEN Null ELSE Top(1)
           rest == Front(frames)
       IN  frames' = [rest EXCEPT ![Len(rest)].stack = Append(@, result)]
    /\ UNCHANGED <<prog, mode, env, visible, signal, out, echoed, status>>

b_loop_signal ==
    /\ Doing({"loop-signal"})
    /\ signal' = Here.arg
    /\ Going(Cur.stack, Len(Cur.code) + 1, Cur.slots)
    /\ UNCHANGED <<prog, mode, env, visible, out, echoed, status>>

b_take_loop_signal ==
    /\ Doing({"take-loop-signal"})
    /\ Go(0, <<Vec("signal", <<signal>>)>>)
    /\ signal' = "none"
    /\ UNCHANGED <<prog, mode, env, visible, out, echoed, status>>

b_null_invisible ==
    /\ Doing({"null-invisible"})
    /\ Go(0, <<Null>>)
    /\ visible' = FALSE
    /\ UNCHANGED <<prog, mode, env, signal, out, echoed, status>>

b_set_visible ==
    /\ Doing({"set-visible"})
    /\ Go(0, <<>>)
    /\ visible' = TRUE
    /\ UNCHANGED <<prog, mode, env, signal, out, echoed, status>>

\* break or next where no loop is: an error when it is evaluated.
NoLoop ==
    /\ Doing({"stop"})
    /\ Abort
    /\ UNCHANGED <<prog, mode, env, signal, out, echoed>>

b_autoprint ==
    /\ Doing({"autoprint"})
    /\ Go(0, <<>>)
    /\ echoed' = IF visible /\ signal = "none" THEN Append(echoed, Boxed(Top(1))) ELSE echoed
    /\ visible' = TRUE
    /\ UNCHANGED <<prog, mode, env, signal, out, status>>

Finish ==
    /\ status = "running" /\ AtEnd /\ Len(frames) = 1
    /\ status' = "done"
    /\ UNCHANGED <<prog, mode, frames, env, visible, signal, out, echoed>>

Next ==
    \/ Push \/ Shuffle \/ GetSlot \/ SetSlot \/ b_getvar \/ b_setvar \/ Operator \/ LoopHelper
    \/ Probe \/ Branch \/ CallFunction \/ CallTry \/ Return \/ b_loop_signal
    \/ b_take_loop_signal \/ b_null_invisible \/ b_set_visible \/ NoLoop \/ b_autoprint \/ Finish

\* The machine on whatever code.
Runs == (\E code : Loaded(code)) /\ [][Next]_vars

-----------------------------------------------------------------------------
(***************************************************************************)
(* The depth of the operand stack at every operation, as the code says it. *)
(***************************************************************************)

\* What an operation takes off the stack, what it puts there, and where it
\* goes on; a call of try has its value when the body is through.
Takes(op) ==
    CASE op.o \in {"pop", "dup", "set-slot", "minus", "truthy", "logic2-arg", "abs", "seq-len", "switch-index", "is",
                   "is-signal", "jump-if-false", "jump-if-true", "call", "autoprint"} -> 1
      [] op.o \in {"swap", "setvar", "native", "binop", "index", "range", "seq-elem"} -> 2
      [] op.o \in {"rot", "index-set", "replace"} -> 3
      [] OTHER -> 0
Gives(op) ==
    CASE op.o \in {"pop", "set-slot", "jump", "jump-if-false", "jump-if-true", "set-visible", "loop-signal"} -> 0
      [] op.o \in {"dup", "swap"} -> 2
      [] op.o = "rot" -> 3
      [] OTHER -> 1
Leads(op, pc) ==
    CASE op.o = "jump" -> {pc + op.arg}
      [] op.o \in {"jump-if-false", "jump-if-true"} -> {pc + 1, pc + op.arg}
      [] op.o \in {"loop-signal", "stop"} -> {}
      [] OTHER -> {pc + 1}

\* The depths in the order of the code: that of an operation that goes on
\* here, or, where none before does, as if the last one did.
Heights(code) ==
    LET from(p) == {q \in 1..p - 1 : p \in Leads(code[q], q)}
        after(h, q) == Append(h, h[q] - Takes(code[q]) + Gives(code[q]))
    IN  FoldLeft(LAMBDA h, p : after(h, IF from(p + 1) = {} THEN p ELSE Max(from(p + 1))),
                 <<0>>, [p \in DOMAIN code |-> p])

\* However an operation is come to, the stack is as deep, deep enough for it,
\* and at the end of a statement it holds the value of that statement only.
Balanced(code) ==
    LET h == Heights(code)
    IN  /\ code \in Seq(ToSet(code)) /\ h \in [1..Len(code) + 1 -> Nat] /\ h[1] = 0
        /\ \A p \in DOMAIN code :
             /\ Takes(code[p]) <= h[p]
             /\ code[p].o = "autoprint" => h[p] = 1
             /\ code[p].o = "loop-signal" => code[p].arg # "none"
             /\ \A q \in Leads(code[p], p) : q \in DOMAIN h /\ h[q] = h[p] - Takes(code[p]) + Gives(code[p])

\* Every running chunk whose code is balanced has as many values on its stack
\* as its code says: whatever branches were taken, errors answered by try and
\* jumps made out of loops, also from a lazy body (leave_loop, close_loop,
\* dispatch_loop_signal, switch_expr).  A chunk that waits for a body lacks the
\* value of the call; one that a jump has ended keeps what it held.
Deep(f, waiting, ended) ==
    Balanced(f.code) =>
        /\ f.pc \in 1..Len(f.code) + 1
        /\ \/ Len(f.stack) + waiting = Heights(f.code)[f.pc]
           \/ ended /\ f.pc = Len(f.code) + 1
HeightsKept ==
    \A i \in DOMAIN frames : LET last == i = Len(frames)
                             IN  Deep(frames[i], IF last THEN 0 ELSE 1, last /\ signal # "none")
=============================================================================
