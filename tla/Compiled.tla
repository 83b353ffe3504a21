------------------------------ MODULE Compiled ------------------------------
(***************************************************************************)
(* What src/compiler.rs makes of a program and what the virtual machine    *)
(* makes of that: statements, operators, branches, loops, jumps out of     *)
(* loops (also out of the lazy body of try), switch, && and ||, and simple *)
(* and complex assignment, with the variables of the top level in native   *)
(* slots or in the environment.                                            *)
(*                                                                         *)
(* A program is a sequence of expressions, records with a field "k".       *)
(* Expr and its companions give the code of one as a sequence of           *)
(* operations whose jumps are relative; a jump out of a loop is a          *)
(* placeholder until the loop is closed, as the patch lists of the source  *)
(* are.  Machine runs that code one operation at a time.  Meaning is       *)
(* the language's own reading of the same tree, evaluated recursively with *)
(* no code, stack or slots, and the properties compare the two.            *)
(***************************************************************************)
EXTENDS Machine

CONSTANTS
    Programs,   \* the programs, sequences of expressions
    Modes,      \* "slots" (a script) or "names" (the REPL, eval)
    Fuel        \* how often the body of a loop may run in Meaning

ASSUME FuelAssumption == Fuel \in Nat \ {0}

None == [k |-> "none"]

-----------------------------------------------------------------------------
(***************************************************************************)
(* What the compiler asks of a whole program before it emits anything.     *)
(***************************************************************************)

\* The expressions directly under e.
Kids(e) ==
    CASE e.k \in {"block"}            -> ToSet(e.xs)
      [] e.k \in {"paren", "neg"}     -> {e.x}
      [] e.k \in {"bin", "logic2"}    -> {e.l, e.r}
      [] e.k = "at"                   -> {e.obj, e.i}
      [] e.k = "if"                   -> {e.c, e.t, e.e}
      [] e.k = "while"                -> {e.c, e.b}
      [] e.k \in {"repeat", "try"}    -> {e.b}
      [] e.k = "for"                  -> {e.seq, e.b}
      [] e.k = "assign"               -> {e.to, e.v}
      [] e.k = "switch"               -> {e.x} \cup {e.bs[j].v : j \in DOMAIN e.bs}
      [] e.k = "call"                 -> {e.x}
      [] OTHER                        -> {}

RECURSIVE Nodes(_)
Nodes(e) == {e} \cup UNION {Nodes(x) : x \in Kids(e)}

\* The variable at the bottom of an assignment target.
RECURSIVE root_ident(_)
root_ident(e) == CASE e.k = "id"   -> {e.n}
                   [] e.k = "at"   -> root_ident(e.obj)
                   [] e.k = "call" -> root_ident(e.x)
                   [] OTHER        -> {}

\* The variables that may live in slots: none when a lazy body needs the
\* environment; otherwise those assigned as a whole or by a loop, except one
\* that is also assigned in part, or is the name of a called function.
slot_locals(p) ==
    LET all     == UNION {Nodes(p[i]) : i \in DOMAIN p}
        assigns == {n \in all : n.k = "assign"}
        targets == {n.to.n : n \in {m \in assigns : m.to.k = "id"}}
                     \cup {n.var : n \in {m \in all : m.k = "for"}}
        blocked == UNION {root_ident(n.to) : n \in {m \in assigns : m.to.k # "id"}}
                     \cup {n.f : n \in {m \in all : m.k = "call"}}
    IN  IF \E n \in all : n.k = "try" THEN {} ELSE targets \ blocked

\* Where collect_num_assigns looks for assignments: not under an operator, in
\* an argument or a subscript, nor in the sequence of a loop.
RECURSIVE collect_num_assigns(_)
collect_num_assigns(e) ==
    {e} \cup CASE e.k \in {"block", "paren", "if", "while", "repeat"} ->
                       UNION {collect_num_assigns(x) : x \in Kids(e)}
               [] e.k = "for"    -> collect_num_assigns(e.b)
               [] e.k = "assign" -> collect_num_assigns(e.v)
               [] OTHER          -> {}

seq_start(e) == IF e.k = "bin" THEN IF e.op = ":" THEN e.l ELSE e ELSE e

\* Whether e is certainly an unboxed number when the variables cand are.
RECURSIVE is_native_num(_, _)
is_native_num(e, cand) ==
    CASE e.k = "num" -> TRUE
      [] e.k = "id"  -> e.n \in cand
      [] e.k = "bin" -> e.op \in {"+", "-", "*"} /\ is_native_num(e.l, cand)
                                                 /\ is_native_num(e.r, cand)
      [] e.k = "neg" -> is_native_num(e.x, cand)
      [] OTHER       -> FALSE

\* The variables that always hold unboxed numbers: the greatest set of
\* candidates all of whose assignments are native given that set.
native_num_slots(p) ==
    LET seen    == UNION {collect_num_assigns(p[i]) : i \in DOMAIN p}
        assigns == {n \in seen : n.k = "assign" /\ n.to.k = "id"}
        cand    == {n.to.n : n \in assigns}
                     \cup {n.var : n \in {m \in seen : m.k = "for"
                                                        /\ seq_start(m.seq).k = "num"}}
    IN  UNION {S \in SUBSET cand :
                 \A n \in assigns : n.to.n \in S => is_native_num(n.v, S)}

-----------------------------------------------------------------------------
(***************************************************************************)
(* The code of an expression.  The context cx says which variables are     *)
(* slots (locals), which of them are unboxed numbers (nums), whether a     *)
(* loop of this chunk is open (loop) and whether the chunk is the lazy     *)
(* body of a call inside a loop (lazy).                                    *)
(***************************************************************************)

Op(o) == <<[o |-> o]>>
OpOn(o, arg) == <<[o |-> o, arg |-> arg]>>

\* A jump to the operation "by" places on.
Jump(by) == OpOn("jump", by)
JumpIfFalse(by) == OpOn("jump-if-false", by)
JumpIfTrue(by) == OpOn("jump-if-true", by)

\* A literal as an operand cannot set the visibility flag; as the value of a
\* statement it is followed by the operation that does.
mark_visible(tail) == IF tail THEN Op("set-visible") ELSE <<>>

\* break or next: a jump the enclosing loop will patch, or in a lazy body the
\* signal for the loop around the call.  The compiler pushes a value after it
\* that is never reached.
leave_loop(kind, cx) ==
    IF cx.loop THEN OpOn("leave", kind)
    ELSE OpOn("loop-signal", kind)
Leave(kind, cx) ==
    IF ~cx.loop /\ ~cx.lazy THEN Op("stop")
    ELSE leave_loop(kind, cx) \o OpOn("const", Null)

\* As if break went on with the loop.
BreakGoesOn(code, cont) ==
    [j \in DOMAIN code |-> IF code[j].o # "leave" THEN code[j]
        ELSE Jump((IF code[j].arg = "break" THEN 1 ELSE cont) - j)[1]]
\* As if next were never patched.
NextUnpatched(code, cont) ==
    [j \in DOMAIN code |-> IF code[j].o # "leave" THEN code[j]
        ELSE IF code[j].arg = "next" THEN code[j] ELSE Jump(Len(code) + 1 - j)[1]]
\* Patch the jumps out of the loop whose code is code: break goes to its end,
\* next to the operation numbered cont.
close_loop(code, cont) ==
    [j \in DOMAIN code |->
        IF code[j].o # "leave" THEN code[j]
        ELSE Jump((IF code[j].arg = "break" THEN Len(code) + 1 ELSE cont) - j)[1]]

\* As if the jump out of a lazy call left its value on the stack.
DispatchKeepsValue(cx) ==
    LET exit(kind) == Op("pop") \o leave_loop(kind, cx)
        test(kind, by) == Op("dup") \o OpOn("is-signal", kind) \o JumpIfTrue(by)
    IN  Op("take-loop-signal") \o test("break", 6) \o test("next", 5) \o Op("pop") \o Jump(5)
          \o exit("break") \o exit("next")
\* After a lazy call in a loop: take the signal its body may have left.
dispatch_loop_signal(cx) ==
    LET exit(kind) == Op("pop") \o Op("pop") \o leave_loop(kind, cx)
        test(kind, by) == Op("dup") \o OpOn("is-signal", kind) \o JumpIfTrue(by)
        tests == test("break", 6) \o test("next", 6)
    IN  Op("take-loop-signal") \o tests \o Op("pop") \o Jump(7)
          \o exit("break") \o exit("next")

RECURSIVE Expr(_, _, _), Stmt(_, _), assign_stack(_, _), Bodies(_, _)

\* The values of a block but the last are dropped; the last has the position
\* of the block.
Block(xs, tail, cx) ==
    IF xs = <<>> THEN OpOn("const", Null)
    ELSE FlattenSeq([i \in 1..Len(xs) - 1 |-> Stmt(xs[i], cx)]) \o Expr(Last(xs), tail, cx)

If(e, tail, cx) ==
    LET then == Expr(e.t, tail, cx)
        else == IF e.e = None THEN Op("null-invisible") ELSE Expr(e.e, tail, cx)
    IN  Expr(e.c, FALSE, cx) \o Op("truthy") \o JumpIfFalse(Len(then) + 2)
          \o then \o Jump(Len(else) + 1) \o else

\* A loop leaves nothing of its own on the stack and yields NULL, invisibly.
While(e, cx) ==
    LET inside == [cx EXCEPT !.loop = TRUE]
        test == Expr(e.c, FALSE, inside) \o Op("truthy")
        body == Stmt(e.b, inside)
    IN  close_loop(test \o JumpIfFalse(Len(body) + 2) \o body
                        \o Jump(-(Len(test) + 1 + Len(body))), 1)
          \o Op("null-invisible")
Repeat(e, cx) ==
    LET body == Stmt(e.b, [cx EXCEPT !.loop = TRUE])
    IN  close_loop(body \o Jump(-Len(body)), 1) \o Op("null-invisible")

\* As if all loops shared their temporaries.
SharedTmp(tag, e) == <<tag, None>>
\* The temporaries of a loop; a fresh name for each loop.
Tmp(tag, e) == <<tag, e>>
Slot(x) == <<"variable", x>>
Get(x) == OpOn("get-slot", x)
Set(x) == OpOn("set-slot", x)
Load(n) == OpOn("const", Num(n))
Native(op) == OpOn("native", op)

\* The counter loop both kinds of for end in: head fetches the element, next
\* continues at the increment.
CounterLoop(e, len, i, head, cx) ==
    LET test == Get(i) \o Get(len) \o Native("<")
        body == head \o Stmt(e.b, [cx EXCEPT !.loop = TRUE])
        incr == Get(i) \o Load(1) \o Native("+") \o Set(i)
    IN  Load(0) \o Set(i)
          \o close_loop(test \o JumpIfFalse(Len(body) + Len(incr) + 2) \o body \o incr
                             \o Jump(-(Len(test) + 1 + Len(body) + Len(incr))),
                        Len(test) + 1 + Len(body) + 1)
          \o Op("null-invisible")

\* for over a:b with its variable in a slot: start, step and count are
\* computed first, folded when both ends are literals, with native operations
\* when the far end is a variable known to be an unboxed number.
for_range(e, cx) ==
    LET a == e.seq.l
        b == e.seq.r
        from == Tmp("from", e)
        step == Tmp("step", e)
        len  == Tmp("len", e)
        to   == Tmp("to", e)
        folded == Load(a.v) \o Set(from) \o Load(IF a.v <= b.v THEN 1 ELSE -1) \o Set(step)
                    \o Load((IF a.v <= b.v THEN b.v - a.v ELSE a.v - b.v) + 1) \o Set(len)
        native == Expr(b, FALSE, cx) \o Set(to) \o Load(a.v) \o Set(from)
                    \o Get(from) \o Get(to) \o Native("<=")
                    \o JumpIfFalse(4) \o Load(1) \o Set(step) \o Jump(3)
                    \o Load(-1) \o Set(step)
                    \o Get(to) \o Get(from) \o Native("-") \o Op("abs")
                    \o Load(1) \o Native("+") \o Set(len)
        asked(what, x) == Get(Tmp("a", e)) \o Get(to) \o OpOn("range", what) \o Set(x)
        called == Expr(a, FALSE, cx) \o Set(Tmp("a", e)) \o Expr(b, FALSE, cx) \o Set(to)
                    \o asked("from", from) \o asked("step", step) \o asked("len", len)
        setup == IF a.k = "num" /\ b.k = "num" THEN folded
                 ELSE IF a.k = "num" /\ b.k = "id" THEN
                      IF b.n \in cx.nums THEN native ELSE called
                 ELSE called
    IN  setup \o CounterLoop(e, len, Tmp("count", e),
                  Get(from) \o Get(Tmp("count", e)) \o Get(step) \o Native("*") \o Native("+")
                    \o Set(Slot(e.var)), cx)

for_loop(e, cx) ==
    LET seq == Tmp("seq", e)
        i   == Tmp("i", e)
        elem == Get(seq) \o Get(i) \o Op("seq-elem")
    IN  IF e.var \in cx.locals /\ e.seq.k = "bin" /\ seq_start(e.seq) # e.seq
        THEN for_range(e, cx)
        ELSE Expr(e.seq, FALSE, cx) \o Set(seq) \o Get(seq) \o Op("seq-len") \o Set(Tmp("len", e))
               \o CounterLoop(e, Tmp("len", e), i,
                    IF e.var \in cx.locals THEN elem \o Set(Slot(e.var))
                    ELSE OpOn("name", e.var) \o elem \o Op("setvar") \o Op("pop"), cx)

\* && and ||: the right operand only when the left leaves the answer open.
short_circuit(e, cx) ==
    LET right == Expr(e.r, FALSE, cx) \o Op("logic2-arg")
                   \o OpOn("binop", IF e.op = "&&" THEN "&" ELSE "|")
    IN  Expr(e.l, FALSE, cx) \o Op("logic2-arg") \o Op("dup")
          \o OpOn("is", Lgl(Bool(e.op = "||"))) \o JumpIfTrue(Len(right) + 1) \o right

\* switch: the selector, the table of tests, then the branches; an empty
\* branch falls through to the value of the next, and nothing selected or
\* nothing left to fall to is an invisible NULL.
Bodies(bs, cx) ==
    IF bs = <<>> THEN <<>>
    ELSE LET rest == Bodies(Tail(bs), cx)
             size == Len(FlattenSeq(rest))
             last == Len(bs) = 1
         IN  <<Op("pop") \o
                 (IF Head(bs).v # None THEN Expr(Head(bs).v, FALSE, cx) \o Jump(size + 1)
                  ELSE IF last THEN Op("null-invisible") \o Jump(1)
                  ELSE Jump(2))>> \o rest
switch_expr(e, cx) ==
    LET m == Len(e.bs)
        bodies == Bodies(e.bs, cx)
        before(j) == Len(FlattenSeq(SubSeq(bodies, 1, j - 1)))
        none == Op("pop") \o Op("null-invisible") \o Jump(Len(FlattenSeq(bodies)) + 1)
        tests == FlattenSeq([j \in 1..m |->
                   Op("dup") \o OpOn("is", Num(j))
                     \o JumpIfTrue(3 * (m - j) + Len(none) + before(j) + 1)])
    IN  Expr(e.x, FALSE, cx)
          \o OpOn("switch-index", [j \in 1..m |-> e.bs[j].name])
          \o tests \o none \o FlattenSeq(bodies)

\* Whether e assigns to a slot, as a whole.
slot_assign(e, cx) == e.k = "assign" /\ e.to.k = "id" /\ e.to.n \in cx.locals

\* x <- v for a name; the value stays as that of the expression.
assign(e, cx) ==
    IF e.to.k = "id" THEN
      IF slot_assign(e, cx) THEN Expr(e.v, FALSE, cx) \o Op("dup") \o Set(Slot(e.to.n))
      ELSE OpOn("name", e.to.n) \o Expr(e.v, FALSE, cx) \o Op("setvar")
    ELSE Expr(e.v, FALSE, cx) \o Op("dup") \o assign_stack(e.to, cx) \o Op("pop")

\* Assign the value on top of the stack to a target: rebuild the object the
\* target is a part of, then assign that one to its own target.
assign_stack(to, cx) ==
    CASE to.k = "id" -> OpOn("name", to.n) \o Op("swap") \o Op("setvar")
      [] to.k = "at" -> Expr(to.obj, FALSE, cx) \o Expr(to.i, FALSE, cx)
                          \o Op("rot") \o Op("index-set") \o assign_stack(to.obj, cx)
      [] to.k = "call" -> OpOn("name", to.f) \o Op("swap") \o Expr(to.x, FALSE, cx) \o Op("swap")
                            \o Op("replace") \o assign_stack(to.x, cx)

\* A statement's value is dropped; an assignment to a slot stores it.
Stmt(e, cx) ==
    IF slot_assign(e, cx) THEN Expr(e.v, FALSE, cx) \o Set(Slot(e.to.n))
    ELSE Expr(e, FALSE, cx) \o Op("pop")

Expr(e, tail, cx) ==
    CASE e.k = "num"    -> Load(e.v) \o mark_visible(tail)
      [] e.k = "const"  -> OpOn("const-visible", e.c)
      [] e.k = "id"     -> IF e.n \in cx.locals THEN Get(Slot(e.n)) ELSE OpOn("getvar", e.n)
      [] e.k = "block"  -> Block(e.xs, tail, cx)
      [] e.k = "paren"  -> Expr(e.x, FALSE, cx) \o Op("set-visible")
      [] e.k = "neg"    -> Expr(e.x, FALSE, cx) \o Op("minus")
      [] e.k = "bin"    -> Expr(e.l, FALSE, cx) \o Expr(e.r, FALSE, cx)
                             \o (IF e.op \in {"+", "-", "*"} THEN Native(e.op)
                                 ELSE OpOn("binop", e.op))
      [] e.k = "logic2" -> short_circuit(e, cx)
      [] e.k = "at"     -> Expr(e.obj, FALSE, cx) \o Expr(e.i, FALSE, cx) \o Op("index")
      [] e.k = "if"     -> If(e, tail, cx)
      [] e.k = "while"  -> While(e, cx)
      [] e.k = "repeat" -> Repeat(e, cx)
      [] e.k = "for"    -> for_loop(e, cx)
      [] e.k = "break"  -> Leave("break", cx)
      [] e.k = "next"   -> Leave("next", cx)
      [] e.k = "switch" -> switch_expr(e, cx)
      [] e.k = "assign" -> assign(e, cx)
      [] e.k = "call"   -> Expr(e.x, FALSE, cx) \o OpOn("call", e.f)
      [] e.k = "try"    ->
           LET body == Expr(e.b, TRUE, [cx EXCEPT !.loop = FALSE, !.lazy = cx.loop \/ cx.lazy])
           IN  OpOn("try", body)
                 \o (IF cx.loop \/ cx.lazy THEN dispatch_loop_signal(cx) ELSE <<>>)

\* A whole program: each statement's value is echoed, then dropped, except
\* that of an assignment to a slot, which is only stored.
compile(p, m) ==
    LET slots == m = "slots"
        cx == [locals |-> IF slots THEN slot_locals(p) ELSE {},
               nums |-> IF slots THEN native_num_slots(p) ELSE {},
               loop |-> FALSE, lazy |-> FALSE]
    IN  FlattenSeq([i \in DOMAIN p |->
          IF slot_assign(p[i], cx) THEN Stmt(p[i], cx)
          ELSE Expr(p[i], TRUE, cx) \o Op("autoprint")
                 \o (IF i < Len(p) THEN Op("pop") ELSE <<>>)])

Init ==
    /\ prog \in Programs
    /\ mode \in Modes
    /\ Loaded(compile(prog, mode))

\* A chunk runs until it halts.
Spec == Init /\ [][Next]_vars /\ WF_vars(Next)

-----------------------------------------------------------------------------
(***************************************************************************)
(* The meaning of a program, evaluated over the tree.  A state s carries   *)
(* the variables, what was written, the last value and its visibility, the *)
(* jump under way ("none", "break", "next" or "error") and whether a loop  *)
(* is open.                                                                *)
(***************************************************************************)

Val(s, v, vis) == [s EXCEPT !.val = v, !.vis = vis]
Answered(s, v) == IF v = Err THEN [s EXCEPT !.jump = "error"] ELSE Val(s, v, TRUE)

\* Go on with F unless a jump is under way.
Then(s, F(_)) == IF s.jump = "none" THEN F(s) ELSE s

RECURSIVE Eval(_, _), Rounds(_, _, _), Over(_, _, _), Store(_, _)

Eval(e, s) ==
    CASE e.k = "num"   -> Val(s, Vec("int", <<e.v>>), TRUE)
      [] e.k = "const" -> Val(s, e.c, TRUE)
      [] e.k = "id"    -> IF e.n \in DOMAIN s.env THEN Val(s, s.env[e.n], TRUE)
                          ELSE [s EXCEPT !.jump = "error"]
      [] e.k = "block" -> FoldLeft(LAMBDA t, x : Then(t, LAMBDA u : Eval(x, u)),
                                   Val(s, Null, TRUE), e.xs)
      [] e.k = "paren" -> Then(Eval(e.x, s), LAMBDA t : [t EXCEPT !.vis = TRUE])
      [] e.k = "neg"   -> Then(Eval(e.x, s), LAMBDA t :
                            Answered(t, Boxed(Binary("-", Num(0), t.val))))
      [] e.k = "bin"   -> Then(Eval(e.l, s), LAMBDA t : Then(Eval(e.r, t), LAMBDA u :
                            Answered(u, Binary(e.op, t.val, u.val))))
      [] e.k = "at"    -> Then(Eval(e.obj, s), LAMBDA t : Then(Eval(e.i, t), LAMBDA u :
                            Answered(u, Index(t.val, u.val))))
      [] e.k = "call"  -> Then(Eval(e.x, s), LAMBDA t :
                            IF e.f = "cat" THEN [Val(t, Null, FALSE) EXCEPT !.out = Append(@, t.val)]
                            ELSE Val(t, Boxed(Call(e.f, t.val)), TRUE))
      [] e.k = "logic2" -> Then(Eval(e.l, s), LAMBDA t :
           LET a == logic2_operand(t.val)
               u == Eval(e.r, t)
               b == logic2_operand(u.val)
           IN  IF a = Err \/ a.elems[1] = Bool(e.op = "||")
               THEN Answered(t, a)
               ELSE Then(u, LAMBDA w : Answered(w, IF b = Err THEN Err
                      ELSE Lgl(IF e.op = "&&" THEN And3(a.elems[1], b.elems[1]) ELSE Or3(a.elems[1], b.elems[1])))))
      [] e.k = "if" -> Then(Eval(e.c, s), LAMBDA t :
           LET c == condition_truth(t.val)
           IN  IF c = Err THEN Answered(t, Err)
               ELSE IF c.elems[1] = 1 THEN Eval(e.t, t)
               ELSE IF e.e = None THEN Val(t, Null, FALSE) ELSE Eval(e.e, t))
      [] e.k \in {"while", "repeat"} ->
           [Rounds(e, [s EXCEPT !.open = TRUE], Fuel) EXCEPT !.open = s.open]
      [] e.k = "for" -> Then(Eval(e.seq, s), LAMBDA t :
           [Over(e, t.val.elems, [t EXCEPT !.open = TRUE]) EXCEPT !.open = s.open])
      [] e.k \in {"break", "next"} -> [s EXCEPT !.jump = IF s.open THEN e.k ELSE "error"]
      [] e.k = "switch" -> Then(Eval(e.x, s), LAMBDA t :
           LET i == SwitchIndex(t.val, [j \in DOMAIN e.bs |-> e.bs[j].name])
               full == {j \in DOMAIN e.bs : j >= i.elems[1] /\ e.bs[j].v # None}
           IN  IF i = Err THEN Answered(t, Err)
               ELSE IF i.elems[1] = 0 \/ full = {} THEN Val(t, Null, FALSE)
               ELSE Eval(e.bs[CHOOSE j \in full : \A l \in full : j <= l].v, t))
      [] e.k = "assign" -> Then(Eval(e.v, s), LAMBDA t :
           Then(Store(e.to, t), LAMBDA u : Val(u, t.val, FALSE)))
      [] e.k = "try" -> LET t == Eval(e.b, s)
                        IN  IF t.jump = "error" THEN [Val(t, TryError, FALSE) EXCEPT !.jump = "none"]
                            ELSE t

\* Store the value of s in a target: the variable, or the part of an object
\* which, so changed, is stored in the target it came from.
Store(to, s) ==
    CASE to.k = "id" -> [s EXCEPT !.env = Bind(@, to.n, s.val)]
      [] to.k = "at" -> Then(Eval(to.obj, s), LAMBDA t : Then(Eval(to.i, t), LAMBDA u :
                          Then(Answered(u, IndexSet(t.val, u.val, s.val)), LAMBDA w :
                            Store(to.obj, w))))
      [] to.k = "call" -> Then(Eval(to.x, s), LAMBDA t :
                            Then(Answered(t, Replace(to.f, t.val, s.val)), LAMBDA u :
                              Store(to.x, u)))

\* The end of a loop, unless an error ends more than the loop.
Closed(t) == IF t.jump = "error" THEN t ELSE [Val(t, Null, FALSE) EXCEPT !.jump = "none"]
Again(t) == IF t.jump = "next" THEN [t EXCEPT !.jump = "none"] ELSE t

Rounds(e, s, fuel) ==
    LET test == Again(IF e.k = "repeat" THEN Val(s, Lgl(1), TRUE) ELSE Eval(e.c, s))
        skip == e.k = "while" /\ Eval(e.c, s).jump = "next"
        c == condition_truth(test.val)
        t == IF skip THEN test ELSE Again(Eval(e.b, test))
    IN  IF test.jump # "none" THEN Closed(test)
        ELSE IF ~skip /\ c = Err THEN Answered(test, Err)
        ELSE IF ~skip /\ c.elems[1] = 0 THEN Closed(test)
        ELSE IF t.jump # "none" \/ fuel = 0 THEN Closed(t)
        ELSE Rounds(e, t, fuel - 1)

Over(e, elems, s) ==
    LET t == Again(Eval(e.b, [s EXCEPT !.env = Bind(@, e.var, Vec("int", <<Head(elems)>>))]))
    IN  IF elems = <<>> THEN Closed(s)
        ELSE IF t.jump # "none" THEN Closed(t)
        ELSE Over(e, Tail(elems), t)

\* A program: its statements in order, each value echoed when visible.
Meaning(p) ==
    LET start == [env |-> <<>>, out |-> <<>>, val |-> Null, vis |-> TRUE, jump |-> "none",
                  open |-> FALSE, echoed |-> <<>>]
        statement(s, e) ==
            LET t == Eval(e, s)
            IN  IF t.jump = "none" /\ t.vis THEN [t EXCEPT !.echoed = Append(@, t.val)] ELSE t
    IN  FoldLeft(LAMBDA s, e : Then(s, LAMBDA t : statement(t, e)), start, p)

-----------------------------------------------------------------------------
(***************************************************************************)
(* Properties                                                              *)
(***************************************************************************)

\* The state is what the declarations above say: positions lie in their code
\* or just behind it, and only an unboxed number is stored as one.
TypeOK ==
    /\ prog \in Programs /\ mode \in Modes
    /\ status \in {"running", "done", "error"}
    /\ signal \in {"none", "break", "next"} /\ visible \in BOOLEAN
    /\ \A i \in DOMAIN frames :
         /\ frames[i].pc \in 1..Len(frames[i].code) + 1
         /\ \A j \in DOMAIN frames[i].code : frames[i].code[j].o # "leave"
         /\ \A j \in DOMAIN frames[i].stack :
              frames[i].stack[j].t = "num" => Len(frames[i].stack[j].elems) = 1

\* When a program ends, it has written what its text means, it ends in an
\* error exactly when the text does, and every variable has the value the text
\* gives it, whether it was kept in a slot or in the environment; with the
\* variables in the environment it has also echoed what the text echoes
\* (compile, src/compiler.rs).
MeansTheText ==
    status # "running" =>
      LET m == Meaning(prog)
          kept == Cur.slots
          value(x) == IF Slot(x) \in DOMAIN kept THEN kept[Slot(x)] ELSE IF x \in DOMAIN env THEN env[x] ELSE Err
      IN  /\ (status = "error") = (m.jump = "error")
          /\ out = m.out
          /\ \A x \in DOMAIN m.env : Boxed(value(x)) = Boxed(m.env[x])
          /\ mode = "names" => echoed = m.echoed

\* Expressions that hold an operand on the stack while a part of them runs,
\* and a jump out of a loop from such a part.
Holding == {"bin", "logic2", "at", "call", "assign"}
JumpsFromOperand(p) ==
    \E n \in UNION {Nodes(p[i]) : i \in DOMAIN p} :
        n.k \in Holding /\ \E x \in Nodes(n) : x.k \in {"break", "next"}

\* A statement ends with its own value on the stack and nothing under it: a
\* branch taken, a loop left or continued, a switch that fell through and a
\* jump out of a lazy body all leave the depth the text around them expects
\* (expr, leave_loop, dispatch_loop_signal, switch_expr).  The code says so of
\* every operation, and the stack is what the code says.  A jump out of a loop
\* from inside an operand is the exception: what was pushed stays.
NothingLeftBehind ==
    /\ (status = "running" /\ Cur.pc = 1 /\ ~JumpsFromOperand(prog)) => Balanced(Cur.code)
    /\ HeightsKept

\* Every program here halts, and so does its code: no jump leads back where
\* the text goes on (close_loop, patch_jump).
Halts == <>(status # "running")
=============================================================================
