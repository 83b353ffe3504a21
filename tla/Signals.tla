------------------------------ MODULE Signals -------------------------------
(***************************************************************************)
(* How return(), break and next leave the code that runs them, and which   *)
(* call sys.call() names meanwhile.                                        *)
(*                                                                         *)
(* Every closure body, promise, tryCatch body and on.exit expression of R  *)
(* is a chunk that runs on a virtual machine of its own, started by a Rust *)
(* call inside the machine of the code below it.  A jump that has to leave *)
(* the chunk it is written in is recorded in RHost.signal, the chunk is    *)
(* halted, and the Rust code on the way out decides who takes it.          *)
(***************************************************************************)
EXTENDS Naturals, Sequences

CONSTANTS
    None,
    MaxStack,      \* bound: chunks and builtins in progress
    ArgReturns,    \* programs considered: return() may be written in an
                   \* argument of a closure, or of a builtin that calls one
    AbruptCleanups \* programs considered: an on.exit expression may fail, and a
                   \* finally expression return, break or next

ASSUME SignalsAssumption ==
    /\ MaxStack \in Nat \ {0}
    /\ ArgReturns \in BOOLEAN /\ AbruptCleanups \in BOOLEAN

VARIABLES
    stack,   \* the chunks, and the builtins that started one, innermost last
    flow,    \* "run", or what the innermost of them came to: "ok", "err"
    signal,  \* RHost.signal
    calls,   \* RHost.calls, the context stack
    hidden   \* HIDDEN, the contexts that promises being forced look past

vars == <<stack, flow, signal, calls, hidden>>

\* A signal: home is the function that a return() ends, or the chunk of the
\* loop that a break or next is for.  It is not in the code, where a signal
\* does not say whose it is.
Return(home) == [kind |-> "return", home |-> home]
Jump(home)   == [kind |-> "jump", home |-> home]

Indices   == 1..MaxStack
SignalSet == [kind : {"return", "jump"}, home : Indices] \cup {None}

\* What runs on a machine.  fun: the call whose environment the chunk runs in.
\* base: how many contexts stood when it started.  loop: a loop of its own is
\* running.  loopAt: the chunk whose loop its break and next are for, 0 when it
\* is not a lazy body in a loop.  arg: it evaluates, or is part of, an argument
\* of a closure, or of a builtin that calls one.
Chunks == {"main", "cleanup", "promise"}
Chunk(op, fun, base, loopAt, arg) ==
    [op |-> op, fun |-> fun, base |-> base, loop |-> FALSE, loopAt |-> loopAt,
     arg |-> arg]
ChunkSet == [op : Chunks, fun : Indices, base : Nat, loop : BOOLEAN,
             loopAt : 0..MaxStack, arg : BOOLEAN]

\* A closure call: its body's chunk, at which depth the promises it received
\* were created, and how its on.exit expression leaves.
CallSet == [op : {"call"}, phase : {"body", "on.exit", "left"},
            fun : Indices, base : Nat, loop : BOOLEAN, loopAt : {0}, arg : {FALSE},
            args : Nat \cup {None}, exit : BOOLEAN,
            out : {"ok", "err"}, saved : SignalSet]

\* A builtin that has started a chunk.
TrySet == [op : {"tryCatch"}, phase : {"body", "handler", "finally"},
           base : Nat, catches : BOOLEAN, finally : BOOLEAN,
           out : {"ok", "err"}, pending : SignalSet]
PrimitiveSet == [op : {"primitive"}, back : BOOLEAN]

\* The type of the state.
TypeOK ==
    /\ stack \in Seq(ChunkSet \cup CallSet \cup TrySet \cup PrimitiveSet)
    /\ Len(stack) \in 1..MaxStack
    /\ flow \in {"run", "ok", "err"}
    /\ signal \in SignalSet
    /\ calls \in Seq([of : Indices, entered : BOOLEAN])
    /\ hidden \in Seq(Nat \X Nat)

Init ==
    /\ stack = <<Chunk("main", 1, 0, 0, FALSE)>>
    /\ flow = "run"
    /\ signal = None
    /\ calls = <<>>
    /\ hidden = <<>>

-----------------------------------------------------------------------------
Here         == Len(stack)
Top          == stack[Here]
Cut(s, n)    == SubSeq(s, 1, n)
Front(s)     == Cut(s, Len(s) - 1)
Context(k)   == [of |-> k, entered |-> TRUE]
Becomes(act) == stack' = [stack EXCEPT ![Here] = act]
IsChunk(act) == act.op \in Chunks \/ (act.op = "call" /\ act.phase = "body")

\* The chunk on top runs its next instruction.
Runs == flow = "run" /\ IsChunk(Top)

\* It has opened the context of a call whose arguments it is preparing.
Opened == Len(calls) > Top.base

\* A slip: promises that hide nothing (mutant of EnteredDepth).
EnteredDepthAll == Len(calls)

\* entered_ctx_depth: the depth an argument's promise is created at.
EnteredDepth == IF Opened THEN Len(calls) - 1 ELSE Len(calls)

\* eval_promise_thunk starts a promise of the code in chunk k, while contexts
\* cs stand, of which those from depth on are hidden.
LoopAtOuter(k) ==   \* a slip: the outermost loop first (mutant of LoopAt)
    IF stack[k].loopAt # 0 THEN stack[k].loopAt ELSE IF stack[k].loop THEN k ELSE 0
LoopAt(k) == IF stack[k].loop THEN k ELSE stack[k].loopAt
LazyBody(k, cs)    == Chunk("promise", stack[k].fun, Len(cs), LoopAt(k), stack[k].arg)
Argument(k, cs, a) == Chunk("promise", stack[k].fun, Len(cs), 0, a)
HideOneMore(depth, cs) ==   \* a slip: off by one (mutant of Hide)
    hidden' = Append(hidden, <<depth - 1, Len(cs)>>)
Hide(depth, cs)    == hidden' = Append(hidden, <<depth, Len(cs)>>)

-----------------------------------------------------------------------------
(* What a program may do *)

\* OPEN_CALL, for a function that R implements as a closure.
OpenCall ==
    /\ Runs /\ ~Opened /\ Here < MaxStack
    /\ calls' = Append(calls, [of |-> Here + 1, entered |-> FALSE])
    /\ UNCHANGED <<stack, flow, signal, hidden>>

\* CALL_OPENED enters it.
Entered == Append(Front(calls), Context(Here + 1))

\* depth: where its promises were created; None when it receives only values.
ClosureCall(n, base, depth, exit) ==
    [op |-> "call", phase |-> "body", fun |-> n, base |-> base, loop |-> FALSE,
     loopAt |-> 0, arg |-> FALSE, args |-> depth,
     exit |-> exit, out |-> "ok", saved |-> None]

\* call_closure; args: some arguments are promises of the caller's code.
Call(args, exit) ==
    /\ Runs /\ Opened
    /\ LET depth == IF args THEN EnteredDepth ELSE None
       IN  stack' = Append(stack, ClosureCall(Here + 1, Len(calls), depth, exit))
    /\ calls' = Entered
    /\ UNCHANGED <<flow, signal, hidden>>

\* call_primitive, which forces an argument that is a promise; back: it calls a
\* closure it was given (lapply).
CallPrimitive(back) ==
    /\ Runs /\ Opened /\ Here + 1 < MaxStack
    /\ calls' = Entered
    /\ stack' = stack \o <<[op |-> "primitive", back |-> back],
                           Argument(Here, calls, Top.arg \/ back)>>
    /\ Hide(EnteredDepth, calls)
    /\ UNCHANGED <<flow, signal>>

\* try_catch, and r_try, which catches; withCallingHandlers and the other
\* functions that only run their body neither catch nor clean up.
TryCatch(catches, finally) ==
    LET inside == Append(Entered, Context(Here + 1))   \* doTryCatch
    IN  /\ Runs /\ Opened /\ Here + 1 < MaxStack
        /\ calls' = inside
        /\ stack' = stack \o
               <<[op |-> "tryCatch", phase |-> "body", base |-> Len(calls),
                  catches |-> catches, finally |-> finally, out |-> "ok",
                  pending |-> None],
                 LazyBody(Here, inside)>>
        /\ Hide(Len(calls) - 1, inside)
        /\ UNCHANGED <<flow, signal>>

\* force_value: the chunk reads an argument of the function it runs for, a
\* promise that the code calling that function wrote.
ForceArgument ==
    /\ Runs /\ Here < MaxStack
    /\ stack[Top.fun].op = "call" /\ stack[Top.fun].args # None
    /\ stack' = Append(stack, Argument(Top.fun - 1, calls, TRUE))
    /\ Hide(stack[Top.fun].args, calls)
    /\ UNCHANGED <<flow, signal, calls>>

\* A loop begins or ends.
Loop ==
    /\ Runs /\ ~Opened
    /\ Becomes([Top EXCEPT !.loop = ~@])
    /\ UNCHANGED <<flow, signal, calls, hidden>>

\* finally expressions in progress inside chunk k, which a jump to it would cut.
CutsFinally(k) == \E l \in k + 1..Here :
    stack[l].op = "tryCatch" /\ stack[l].phase = "finally"

\* return(): recorded, and the chunk is halted.
DoReturn ==
    /\ Runs /\ ~Opened
    /\ ArgReturns \/ ~Top.arg
    /\ AbruptCleanups \/ ~CutsFinally(Top.fun)
    /\ signal' = Return(Top.fun)
    /\ flow' = "ok"
    /\ UNCHANGED <<stack, calls, hidden>>

\* LOOP_SIGNAL: break or next in a lazy body, for a loop outside it.
LoopSignal ==
    /\ Runs /\ ~Opened
    /\ ~Top.loop /\ Top.loopAt # 0
    /\ AbruptCleanups \/ ~CutsFinally(Top.loopAt)
    /\ signal' = Jump(Top.loopAt)
    /\ flow' = "ok"
    /\ UNCHANGED <<stack, calls, hidden>>

\* The chunk reaches its end.
End ==
    /\ Runs /\ ~Opened
    /\ flow' = "ok"
    /\ UNCHANGED <<stack, signal, calls, hidden>>

\* An on.exit expression that an error raised now would cut.
Caught(k) == \E l \in k + 1..Here :
    stack[l].op = "tryCatch" /\ stack[l].phase = "body" /\ stack[l].catches
CutsOnExit == \E k \in DOMAIN stack : stack[k].op = "cleanup" /\ ~Caught(k)

\* An error, which halts the chunk; it may be raised while a call is prepared.
Fail ==
    /\ Runs
    /\ AbruptCleanups \/ ~CutsOnExit
    /\ flow' = "err"
    /\ UNCHANGED <<stack, signal, calls, hidden>>

-----------------------------------------------------------------------------
(* The way out *)

\* A call answers to the chunk that made it, with contexts cs still standing:
\* its own goes, and an error or a pending return halts the chunk (propagate).
Halts(sig) == sig # None /\ sig.kind = "return"
AnswerGoesOn(out, sig, cs) ==   \* a slip: no propagate (mutant of Answer)
    /\ stack' = Front(stack)
    /\ calls' = Front(cs)
    /\ signal' = sig
    /\ flow' = IF out = "err" THEN "err" ELSE "run"
Answer(out, sig, cs) ==
    /\ stack' = Front(stack)
    /\ calls' = Front(cs)
    /\ signal' = sig
    /\ flow' = IF out = "err" THEN "err" ELSE IF Halts(sig) THEN "ok" ELSE "run"

\* dispatch_loop_signal, after a lazy call in a loop: a break or next is taken
\* by the chunk's own loop, or sent on to the loop outside it.
Jumps(out, sig) == out = "ok" /\ sig # None /\ sig.kind = "jump" /\ LoopAt(Here - 1) # 0
LazyAnswer(out, sig, cs) ==
    IF ~Jumps(out, sig) THEN Answer(out, sig, cs)
    ELSE /\ calls' = Front(cs)
         /\ IF stack[Here - 1].loop
            THEN /\ \E again \in BOOLEAN :           \* next, or break
                      stack' = [Front(stack) EXCEPT ![Here - 1].loop = again]
                 /\ signal' = None
                 /\ flow' = "run"
            ELSE stack' = Front(stack) /\ signal' = sig /\ flow' = "ok"

\* A chunk is over: drive_unwound cuts the contexts back to where it started.
Over(op) == flow # "run" /\ IsChunk(Top) /\ Top.op = op
UnwoundKept == calls   \* a slip: nothing is cut (mutant of Unwound)
Unwound  == Cut(calls, Top.base)

\* A promise leaves any signal pending, for the chunk that forced it; a read
\* goes on with the value, a builtin takes it from here.
LeavePromise ==
    /\ Over("promise")
    /\ stack' = Front(stack)
    /\ calls' = Unwound
    /\ hidden' = Front(hidden)
    /\ flow' = IF flow = "ok" /\ IsChunk(stack[Here - 1]) THEN "run" ELSE flow
    /\ UNCHANGED signal

\* call_fun: the primitive calls a closure, under a context of its own.
CallBack ==
    /\ flow = "ok" /\ Top.op = "primitive" /\ Top.back /\ Here < MaxStack
    /\ stack' = Append(stack, ClosureCall(Here + 1, Len(calls) + 1, None, FALSE))
    /\ calls' = Append(calls, Context(Here + 1))
    /\ flow' = "run"
    /\ UNCHANGED <<signal, hidden>>

\* The primitive ends with a value, or fails with the error.
LeavePrimitive ==
    /\ flow # "run" /\ Top.op = "primitive"
    /\ Answer(flow, signal, calls)
    /\ UNCHANGED hidden

\* call_closure ends: it takes a return, unless it fails, and leaves a break or
\* next pending.  It answers the chunk that called it, or the builtin that did:
\* call_fun, which drops its context, or tryCatch.
TakenNever(out, sig) == sig   \* a slip: no call takes it (mutant of Taken)
Taken(out, sig) == IF out = "ok" /\ Halts(sig) THEN None ELSE sig
LeaveFrame(out, cs) ==
    /\ IF IsChunk(stack[Here - 1])
       THEN Answer(out, Taken(out, signal), cs)
       ELSE /\ stack' = Front(stack)
            /\ calls' = IF stack[Here - 1].op = "primitive" THEN Front(cs) ELSE cs
            /\ signal' = Taken(out, signal)
            /\ flow' = out
    /\ UNCHANGED hidden

LeaveBody ==
    /\ Over("call")
    /\ ~Top.exit
    /\ LeaveFrame(flow, Unwound)

\* The on.exit expression runs clear of the signal, which it gets back.
OnExitUnder(sig) ==
    /\ Over("call")
    /\ Top.exit /\ Here < MaxStack
    /\ stack' = Append([stack EXCEPT ![Here].phase = "on.exit", ![Here].out = flow,
                                     ![Here].saved = signal],
                       Chunk("cleanup", Here, Top.base, 0, FALSE))
    /\ calls' = Unwound
    /\ signal' = sig
    /\ flow' = "run"
    /\ UNCHANGED hidden
BeginOnExitPending == OnExitUnder(signal)   \* a slip (mutant of BeginOnExit)
BeginOnExit == OnExitUnder(None)

\* A failing on.exit expression counts only when the body had not failed.
EndOnExit ==
    /\ Over("cleanup")
    /\ stack' = [Front(stack) EXCEPT ![Here - 1].phase = "left"]
    /\ calls' = Unwound
    /\ signal' = stack[Here - 1].saved
    /\ flow' = IF stack[Here - 1].out = "ok" THEN flow ELSE "err"
    /\ UNCHANGED hidden

LeaveAfterOnExit ==
    /\ flow # "run" /\ Top.op = "call" /\ Top.phase = "left"
    /\ LeaveFrame(flow, calls)

\* The result of tryCatch is settled: finally runs, or the result leaves with
\* the pending signal.
In(phase) == flow # "run" /\ Top.op = "tryCatch" /\ Top.phase = phase
Put(sig, pending) == IF sig = None THEN pending ELSE sig
Settle(out, sig, pending) ==
    LET cs == Cut(calls, Top.base)
    IN  IF Top.finally
        THEN /\ Here < MaxStack
             /\ stack' = [stack EXCEPT ![Here].phase = "finally", ![Here].out = out,
                                       ![Here].pending = pending]
                         \o <<LazyBody(Here - 1, cs)>>
             /\ calls' = cs
             /\ hidden' = Append(hidden, <<Top.base - 1, Top.base>>)
             /\ signal' = sig
             /\ flow' = "run"
        ELSE LazyAnswer(out, Put(sig, pending), cs) /\ UNCHANGED hidden

\* The body is over; its signal is put aside, and an error is caught, its
\* handler called under contexts of its own, or goes on.
EndTryBody ==
    /\ In("body")
    /\ IF flow = "err" /\ Top.catches
       THEN /\ Here < MaxStack
            /\ stack' = Append([stack EXCEPT ![Here].phase = "handler",
                                             ![Here].pending = signal],
                               ClosureCall(Here + 1, Top.base + 1, None, FALSE))
            /\ calls' = Append(Cut(calls, Top.base), Context(Here + 1))
            /\ signal' = None
            /\ flow' = "run"
            /\ UNCHANGED hidden
       ELSE Settle(flow, None, signal)

EndTryHandler ==
    /\ In("handler")
    /\ Settle(flow, signal, Top.pending)

\* A failing finally drops what was put aside.
EndFinally ==
    /\ In("finally")
    /\ LET out == IF flow = "err" THEN "err" ELSE Top.out
       IN  LazyAnswer(out, IF flow = "err" THEN signal ELSE Put(signal, Top.pending),
                      calls)
    /\ UNCHANGED hidden

Machine ==
    \/ LeavePromise \/ CallBack \/ LeavePrimitive \/ LeaveBody \/ BeginOnExit \/ EndOnExit
    \/ LeaveAfterOnExit \/ EndTryBody \/ EndTryHandler \/ EndFinally

Program ==
    \/ OpenCall \/ ForceArgument \/ Loop \/ DoReturn \/ LoopSignal
    \/ End \/ Fail
    \/ \E args, exit \in BOOLEAN : Call(args, exit)
    \/ \E back \in BOOLEAN : CallPrimitive(back)
    \/ \E catches, finally \in BOOLEAN : TryCatch(catches, finally)

Next == Program \/ Machine

Spec == Init /\ [][Next]_vars

-----------------------------------------------------------------------------
(* Properties *)

\* A return() ends the function whose code it is written in, whichever calls,
\* promises and cleanups stand between: no code runs while it is on its way, the
\* chunks it halts are the writer's own code and that of arguments or bodies of
\* his, and the call that takes it is the writer's (call_closure, try_catch,
\* propagate).
ReturnEndsItsWriter ==
    [][ /\ flow = "run" => signal = None
        /\ flow = "ok" /\ Halts(signal) /\ IsChunk(Top) => Top.fun = signal.home
        /\ Halts(signal) /\ Top.op = "call" /\ Len(stack') = Here - 1 /\ signal' = None
               => signal.home = Here ]_vars

\* A break or next acts on the loop around the lazy body it is written in
\* (dispatch_loop_signal).
JumpReachesItsLoop ==
    [][signal # None /\ ~Halts(signal) /\ signal' = None /\ Len(stack') < Here
           => signal.home = Len(stack')]_vars

\* The context sys.call() finds: the innermost one that is entered and that no
\* promise being forced hides (sys_contexts).
HiddenAt(i) == \E r \in DOMAIN hidden : hidden[r][1] < i /\ i <= hidden[r][2]
Seen == {i \in DOMAIN calls : calls[i].entered /\ ~HiddenAt(i)}
Innermost(S) == CHOOSE i \in S : \A j \in S : j <= i

\* However calls and chunks are left, running code stands under the contexts
\* it started with and at most the one it is opening; and it sees the call of
\* the function it is written in, however deep it is evaluated: an argument the
\* call whose body wrote it, a handler its own.
WriterSeen ==
    flow = "run" =>
        /\ Len(calls) \in {Top.base, Top.base + 1}
        /\ IF stack[Top.fun].op = "main" THEN Seen = {}
           ELSE Seen # {} /\ calls[Innermost(Seen)].of = Top.fun
=============================================================================
