----------------------------- MODULE Conditions -----------------------------
(***************************************************************************)
(* The condition system of rlang: handler and restart stacks, the walk     *)
(* that offers a condition to its handlers, and the unwinding that carries *)
(* errors and restart transfers out to the call that takes them.           *)
(*                                                                         *)
(* R code runs on nested virtual machines, so the Rust calls in progress   *)
(* form a stack: tryCatch, try, withRestarts, a closure with an on.exit, a *)
(* builtin in the middle of signalling a condition.  A program is any      *)
(* sequence of such calls; what an error or a transfer does is not up to   *)
(* the program.                                                            *)
(***************************************************************************)
EXTENDS Integers, Sequences, FiniteSets

CONSTANTS
    HandlerLists, \* the lists of condition classes that handlers are written for
    None,
    MaxStack,     \* bound: calls in progress
    MaxIds,       \* bound: restarts ever established
    Programs      \* the programs considered, as ProgramKinds

\* quiet: finally and on.exit expressions use no conditions; contained: a calling
\* handler catches the errors it raises; persistent: the host outlives an uncaught
\* error (REPL, embedding).
ProgramKinds == [quiet : BOOLEAN, contained : BOOLEAN, persistent : BOOLEAN]

\* Conditions, told apart by their classes: what stop("text") raises, what
\* stop(cond) and signalCondition(cond) signal, what warning("text") raises.
Conds == {"simpleError", "custom", "simpleWarning"}
Classes == {"error", "custom", "warning"}

ASSUME ConditionsAssumption ==
    /\ MaxStack \in Nat \ {0} /\ MaxIds \in Nat /\ Programs \subseteq ProgramKinds
    /\ \A on \in HandlerLists : on \in Seq(Classes)
    /\ None \notin Nat

ClassesOf(c) == CASE c = "simpleError"   -> {"error"}
                  [] c = "custom"        -> {"custom", "error"}
                  [] c = "simpleWarning" -> {"warning"}

\* A condition signalled as an object; the others are built from a message.
IsObject(c) == c = "custom"

\* The ways to signal: the builtin and the condition it signals.
Signals == {<<"stop", "simpleError">>, <<"stop", "custom">>,
            <<"warning", "simpleWarning">>, <<"signalCondition", "custom">>}

Transfer == "restart"    \* RESTART_UNWIND, what a restart transfer unwinds with
Abort    == 0            \* ABORT_RESTART
Ids      == 1..MaxIds

VARIABLES
    stack,     \* the calls in progress, innermost last
    flow,      \* what the innermost call sees: code running, a walk, an Err
    handlers,  \* RHost.handlers
    restarts,  \* RHost.restarts
    nextId,    \* RHost.next_restart_id
    transfer,  \* RHost.restart_invoke
    record     \* RHost.error_classes and error_condition

vars == <<stack, flow, handlers, restarts, nextId, transfer, record>>

\* Err(msg): to is the handler frame the walk for msg ended at, 0 for none; it
\* is not in the code and nothing but properties reads it.
Running      == [how |-> "run"]
Walking      == [how |-> "walk"]
Err(msg, to) == [how |-> "err", msg |-> msg, to |-> to]
Failed       == flow.how = "err"

Errs     == {Err(m, to) : m \in Conds \cup {Transfer}, to \in 0..MaxStack}
Outcomes == {Running} \cup Errs
Flows    == Outcomes \cup {Walking}

HandlerFrame == [calling : BOOLEAN, muffle : BOOLEAN,
                 on : HandlerLists \cup {<<>>}, disabled : BOOLEAN]
NoRecord == [classes |-> {}, object |-> None]
Record   == [classes : SUBSET Classes, object : Conds \cup {None}]

Calls ==
    [op : {"top"}, phase : {"body"}, program : Programs]
    \cup [op : {"withCallingHandlers", "suppressWarnings", "try"}, phase : {"body"}]
    \cup [op : {"tryCatch"}, phase : {"body", "handler", "finally"},
          on : HandlerLists, cleanup : BOOLEAN, out : Outcomes]
    \cup [op : {"call"}, phase : {"body", "on.exit"},
          cleanup : BOOLEAN, out : Outcomes]
    \cup [op : {"withRestarts"}, phase : {"body", "handler"}, id : Ids]
    \cup [op : {"signal"}, phase : {"body"}, by : {s[1] : s \in Signals},
          cond : Conds, at : 1..MaxStack + 1, todo : Nat,
          saved : Seq(BOOLEAN), id : Ids \cup {None}]

\* The type of the state.
TypeOK ==
    /\ stack \in Seq(Calls) /\ Len(stack) \in 1..MaxStack
    /\ flow \in Flows
    /\ handlers \in Seq(HandlerFrame)
    /\ restarts \in Seq(Ids)
    /\ nextId \in 0..MaxIds
    /\ transfer \in Ids \cup {None, Abort}
    /\ record \in Record

Init ==
    /\ \E p \in Programs : stack = <<[op |-> "top", phase |-> "body", program |-> p]>>
    /\ flow = Running
    /\ handlers = <<>>
    /\ restarts = <<>>
    /\ nextId = 0
    /\ transfer = None
    /\ record = NoRecord

-----------------------------------------------------------------------------
Act        == stack[Len(stack)]
Program    == stack[1].program
Front(s)   == SubSeq(s, 1, Len(s) - 1)
In(op, ph) == Act.op = op /\ Act.phase = ph

\* The innermost call enters another phase, or is over.
Phase(act) == stack' = [stack EXCEPT ![Len(stack)] = act]
Over       == stack' = Front(stack)

\* A cleanup expression is being evaluated.
Cleaning == \E k \in DOMAIN stack : stack[k].phase \in {"finally", "on.exit"}

\* The program decides what happens next.
Free == flow = Running /\ (Program.quiet => ~Cleaning)

Enter(act) ==
    /\ Free
    /\ Len(stack) < MaxStack
    /\ stack' = Append(stack, act)

Install(calling, muffle, on) ==
    handlers' = Append(handlers, [calling |-> calling, muffle |-> muffle,
                                  on |-> on, disabled |-> FALSE])

Matches(f, c) == {k \in DOMAIN f.on : f.on[k] \in ClassesOf(c)}

\* A frame that does something about condition c: a muffling one, or one with
\* a handler for a class of it.
Answers(f, c) ==
    /\ ~f.disabled
    /\ IF f.muffle THEN "warning" \in ClassesOf(c) ELSE Matches(f, c) # {}

\* The first such frame below i, going outward; 0 when the walk falls through.
Nearest(i, c, j) ==
    /\ j < i
    /\ j # 0 => Answers(handlers[j], c)
    /\ \A k \in j + 1..i - 1 : ~Answers(handlers[k], c)

-----------------------------------------------------------------------------
(* What a program may do *)

TryCatch(on, finally) ==
    /\ Enter([op |-> "tryCatch", phase |-> "body", on |-> on,
              cleanup |-> finally, out |-> Running])
    /\ Install(FALSE, FALSE, on)
    /\ UNCHANGED <<flow, restarts, nextId, transfer, record>>

WithCallingHandlers(on) ==
    /\ Enter([op |-> "withCallingHandlers", phase |-> "body"])
    /\ Install(TRUE, FALSE, on)
    /\ UNCHANGED <<flow, restarts, nextId, transfer, record>>

SuppressWarnings ==
    /\ Enter([op |-> "suppressWarnings", phase |-> "body"])
    /\ Install(TRUE, TRUE, <<>>)
    /\ UNCHANGED <<flow, restarts, nextId, transfer, record>>

Try ==
    /\ Enter([op |-> "try", phase |-> "body"])
    /\ UNCHANGED <<flow, handlers, restarts, nextId, transfer, record>>

\* A closure call, with or without an on.exit expression.
Call(exit) ==
    /\ Enter([op |-> "call", phase |-> "body", cleanup |-> exit, out |-> Running])
    /\ UNCHANGED <<flow, handlers, restarts, nextId, transfer, record>>

\* push_restarts, with one restart to a group.
PushRestart ==
    /\ nextId < MaxIds
    /\ nextId' = nextId + 1
    /\ restarts' = Append(restarts, nextId')

WithRestarts ==
    /\ Enter([op |-> "withRestarts", phase |-> "body", id |-> nextId + 1])
    /\ PushRestart
    /\ UNCHANGED <<flow, handlers, transfer, record>>

\* invokeRestart of a restart that is established, by name or by object.
InvokeRestart(id) ==
    /\ Free
    /\ id = Abort \/ \E k \in DOMAIN restarts : restarts[k] = id
    /\ transfer' = id
    /\ flow' = Err(Transfer, 0)
    /\ UNCHANGED <<stack, handlers, restarts, nextId, record>>

\* The calls inside the handler that is running, if one is, catch c.
Innermost(op) == {k \in DOMAIN stack :
    stack[k].op = op /\ \A l \in k + 1..Len(stack) : stack[l].op # op}
CaughtLocally(c) ==
    \A s \in Innermost("signal") : \E k \in s + 1..Len(stack) :
        \/ stack[k].op = "try"
        \/ /\ stack[k].op = "tryCatch" /\ stack[k].phase = "body"
           /\ Matches(stack[k], c) # {}

\* The exiting handler frame that the walk for an error c ends at.
ExitFor(c, j) ==
    /\ j # 0 => ~handlers[j].calling /\ Answers(handlers[j], c)
    /\ \A k \in j + 1..Len(handlers) :
         handlers[k].calling \/ ~Answers(handlers[k], c)

\* stop, warning, message and signalCondition; a warning and a message stand
\* up the restart that muffles them.
Signal(by, c) ==
    /\ Program.contained =>
         \/ CaughtLocally(c)
         \/ by # "stop" /\ ExitFor(c, 0)
    /\ Enter([op |-> "signal", phase |-> "body", by |-> by, cond |-> c,
              at |-> Len(handlers) + 1, todo |-> 0, saved |-> <<>>,
              id |-> IF by = "warning" THEN nextId + 1 ELSE None])
    /\ IF by = "warning" THEN PushRestart ELSE UNCHANGED <<restarts, nextId>>
    /\ flow' = Walking
    /\ UNCHANGED <<handlers, transfer, record>>

\* A primitive fails: it answers Err and records nothing but its call.
Fail ==
    /\ Free
    /\ Program.contained => CaughtLocally("simpleError")
    /\ \E j \in 0..Len(handlers) :
         /\ ExitFor("simpleError", j)
         /\ flow' = Err("simpleError", j)
    /\ UNCHANGED <<stack, handlers, restarts, nextId, transfer, record>>

-----------------------------------------------------------------------------
(* The walk: signal_to_handlers *)

Walk == flow = Walking /\ In("signal", "body")

\* The handler stack while a handler of frame j runs: that frame and every
\* frame inside it disabled.  Mutant: that frame alone.
DisabledAlone(j) == [handlers EXCEPT ![j].disabled = TRUE]
DisabledFrom(j)  == [k \in DOMAIN handlers |->
                        [handlers[k] EXCEPT !.disabled = @ \/ k >= j]]

\* A calling handler runs.
RunCalling(j) ==
    /\ Walk
    /\ Nearest(Act.at, Act.cond, j)
    /\ j # 0 /\ handlers[j].calling /\ ~handlers[j].muffle
    /\ Phase([Act EXCEPT
           !.at = j,
           !.todo = Cardinality(Matches(handlers[j], Act.cond)),
           !.saved = [k \in 1..(Len(handlers) + 1 - j) |->
                         handlers[j + k - 1].disabled]])
    /\ handlers' = DisabledFrom(j)
    /\ flow' = Running
    /\ UNCHANGED <<restarts, nextId, transfer, record>>

Restored == [k \in DOMAIN handlers |->
    IF k - Act.at + 1 \in DOMAIN Act.saved
    THEN [handlers[k] EXCEPT !.disabled = Act.saved[k - Act.at + 1]]
    ELSE handlers[k]]

\* A calling handler returns: the frame's next one runs, or the walk goes on.
HandlerReturns ==
    /\ flow = Running /\ In("signal", "body")
    /\ IF Act.todo > 1
       THEN /\ Phase([Act EXCEPT !.todo = @ - 1])
            /\ UNCHANGED <<handlers, flow>>
       ELSE /\ Phase([Act EXCEPT !.todo = 0, !.saved = <<>>])
            /\ handlers' = Restored
            /\ flow' = Walking
    /\ UNCHANGED <<restarts, nextId, transfer, record>>

PopMuffle == restarts' = IF Act.id = None THEN restarts ELSE Front(restarts)

\* A calling handler fails, or transfers: to the muffling restart, and the
\* signalling builtin resumes, or further out.
HandlerFails ==
    /\ Failed /\ In("signal", "body")
    /\ handlers' = Restored
    /\ PopMuffle
    /\ Over
    /\ IF Act.id # None /\ transfer = Act.id
       THEN /\ transfer' = None
            /\ record' = [record EXCEPT !.object = None]
            /\ flow' = Running
       ELSE UNCHANGED <<transfer, record, flow>>
    /\ UNCHANGED nextId

\* The walk is over at frame j: an exiting handler, a muffling frame, or none.
WalkEnds(j) ==
    LET exits  == j # 0 /\ ~handlers[j].calling
        raises == Act.by = "stop" \/ exits
    IN  /\ Walk
        /\ Nearest(Act.at, Act.cond, j)
        /\ j # 0 => exits \/ handlers[j].muffle
        /\ PopMuffle
        /\ Over
        /\ flow' = IF raises THEN Err(Act.cond, IF exits THEN j ELSE 0)
                   ELSE Running
        /\ record' = IF ~raises THEN record
                     ELSE [classes |-> ClassesOf(Act.cond),
                           object  |-> IF IsObject(Act.cond) THEN Act.cond
                                       ELSE None]
        /\ UNCHANGED <<handlers, nextId, transfer>>

-----------------------------------------------------------------------------
(* Leaving a call, with a value or with an Err *)

Leaving(op, ph) == flow # Walking /\ In(op, ph)

\* Mutant: the handler frame is popped only when the body answers a value.
LeaveHandlersEarly ==
    /\ Leaving("withCallingHandlers", "body") \/ Leaving("suppressWarnings", "body")
    /\ handlers' = IF Failed THEN handlers ELSE Front(handlers)
    /\ Over
    /\ UNCHANGED <<flow, restarts, nextId, transfer, record>>

LeaveHandlers ==
    /\ Leaving("withCallingHandlers", "body") \/ Leaving("suppressWarnings", "body")
    /\ handlers' = Front(handlers)
    /\ Over
    /\ UNCHANGED <<flow, restarts, nextId, transfer, record>>

\* The classes the unwinding error is matched by; none recorded is plain stop().
Raised == IF record.classes = {} THEN {"error"} ELSE record.classes

\* Mutant: an outcome that is an Err leaves before finally has run.
SettleValue(out) ==
    IF Act.cleanup /\ out.how # "err"
    THEN /\ Phase([Act EXCEPT !.phase = "finally", !.out = out])
         /\ flow' = Running
    ELSE Over /\ flow' = out

\* tryCatch's result is settled; finally runs before it leaves.
Settle(out) ==
    IF Act.cleanup
    THEN /\ Phase([Act EXCEPT !.phase = "finally", !.out = out])
         /\ flow' = Running
    ELSE Over /\ flow' = out

\* Mutant: any handler takes any error.
TakesAny == Failed /\ transfer = None

Takes == /\ Failed /\ transfer = None
         /\ \E k \in DOMAIN Act.on : Act.on[k] \in Raised

\* Mutant: the record of an error that is taken stays.
ForgetOnValue == record' = IF flow = Running THEN NoRecord ELSE record

\* take_error_record: after a value, or once a handler here takes the error.
Forget == record' = IF flow = Running \/ Takes THEN NoRecord ELSE record

\* The body is over: a handler here takes the error, which is forgotten, or
\* the outcome goes on outward.
LeaveTryBody ==
    /\ Leaving("tryCatch", "body")
    /\ handlers' = Front(handlers)
    /\ Forget
    /\ IF Takes
       THEN Phase([Act EXCEPT !.phase = "handler"]) /\ flow' = Running
       ELSE Settle(flow)
    /\ UNCHANGED <<restarts, nextId, transfer>>

LeaveTryHandler ==
    /\ Leaving("tryCatch", "handler")
    /\ Settle(flow)
    /\ UNCHANGED <<handlers, restarts, nextId, transfer, record>>

LeaveFinally ==
    /\ Leaving("tryCatch", "finally")
    /\ Over
    /\ flow' = IF Failed THEN flow ELSE Act.out
    /\ UNCHANGED <<handlers, restarts, nextId, transfer, record>>

\* try absorbs whatever is not a transfer.
LeaveTry ==
    /\ Leaving("try", "body")
    /\ Over
    /\ IF Failed /\ transfer = None
       THEN flow' = Running /\ record' = NoRecord
       ELSE UNCHANGED <<flow, record>>
    /\ UNCHANGED <<handlers, restarts, nextId, transfer>>

\* Mutant: the call does not recognise a transfer to its own restart.
LeaveRestartsPassing ==
    /\ Leaving("withRestarts", "body")
    /\ restarts' = Front(restarts)
    /\ Over
    /\ UNCHANGED <<flow, handlers, nextId, transfer, record>>

\* A transfer to this call's restart ends here, and its handler runs.
LeaveRestarts ==
    /\ Leaving("withRestarts", "body")
    /\ restarts' = Front(restarts)
    /\ IF Failed /\ transfer = Act.id
       THEN /\ transfer' = None
            /\ record' = [record EXCEPT !.object = None]
            /\ Phase([Act EXCEPT !.phase = "handler"])
            /\ flow' = Running
       ELSE Over /\ UNCHANGED <<flow, transfer, record>>
    /\ UNCHANGED <<handlers, nextId>>

LeaveRestartHandler ==
    /\ Leaving("withRestarts", "handler")
    /\ Over
    /\ UNCHANGED <<flow, handlers, restarts, nextId, transfer, record>>

\* A closure body is over, and its on.exit expression runs if it has one.
LeaveCall ==
    /\ Leaving("call", "body")
    /\ IF Act.cleanup
       THEN /\ Phase([Act EXCEPT !.phase = "on.exit", !.out = flow])
            /\ flow' = Running
       ELSE Over /\ UNCHANGED flow
    /\ UNCHANGED <<handlers, restarts, nextId, transfer, record>>

\* What the on.exit expression failed with counts only if the body had not.
LeaveOnExit ==
    /\ Leaving("call", "on.exit")
    /\ Over
    /\ flow' = IF Act.out = Running THEN flow ELSE Act.out
    /\ UNCHANGED <<handlers, restarts, nextId, transfer, record>>

\* An Err reaches the top level; the host goes on to the next statement.
NextStatement ==
    /\ Program.persistent
    /\ Failed /\ In("top", "body")
    /\ flow' = Running
    /\ UNCHANGED <<stack, handlers, restarts, nextId, transfer, record>>

Leave ==
    \/ LeaveHandlers \/ LeaveTryBody \/ LeaveTryHandler \/ LeaveFinally
    \/ LeaveTry \/ LeaveRestarts \/ LeaveRestartHandler
    \/ LeaveCall \/ LeaveOnExit \/ HandlerFails

Next ==
    \/ \E on \in HandlerLists, finally \in BOOLEAN : TryCatch(on, finally)
    \/ \E on \in HandlerLists : WithCallingHandlers(on)
    \/ SuppressWarnings \/ Try \/ WithRestarts
    \/ \E exit \in BOOLEAN : Call(exit)
    \/ \E id \in Ids \cup {Abort} : InvokeRestart(id)
    \/ \E s \in Signals : Signal(s[1], s[2])
    \/ Fail
    \/ \E j \in 1..Len(handlers) : RunCalling(j)
    \/ \E j \in 0..Len(handlers) : WalkEnds(j)
    \/ HandlerReturns \/ Leave \/ NextStatement

Spec == Init /\ [][Next]_vars

\* The interpreter does not stop by itself: an Err keeps unwinding, a walk goes
\* on, and a cleanup expression that uses no conditions comes to its end.
Machine ==
    \/ flow # Running /\ Leave
    \/ Program.quiet /\ (LeaveFinally \/ LeaveOnExit)

FairSpec == Spec /\ WF_vars(Machine)

-----------------------------------------------------------------------------
(* Properties *)

\* The calls whose handler frame, and whose restart, is established.
Handling == {k \in DOMAIN stack :
    \/ stack[k].op \in {"withCallingHandlers", "suppressWarnings"}
    \/ stack[k].op = "tryCatch" /\ stack[k].phase = "body"}
Restarting == {k \in DOMAIN stack :
    \/ stack[k].op = "withRestarts" /\ stack[k].phase = "body"
    \/ stack[k].op = "signal" /\ stack[k].id # None}
Rank(S, k) == Cardinality({l \in S : l <= k})

\* However calls are left, the two host stacks hold exactly what the calls in
\* progress established, in their order.
Balanced ==
    /\ Len(handlers) = Cardinality(Handling)
    /\ \A k \in Handling :
         handlers[Rank(Handling, k)].calling = (stack[k].op # "tryCatch")
    /\ Len(restarts) = Cardinality(Restarting)
    /\ \A k \in Restarting : restarts[Rank(Restarting, k)] = stack[k].id

\* The handlers running right now: signalling calls, by their frame.
HandlersRunning == {k \in DOMAIN stack : stack[k].op = "signal" /\ stack[k].todo > 0}

\* A frame is disabled exactly while a handler of it, or of a frame that was
\* established outside it, runs (signal_to_handlers saving and restoring).
DisabledInside ==
    \A j \in DOMAIN handlers :
        handlers[j].disabled <=>
            \E k \in HandlersRunning :
                j \in stack[k].at..stack[k].at + Len(stack[k].saved) - 1

\* The handler and restart stacks, changed by position, stay those of the calls
\* in progress: their length, their order and what is disabled in them.
StacksKept == Balanced /\ DisabledInside

\* tryCatch takes the error that is unwinding.
TryTakes == In("tryCatch", "body") /\ Act'.phase = "handler" /\ Len(stack') = Len(stack)

\* The tryCatch that takes an error is the one the walk ended at when the
\* error was signalled: a condition signalled by a handler is only offered
\* further out, and an inner tryCatch that was disabled stays out of it
\* (signal_to_handlers).
TakenWherePromised == [][TryTakes /\ Program.contained => Len(handlers) = flow.to]_vars

\* What is recorded about the error that is unwinding describes that error,
\* so its handlers are selected by its own classes (try_catch, take_error_record).
ErrorRecorded ==
    Failed /\ flow.msg # Transfer =>
        /\ Raised = ClassesOf(flow.msg)
        /\ record.object = IF IsObject(flow.msg) THEN flow.msg ELSE None

\* A restart transfer is on its way exactly while an unwinding carries it, and
\* the call that established its target has not been left (restart_invoke).
Carried(out) == out.how = "err" /\ out.msg = Transfer
Suspended(k) == stack[k].phase \in {"finally", "on.exit"} /\ Carried(stack[k].out)
TransferCarried ==
    /\ transfer # None <=> Carried(flow) \/ \E k \in DOMAIN stack : Suspended(k)
    /\ transfer \in Ids => \E k \in DOMAIN restarts : restarts[k] = transfer

\* The fields of the host that stand beside an unwinding tell what unwinds and
\* nothing else, and are clear again when code runs that is not a cleanup.  For
\* scripts whose cleanups use no conditions: see the README for the others.
RecordKept ==
    Program.quiet /\ ~Program.persistent =>
        /\ ErrorRecorded /\ TransferCarried
        /\ flow = Running /\ ~Cleaning => transfer = None /\ record = NoRecord

\* finally and on.exit run whichever way the call is left.
CleanupsRun ==
    [][/\ Len(stack') < Len(stack)
       /\ Act.op \in {"tryCatch", "call"}
       /\ Act.cleanup
       => Act.phase \in {"finally", "on.exit"}]_vars

\* A transfer lands: at the call that established its restart, or, for abort,
\* at the top level.
TransferLands ==
    Program.quiet =>
        /\ transfer \in Ids ~> transfer = None
        /\ transfer = Abort ~> In("top", "body")
=============================================================================
