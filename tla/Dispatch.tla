------------------------------ MODULE Dispatch ------------------------------
(***************************************************************************)
(* How a call is entered: S3 dispatch with the one-shot flags it hands to  *)
(* the call it makes, the virtual machine a closure body runs on, and the  *)
(* operator site that diagnostics name.                                    *)
(*                                                                         *)
(* dispatch_from tells call_closure which dispatch selected the method     *)
(* (pending_dispatch), tells call_primitive not to dispatch again          *)
(* (suppress_s3), and eval_promise_thunk tells call_closure that the call  *)
(* is a promise (FORCING).  None of them is an argument of the call: each  *)
(* is state that the next call to come along consumes.                     *)
(***************************************************************************)
EXTENDS Naturals, Sequences, FiniteSets

CONSTANTS
    None,
    Closures,       \* closure ids
    Thunk,          \* the closure id of a promise's expression
    Tables,         \* which function is the method of each class, see Method
    Primitive,      \* a method that is a builtin, not a closure
    MaxFrames,      \* MAX_DEPTH
    MaxStack,       \* bound: activations
    UserGenerics    \* programs considered: the generics that closures pass to
                    \* UseMethod; "(" is a keyword

Internal == {"print", "+"}    \* an internal generic, and a member of a group
Generics == Internal \cup UserGenerics

\* A class vector is a sequence of positions; "default" is the last of them.
Default   == 3
Positions == 1..Default

ASSUME DispatchAssumption ==
    /\ Thunk \notin Closures /\ None \notin Closures \cup {Primitive, Thunk}
    /\ (Closures \cup {Thunk}) \cap (Generics \cup {Primitive}) = {}
    /\ IsFiniteSet(Closures)
    /\ Tables \subseteq [Positions -> Closures \cup {None, Primitive}]
    /\ MaxFrames \in Nat \ {0} /\ MaxStack \in Nat /\ MaxStack > 1
    /\ UserGenerics \subseteq {"user", "("}

VARIABLES
    table,     \* the methods the program defines
    stack,     \* the activations, innermost last
    flow,      \* "run", or what the innermost one came to: "ok", "err"
    pending,   \* RHost.pending_dispatch
    suppress,  \* RHost.suppress_s3
    forcing,   \* FORCING
    vms,       \* CLOSURE_VMS: the machine parked for a closure, 0 when none is
    context    \* OP_CONTEXT: the machine, and the operator it is in (0: none)

flags == <<pending, suppress, forcing>>
vars  == <<table, stack, flow, pending, suppress, forcing, vms, context>>

\* Method(c): the function that the method lookup finds for class c, that is
\* <generic>.<class>, or else the group's.
Classed   == <<1, 2>>
Method(c) == table[c]

Ids      == Closures \cup {Thunk}
Machines == 1..(MaxStack + Cardinality(Ids))
Values   == {0, 1}  \* bound: a formal is assigned once
Plan     == [generic : Generics, rest : Seq(Positions)]
Context  == [vm : Machines, site : {0, 1}]

Main(vm) == [op |-> "main", vm |-> vm, outer |-> [vm |-> vm, site |-> 0]]
MainSet  == [op : {"main"}, vm : Machines, outer : Context]
\* A closure's frame.  args: what it was called with; x: its formal now.
CallSet  == [op : {"call"}, id : Ids, vm : Machines, outer : Context,
             env : 0..MaxStack, promise : BOOLEAN, dispatch : Plan \cup {None},
             args : Values, x : Values]
\* A function value about to be called, before any flag is read.  env: of its
\* closure; classed: the object it is given has a class attribute.
CalleeSet == [op : {"callee"}, fun : Ids \cup Generics \cup {Primitive},
              env : 0..MaxStack, classed : BOOLEAN, arg : Values,
              default : BOOLEAN]
\* A builtin's own body; default: dispatch_from fell through to it.
BodySet  == [op : {"body"}, default : BOOLEAN, catches : BOOLEAN]
\* use_method and next_method, with what they have read so far.
ReadSet  == [op : {"use", "next"}, plan : Plan \cup {None}, arg : Values]
\* dispatch_from while the method runs; from: where it was asked.
DispSet  == [op : {"dispatch"}, plan : Plan, from : 1..MaxStack]
ForceSet == [op : {"force"}]
SiteSet  == [op : {"site"}, prev : {0, 1}]

\* The type of the state.
TypeOK ==
    /\ table \in Tables
    /\ stack \in Seq(MainSet \cup CallSet \cup CalleeSet \cup BodySet \cup ReadSet
                        \cup DispSet \cup ForceSet \cup SiteSet)
    /\ Len(stack) \in 1..MaxStack
    /\ flow \in {"run", "ok", "err"}
    /\ pending \in Plan \cup {None}
    /\ suppress \in BOOLEAN /\ forcing \in BOOLEAN
    /\ vms \in [Ids -> {0} \cup Machines]
    /\ context \in Context

Init ==
    /\ table \in Tables
    /\ stack = <<Main(1)>>
    /\ flow = "run"
    /\ pending = None /\ suppress = FALSE /\ forcing = FALSE
    /\ vms = [id \in Ids |-> 0]
    /\ context = [vm |-> 1, site |-> 0]

-----------------------------------------------------------------------------
Here         == Len(stack)
Top          == stack[Here]
Under        == SubSeq(stack, 1, Here - 1)
IsChunk(a)   == a.op \in {"main", "call"}
Calls        == {k \in 1..Here : stack[k].op = "call"}
HighestOf(S) == CHOOSE k \in S : \A m \in S : m <= k

\* Whether the innermost activation is of kind op, and the next to take a step.
Doing(op) == flow = "run" /\ Top.op = op
Runs      == flow = "run" /\ IsChunk(Top)

\* The frame on top, and the environment code runs in; 0 is the global one.
LastCall == IF Calls = {} THEN 0 ELSE HighestOf(Calls)
Env      == IF Calls = {} THEN 0 ELSE stack[LastCall].env

\* A slip: the frame on top, be it a promise's (mutant of InnermostCall).
LastFrame == LastCall

\* RHost.innermost_call: the frame that owns the current environment, looking
\* past promises, or else the innermost one that is not a promise's; 0: none.
InnermostCall ==
    LET own   == {k \in Calls : ~stack[k].promise /\ stack[k].env = Env}
        other == {k \in Calls : ~stack[k].promise}
    IN  IF own # {} THEN HighestOf(own)
        ELSE IF other # {} THEN HighestOf(other) ELSE 0

\* fresh_vm: a machine nobody holds.
FreshVm ==
    LET held == {stack[k].vm : k \in {m \in 1..Here : IsChunk(stack[m])}}
                   \cup {vms[id] : id \in Ids}
    IN  CHOOSE m \in Machines : m \notin held

TakeShared(id) ==   \* a slip: the machine stays parked (mutant of TakeVm)
    vms' = vms

VmParked(id) == vms[id]   \* a slip: the slot may be empty (mutant of VmFor)

\* run_closure_chunk, first half: the parked machine is taken out of its slot,
\* or a new one is built.
VmFor(id)  == IF vms[id] # 0 THEN vms[id] ELSE FreshVm
TakeVm(id) == vms' = [vms EXCEPT ![id] = 0]

\* drive: a nested machine starts a context of its own.
ContextOf(vm) == [vm |-> vm, site |-> 0]

FreshEnv == CHOOSE e \in 1..MaxStack : \A k \in Calls : stack[k].env # e

\* Pushing an activation, and coming to an outcome.
Push(a)  == Here < MaxStack /\ stack' = Append(stack, a) /\ flow' = "run"
Instead(a) == stack' = Append(Under, a) /\ flow' = "run"
Fails    == flow' = "err" /\ UNCHANGED stack

Callee(fun, env, classed, arg) ==
    [op |-> "callee", fun |-> fun, env |-> env, classed |-> classed, arg |-> arg,
     default |-> FALSE]

-----------------------------------------------------------------------------
(* A function is entered *)

\* call_closure, as far as the first instruction of the body.
Frame(callee, promise) ==
    [op |-> "call", id |-> callee.fun, vm |-> VmFor(callee.fun), outer |-> context,
     env |-> IF promise THEN callee.env ELSE FreshEnv,
     promise |-> promise, dispatch |-> pending, args |-> callee.arg, x |-> callee.arg]

Enters(callee) ==
    /\ Instead(Frame(callee, forcing))
    /\ forcing' = FALSE /\ pending' = None
    /\ TakeVm(callee.fun)
    /\ context' = ContextOf(VmFor(callee.fun))

CallClosure ==
    /\ Doing("callee") /\ Top.fun \in Ids
    /\ \/ /\ Cardinality(Calls) >= MaxFrames        \* too deep, or check_stack
          /\ Fails /\ UNCHANGED <<pending, forcing, vms, context>>
       \/ /\ Cardinality(Calls) < MaxFrames         \* match_args
          /\ Fails /\ forcing' = FALSE /\ UNCHANGED <<pending, vms, context>>
       \/ Cardinality(Calls) < MaxFrames /\ Enters(Top)
    /\ UNCHANGED <<table, suppress>>

\* The classes from the first that has a method on; 0: none has.
NextClass(rest) ==
    LET with == {i \in 1..Len(rest) : Method(rest[i]) # None}
    IN  IF with = {} THEN 0 ELSE CHOOSE i \in with : \A j \in with : i <= j
After(rest, i)     == SubSeq(rest, i + 1, Len(rest))

\* What a generic is dispatched on: a group generic has no default method.
ClassesOf(generic, classed) ==
    (IF classed THEN Classed ELSE <<>>) \o (IF generic = "+" THEN <<>> ELSE <<Default>>)

\* dispatch_from, asked by the innermost of base.
FallsThroughAgain(base, generic, arg) ==   \* a slip: the default is not told
                                           \* so (mutant of FallsThrough)
    /\ stack' = Append(base, [Callee(generic, 0, TRUE, arg) EXCEPT !.default = TRUE])
    /\ UNCHANGED <<suppress, pending>>
FallsThrough(base, generic, arg) ==
    /\ stack' = Append(base, [Callee(generic, 0, TRUE, arg) EXCEPT !.default = TRUE])
    /\ suppress' = TRUE /\ UNCHANGED pending
DispatchFrom(base, generic, rest, arg) ==
    LET i    == NextClass(rest)
        plan == [generic |-> generic, rest |-> After(rest, i)]
        disp == [op |-> "dispatch", plan |-> plan, from |-> Len(base)]
    IN  /\ Len(base) + 2 <= MaxStack
        /\ flow' = "run"
        /\ \/ i = 0 /\ FallsThrough(base, generic, arg)
           \/ /\ i # 0
              /\ stack' = base \o <<disp, Callee(Method(rest[i]), 0, TRUE, arg)>>
              /\ pending' = plan /\ UNCHANGED suppress

\* call_primitive.  A keyword reached through its value is settled before the
\* flag is read; a generic one dispatches on an object that has a class, unless
\* it is told that it is the default.
Primitively(default) ==
    \E catches \in {FALSE, ~default} :
        Instead([op |-> "body", default |-> default, catches |-> catches])
HasMethod(generic, classed) == classed /\ NextClass(ClassesOf(generic, TRUE)) # 0
CallPrimitive ==
    /\ Doing("callee") /\ Top.fun \notin Ids
    /\ \/ /\ Top.fun = "("
          /\ Primitively(Top.default) /\ UNCHANGED <<pending, suppress>>
       \/ /\ Top.fun # "(" /\ (suppress \/ Top.fun \notin Internal
                                  \/ ~HasMethod(Top.fun, Top.classed))
          /\ Primitively(Top.default) /\ suppress' = FALSE /\ UNCHANGED pending
       \/ /\ Top.fun \in Internal /\ ~suppress
          /\ HasMethod(Top.fun, Top.classed)
          /\ DispatchFrom(stack, Top.fun, ClassesOf(Top.fun, TRUE), Top.arg)
    /\ UNCHANGED <<table, forcing, vms, context>>

-----------------------------------------------------------------------------
(* What the code of a chunk, or a builtin, may do *)

\* A closure, a builtin or a generic is called by name; or a builtin calls back
\* the function it was given.
Call ==
    /\ Runs \/ Doing("body")
    /\ \/ \E id \in Closures : Push(Callee(id, 0, FALSE, 0))
       \/ \E classed \in BOOLEAN : Push(Callee("print", 0, classed, 0))
    /\ UNCHANGED <<table, flags, vms, context>>

\* The function assigns to the formal its dispatch argument was matched to.
Assign ==
    /\ Doing("call") /\ ~Top.promise /\ Top.x = 0
    /\ stack' = [stack EXCEPT ![Here].x = @ + 1]
    /\ UNCHANGED <<table, flow, flags, vms, context>>

\* eval_promise_thunk, for a promise of a call in progress (one of top-level code
\* differs only in that it has no frame to find).
Writers == {stack[k].env : k \in {m \in Calls : ~stack[m].promise}}
StartForcing(env) ==
    /\ Here + 2 <= MaxStack
    /\ stack' = stack \o <<[op |-> "force"], Callee(Thunk, env, FALSE, 0)>>
    /\ flow' = "run" /\ forcing' = TRUE
ForcePromise ==
    /\ Runs \/ Doing("use") \/ Doing("next")
    /\ \E env \in Writers : StartForcing(env)
    /\ UNCHANGED <<table, pending, suppress, vms, context>>

\* in_op_site, and what the operator does in it: s3_ops dispatches on the class
\* of an operand, or the internal operator answers.
InSite(base) == Append(base, [op |-> "site", prev |-> context.site])
SiteOf       == [context EXCEPT !.site = 1]
Operator ==
    /\ Runs
    /\ context' = SiteOf
    /\ \/ /\ Here < MaxStack
          /\ stack' = InSite(stack) /\ flow' \in {"ok", "err"}
          /\ UNCHANGED <<pending, suppress>>
       \/ /\ HasMethod("+", TRUE)
          /\ DispatchFrom(InSite(stack), "+", ClassesOf("+", TRUE), 0)
    /\ UNCHANGED <<table, forcing, vms>>

\* use_method and next_method read the frame, then force its arguments.
UseMethod ==
    /\ Doing("call") /\ ~Top.promise
    /\ \E generic \in UserGenerics, classed \in BOOLEAN :
           Push([op |-> "use", arg |-> Top.args,
                 plan |-> [generic |-> generic, rest |-> ClassesOf(generic, classed)]])
    /\ UNCHANGED <<table, flags, vms, context>>
PassedOn(k)         == stack[k].x
NextMethod ==    \* written in a function that is still being called
    /\ Runs /\ Env # 0
    /\ Push([op |-> "next", plan |-> stack[InnermostCall].dispatch,
             arg |-> PassedOn(InnermostCall)])
    /\ UNCHANGED <<table, flags, vms, context>>
Dispatch ==
    /\ Doing("use") \/ Doing("next")
    /\ \/ /\ Top.plan = None \/ (Top.op = "use" /\ NextClass(Top.plan.rest) = 0)
          /\ Fails /\ UNCHANGED <<pending, suppress>>
       \/ /\ Top.plan # None /\ (Top.op = "use" => NextClass(Top.plan.rest) # 0)
          /\ DispatchFrom(stack, Top.plan.generic, Top.plan.rest, Top.arg)
    /\ UNCHANGED <<table, forcing, vms, context>>

\* The innermost activation comes to an end; code may fail anywhere.
Finish ==
    /\ Runs \/ Doing("body")
    /\ flow' \in {"ok", "err"}
    /\ UNCHANGED <<table, stack, flags, vms, context>>

-----------------------------------------------------------------------------
(* The way out *)

\* What the activation below makes of an outcome: a chunk and a builtin go on,
\* a chunk halts at an error or after its UseMethod, try takes an error.
Outcome(below, f) ==
    IF f = "ok" THEN (IF IsChunk(below) \/ below.op = "body" THEN "run" ELSE "ok")
    ELSE IF below.op = "body" /\ below.catches THEN "run" ELSE "err"
Pops(f) == stack' = Under /\ flow' = f

\* run_closure_chunk and drive, second half; call_closure pops the frame.
ContextLost(a) ==   \* a slip: only a body that succeeds puts it back (mutant of
    context' = IF flow = "err" THEN context ELSE a.outer   \* ContextBack)
ContextBack(a) == context' = a.outer
Park(a) == vms' = [vms EXCEPT ![a.id] = a.vm]
LeaveCall ==
    /\ flow # "run" /\ Top.op = "call"
    /\ Park(Top) /\ ContextBack(Top)
    /\ Pops(Outcome(stack[Here - 1], flow))
    /\ UNCHANGED <<table, flags>>

\* The Rust functions that are waiting for it.
LeaveBody ==
    /\ flow # "run" /\ Top.op \in {"body", "callee"}
    /\ Pops(Outcome(stack[Here - 1], flow))
    /\ UNCHANGED <<table, flags, vms, context>>
PendingKept ==      \* a slip: a ? on the call skips the reset (mutant of
    pending' = IF flow = "ok" THEN None ELSE pending     \* PendingCleared)
PendingCleared == pending' = None
LeaveDispatch ==
    /\ flow # "run" /\ Top.op = "dispatch"
    /\ PendingCleared
    /\ Pops(Outcome(stack[Here - 1], flow))
    /\ UNCHANGED <<table, suppress, forcing, vms, context>>
LeaveForce ==
    /\ flow # "run" /\ Top.op = "force"
    /\ forcing' = FALSE
    /\ Pops(IF flow = "ok" THEN "run" ELSE Outcome(stack[Here - 1], flow))
    /\ UNCHANGED <<table, pending, suppress, vms, context>>
SitePut(a) == context' = [context EXCEPT !.site = a.prev]
LeaveSite ==
    /\ flow # "run" /\ Top.op = "site"
    /\ SitePut(Top)
    /\ Pops(Outcome(stack[Here - 1], flow))
    /\ UNCHANGED <<table, flags, vms>>
\* NextMethod answers its caller; UseMethod ends the function that called it.
LeaveRead ==
    /\ flow # "run" /\ Top.op \in {"use", "next"}
    /\ Pops(IF Top.op = "use" THEN flow ELSE Outcome(stack[Here - 1], flow))
    /\ UNCHANGED <<table, flags, vms, context>>

Leave == LeaveCall \/ LeaveBody \/ LeaveDispatch \/ LeaveForce \/ LeaveSite \/ LeaveRead

Next ==
    \/ CallClosure \/ CallPrimitive
    \/ Call \/ Assign \/ ForcePromise \/ Operator \/ UseMethod \/ NextMethod \/ Dispatch
    \/ Finish \/ Leave

Spec == Init /\ [][Next]_vars

-----------------------------------------------------------------------------
(* What must hold *)

\* A frame has a dispatch exactly when it is the method that this dispatch
\* selected, so that a NextMethod() anywhere else fails (pending_dispatch is set
\* just before the call of the method, and the next call_closure takes it).
DispatchIsTheMethods ==
    \A k \in Calls :
        stack[k].dispatch = IF stack[k - 1].op = "dispatch" THEN stack[k - 1].plan
                                                           ELSE None

\* Every flag reaches the call it was set for and no other: none is set while
\* code of a function runs, whatever failed before; a frame's dispatch is its
\* own; and a frame is a promise's exactly when a promise is being forced.
FlagsReachTheirCall ==
    /\ Runs => pending = None /\ ~suppress /\ ~forcing
    /\ DispatchIsTheMethods
    /\ \A k \in Calls : stack[k].promise <=> stack[k - 1].op = "force"

\* NextMethod() continues the dispatch of the method it is written in, with that
\* method's own formal as it now is, however deep the argument it is written in
\* is forced (innermost_call looks past promises to the writer's frame); and the
\* chain comes to an end: each method stands later in the class vector than the
\* one that asked for it, and the internal default that dispatch falls through
\* to does not dispatch again.
NextContinuesItsMethod ==
    /\ \A n \in 1..Here : stack[n].op = "next" =>
        \E k \in Calls :
            /\ k < n /\ ~stack[k].promise
            /\ stack[k].env = stack[n - 1].env
            /\ stack[n].plan = stack[k].dispatch /\ stack[n].arg = stack[k].x
    /\ \A n \in 1..Here : stack[n].op = "dispatch" =>
        LET by == stack[stack[n].from]
        IN  /\ by.op \in {"next", "use"} => Len(stack[n].plan.rest) < Len(by.plan.rest)
            /\ by.op = "callee" => ~by.default

\* Each body runs on a machine of its own: one that is running is neither parked
\* nor another activation's, and one that is parked is parked once, so that a
\* function that calls itself, or a call left by an error, disturbs no other.
\* A diagnostic names an operator of the machine that is running: the context is
\* the innermost chunk's, with the site of the operator it is evaluating and none
\* when it evaluates none (op_site_value reads the site's index in the chunk's
\* own table).
MachinesAreOwned ==
    LET chunks == {k \in 1..Here : IsChunk(stack[k])}
        top == HighestOf(chunks)
    IN  /\ \A j, k \in chunks : stack[j].vm = stack[k].vm => j = k
        /\ \A k \in chunks, id \in Ids : vms[id] # stack[k].vm
        /\ \A a, b \in Ids : vms[a] = vms[b] /\ vms[a] # 0 => a = b
        /\ context.vm = stack[top].vm
        /\ context.site = 1 <=> \E k \in top..Here : stack[k].op = "site"

=============================================================================
