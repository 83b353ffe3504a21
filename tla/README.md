# rlang in TLA+

Specifications of the rlang interpreter (`src/src/*.rs`): what its runtime keeps
and does, model-checked with TLC on small instances, and theorems about it
proved with TLAPS for every instance. Paths below are relative to the
repository root `src/`; `host.rs` is `src/src/host.rs` and so on.

## The system

rlang reads R source (`lexer.rs`, `parser.rs`), compiles it to fusevm bytecode
(`compiler.rs`) and runs it. One thread-local `RHost` holds the whole runtime
state; R-level calls, promises, handlers and cleanups each run on a nested
virtual machine, so the Rust call stack mirrors R's. The builtins
(`builtins.rs`, half of the code) work on the values of that heap.

| Component | State | Operations | Interacts with | What makes it correct | Modules |
|---|---|---|---|---|---|
| Heap and reference counts (`host.rs`, `builtins.rs`, `compiler.rs`) | objects, their `refcnt`, environments, operand stacks | allocate, bind, `<<-`, `rm`, subscript assignment in place or by rebuilding, call, force, return, unwind | every other one | counts never too low; assignment has value semantics | `RHeap`, `RValues`, `RHeapValues`, `RHeapProofs` |
| Conditions (`builtins.rs`, `host.rs`) | handler stack, restart stack, the transfer and the error record in flight | `tryCatch`, `withCallingHandlers`, `try`, `suppress*`, `withRestarts`, `stop`, `warning`, `signalCondition`, `invokeRestart`, `on.exit` | calls (unwinding), REPL | stacks balance; each error taken where the walk promised; transfers land; cleanups run | `Conditions`, `ConditionsProofs` |
| Call frames and contexts (`host.rs`) | `frames`, `calls`, hidden ranges, the pending `Signal` | call, force, return, break/next, `sys.call` | conditions, S3, loops | a signal reaches the code it is for; contexts cut back | `Signals`, `SignalsProofs` |
| Nested machines (`host.rs`) | parked VM per closure, operator context | take, run, park | calls | no activation sees another's machine | `Dispatch`, `DispatchProofs` |
| S3 dispatch (`builtins.rs`) | one-shot `pending_dispatch`, `suppress_s3` | `UseMethod`, `NextMethod`, internal and group generics | calls | flags reach exactly the call they are set for; `NextMethod` continues its method | `Dispatch`, `DispatchProofs` |
| Warnings queue, output, REPL (`host.rs`, `repl.rs`, `main.rs`) | queue, count, buffered output, closure table | queue, flush, run a file, a line, `eval` | conditions, embedded R | each thing shown once and in order; a function keeps its body | `Session`, `SessionProofs` |
| Embedded R, capture and replay (`main.rs`, `rembed.rs`) | the capture file, held diagnostics | capture, release, hand over | command line | output appears once | `Session`, `SessionProofs` (R itself external) |
| Compiler (`compiler.rs`) | loop stack, slot-bound locals | lowering | all | lowered code keeps the meaning of the text and the depth of the stack | `Machine`, `Compiled`, `Language`, `EvaluatorProofs` |
| Lexer, parser, deparser (`lexer.rs`, `parser.rs`, `ast.rs`, `deparse.rs`) | none | text to tree and back | all | the operator table and the newline rule; what is written reads back | `Syntax`, `ValueText` |
| Calls as data, argument matching (`builtins.rs`, `host.rs`, `primargs.rs`) | none | `match.call`, `substitute`, `bquote`, special forms | compiler, calls | agree with the syntax and with R's rule | `Matching`, `Language`, `EvaluatorProofs` |
| Subscripts (`builtins.rs`) | the plan of a write between its check and its end | read, write, in place or rebuilt | heap, conditions | what is written reads back, the rest stays; in place as rebuilt | `Subscripts`, `SubscriptsProofs` |
| Vector builtins (`builtins.rs`) | none but the values | arithmetic, summaries, order, sets, factors, tables, mapping | S3, heap | separately written ways to one result agree; attributes fit | `VectorValues`, `Arith`, `Vectors`, `Mapping` |
| Matrices and arrays (`builtins.rs`, `linalg.rs`) | none | turn, bind, index, sum over margins, products, `solve`, `determinant` | vector builtins | the same cells and labels move; factors multiply to the matrix | `Arrays`, `Linear` |
| Sampling (`rng.rs`, `builtins.rs`) | the generator | `sample`, `sample.int` | vector builtins | draws are arrangements; weights kept | `Sampling` |
| Bytecode cache, interception, DAP, LSP, AOT, tiers, regular expressions, documentation, harnesses, WebAssembly | see *Not modelled* | | | | |

Where it is hard: an object is shared between variables, elements, promises,
frames and uncounted operands, and the decision to write in place looks at a
count kept by hand, sometimes before code that runs in between; errors,
`return()` and restart transfers all leave through the same Rust `Err` path,
past cleanups that may themselves fail or transfer; handlers run on top of the
code that signalled; promises run late and in another frame; one-shot flags are
set for "the next call"; machines are parked and taken again by code that calls
itself; output and diagnostics are held apart and put together at the end; the
compiler decides where a value is kept and which arguments run late; and the
builtins compute many things in two or three separately written ways (a scalar
path and a vector path, in place and rebuilt, by row and by column).
`PROJECT.json` lists each such hazard at its line with the properties that
cover it.

## Modules

| Module | Models |
|---|---|
| `RHeap` | heap, counts, environments, frames, promises, complex assignment; `RefcountSound`, `WritesArePrivate` |
| `RValues` | abstract specification: variables hold values, an assignment changes the variable it names |
| `RHeapValues` | the values `RHeap` gives variables and operands; `RHeap` implements `RValues` (`ValueSemantics`), and the other value properties |
| `Conditions` | handler and restart stacks, signalling walk, unwinding, transfers, error record, cleanups |
| `Signals` | nested chunks, `return()`, `break` and `next` through them, the call contexts and what `sys.call()` sees |
| `Dispatch` | S3 dispatch, one-shot flags, frames, parked machines, operator context |
| `Session` | output, capture and replay, the warnings queue, the table of function bodies |
| `Subscripts` | reading and writing through subscripts |
| `Machine` | the virtual machine: values, operators, one action per operation, the depths a code's operations expect |
| `Compiled` (extends `Machine`) | the code of control flow and assignment, and the meaning it is compared with |
| `Syntax` | lexer's newline rule, parser, folding of quoted heads, deparser |
| `Matching` | which formal each argument goes to, and R's rule for it |
| `Language` (extends `Syntax`, `Matching`) | calls as lists, substitution, the users of argument matching, delayed arguments |
| `ValueText` (extends `Language`) | values written as text |
| `VectorValues`, `Arith`, `Vectors`, `Mapping` | values and conversions; operators and summaries; order, sets, factors, tables; functions mapped over values |
| `Arrays`, `Linear`, `Sampling` | matrices and arrays; linear systems; `sample` |
| `Workspace` | a variable that the operators of the seven modules above are called on, and what must agree |
| `RHeapProofs`, `ConditionsProofs`, `SignalsProofs`, `DispatchProofs`, `SessionProofs`, `SubscriptsProofs` | theorems about the module they are named for |
| `EvaluatorProofs` | theorems about `Matching` and `Machine` |
| `Lemmas` | induction over the naturals, counts, parts of sequences: what those proofs share |
| `MC...` | instances for TLC |

`Workspace` composes the builtins, `ValueText` (over `Language` and `Syntax`) the
reading and writing of programs. `RHeap`, `Conditions`, `Signals`, `Dispatch`, `Session` and
`Compiled` each take one group of the host's fields, with the other groups as
what a program may do at that place.

Definitions named as mutants (in a comment) are not part of a model: each is a
definition with one plausible bug, and shows that a property can fail.

### RHeap

A program is any sequence of the operations the compiler emits; the model keeps
what decides sharing and abstracts content: an atomic vector has one content
from `Cells`, a list has `Positions`. `ref` says what each durable place holds: an
environment binding, a list element, a promise's remembered value, a frame's
argument list. Exactly these are what `retain` and `release` count in the code,
`rc` is `RObj.refcnt`, saturating at `RefMax` as `REFCNT_MAX`. Operands live on the
stack of each frame's machine (`frames[d].stack`) and are not counted.

- `Rebind` is `bind_in` with its early return, `RetainEach` the retaining of
  `alloc_with`, `ReleaseEach` the releasing in `call_closure`.
- `BeginAssign`, the writes and `Store` are the parts of the lowered `x[i] <- v`: the
  right-hand side is duplicated, the target's object pushed, subscripts run above
  it (any instructions, until the stack is back at `base`), `b_index_set` writes in
  place or rebuilds, the result is stored. `BeginNested` is `x[[i]][[j]] <- v`, which
  pins the inner object (`MARK_SHARED`).
- `Call`, `CallWith`, `ForcePromise` enter a frame; `Return`, `ReturnForced`, `Unwind`
  leave it. A closure's environment dies with its frame unless a closure on the
  heap encloses it (`Captured`, `Rc::strong_count`). A promise runs in the environment
  that wrote it, with no environment of its own.

The writes are guarded by `rc <= 1` and the scan of the running machine's stack
(`MayMutate`).

Two constants select programs. `LocalTargets`: a complex assignment targets a
variable of the running frame. `StableTargets`: subscripts do not rebind the target,
and do not remove it either, as the name would then mean the enclosing variable
(`x[[{x <- 0; rm(x); 1}]] <- 9`). Without the first value semantics fails, which the
violation run shows; with both it holds in every run, and is proved.

Left out: attributes, factors and names (`set_attr` retains as a list element
does), other replacement functions (`REPLACE`), slot-bound locals of top-level loops,
`...` argument lists. A warning signalled between the check and the write of one
assignment is in `Subscripts`.

### Conditions

The Rust calls in progress form `stack`; the innermost one sees `flow`: code running,
a signalling walk, or an `Err` on its way out. `handlers`, `restarts`, `nextId`, `transfer`
(`restart_invoke`) and `record` (`error_classes`, `error_condition`) are the `RHost` fields.
What a program does is free (`TryCatch` ... `Fail`); what the machine does in answer is
not: `RunCalling`, `HandlerReturns`, `HandlerFails`, `WalkEnds` are `signal_to_handlers` and the
builtin around it; `Leave...` are the ends of `try_catch`, `r_try`, `with_restarts`,
`with_calling_handlers`, `suppress_conditions` and `call_closure`, with a value or an `Err`.
Conditions are told apart by what the code tests: an error built from a message, a
condition object with a class of its own, a warning.

`Err` carries, besides its message, the handler frame at which the walk for it
ended; the code has nothing like it and only `TakenWherePromised` reads it.

`Programs` is the set of kinds of programs considered, one of which is chosen at
the start. A kind says whether `finally` and `on.exit` are `quiet` (use no
conditions), whether a calling handler's errors are `contained` (caught inside it),
and whether the host is `persistent` (REPL, embedding: it outlives an uncaught
error). The run takes scripts that are quiet and contained, and REPL statements
that are neither. `StacksKept` and `CleanupsRun` hold of both; `TakenWherePromised` is
about contained programs, `TransferLands` about quiet ones, `RecordKept` about quiet
scripts. *Also known* says what the others do.

Left out: the context stack (`conditionCall`), several restarts per
`withRestarts` group, message conditions (they follow the warning's path), and
`return()` pending through a `tryCatch`, which is in `Signals`.

### Signals

Every chunk of bytecode runs on a machine of its own, started by a Rust call
inside the machine below. `stack` is that nesting: closure calls, promises (an
argument, or the body of `tryCatch` and its like), `on.exit` chunks, and the
builtins that started one. `flow` says whether the innermost runs or how it ended;
`signal` and `calls` are the `RHost` fields, `hidden` is `HIDDEN`. Each entry of `stack` keeps
the depth its `drive_unwound` cuts the contexts back to (`base`), and the call whose
code it runs (`fun`), which for a promise is the writer's.

- `OpenCall` then `Call`, `CallPrimitive` or `TryCatch` are `b_open_call` and `call_op`; a chunk
  that fails or is left in between has opened a context it never enters.
- `ForceArgument` is `force_value` in `b_getvar`: the argument runs under the contexts of its
  reader, of which those above where it was written are hidden.
- `DoReturn` and `LoopSignal` record a signal and halt the chunk; `Leave...` and `End...`
  are what the Rust code does with it on the way out: `LeaveFrame` the end of
  `call_closure`, `BeginOnExit` and `EndOnExit` its cleanup loop, `Answer` the end of
  `call_op` with `propagate`, `LazyAnswer` the jump table the compiler emits after a lazy
  call inside a loop, `EndTryBody` to `EndFinally` the rest of `try_catch`.
- `try` is a `TryCatch` that catches, `withCallingHandlers` and the `suppress*` functions one
  that does neither; which conditions are caught is `Conditions`' subject.

A signal in the model also says whose it is (`home`), which the code's does not:
the properties compare it with who takes it.

Two constants select programs. `ArgReturns`: `return()` may stand in an argument.
`AbruptCleanups`: an `on.exit` expression may fail while nothing inside it catches the
error, and a `finally` expression may return or jump out of its `tryCatch`. The run
excludes both; *Also known* says what they do.

Left out: `break` and `next` raised by an `on.exit` expression, code run by `eval`, several
`on.exit` expressions of one call (they run one after the other, each as this one),
a promise read twice (it answers its remembered value).

### Dispatch

`stack` holds the activations, from chunks to the Rust functions that wait for
them; `pending`, `suppress`, `forcing`, `vms`, `context` are `pending_dispatch`,
`suppress_s3`, `FORCING`, `CLOSURE_VMS` and `OP_CONTEXT`.

- `UseMethod`, `NextMethod` read the frame and force its arguments, `Dispatch` is
  `dispatch_from`: it looks for the next class with a method, sets the flags and makes
  the call, or falls through to the internal default.
- `CallClosure` is `call_closure` with `run_closure_chunk`: the flags are taken, the depth
  limit is tested before anything is pushed, the machine parked for the closure is
  taken or a new one made, the operator context is saved. `CallPrimitive` is `call_primitive`.
- `ForcePromise` is `eval_promise_thunk`, `Operator` an operator with its site, `Assign` the
  assignment to the formal that a later dispatch reads.
- `Finish` ends the innermost activation in success or failure; `LeaveCall`, `LeaveDispatch`,
  `LeaveForce`, `LeaveSite`, `LeaveRead` are what each waiting function does with the outcome.

A frame also remembers which dispatch selected it, which only the properties read.
`UserGenerics` selects programs: the keyword `(` as a generic is left out of the run.
Left out: group dispatch on two arguments, `inherits`, methods found in enclosing
environments, the site tables of chunks and machines of promises (never parked).

### Session

`mode` is how the program was started: a script whose output is captured, a script
whose capture file cannot be opened, an embedder that calls `eval_str` time and
again, the REPL. `unflushed`, `file`, `held` are standard output's own buffer (an
incomplete line stays in it, in every mode), the capture file and the diagnostics with
their offsets; `phase` is `"idle"` between two lines or two `eval_str`; `warnings` and `warnCount` the queue; `closures` the table of bodies, with ids
shifted for every program compiled into it; `parked` the machines that hold a body.

- `Write` is `print` and `cat` (`emit`); `Emit` is `emit_stderr`, through the capture's hook,
  which flushes standard output, or at once where there is none; `Replayed` is `replay`; `Finish`, `AbortRestart` and `ScriptFails` are `eval_with_cran_fallback`.
- `Warn` is `r_warning` at each level of `options(warn)`, `Queue` and `Flush` the queue and its
  batches, flushed by `EndStatement`, `Eval`, `LineEnds` (`run_main`) and when a script
  fails; `LineFails` (a line or an `eval_str`) leaves it as it is.
- `Define`, `CallFunction`, `Eval`, `Line`, `Reload` make, call and load functions
  (`b_mkclosure`, `shift_closure_ids`, `load_closures`, `reset_host`).

`written`, `statement`, `raised` (every warning to be reported), `queued` (those the queue
is for), `lost` (those dropped with a host by `reset_host`) and `failed` (the statements
that failed) record the history that the properties compare with; nothing the code
does reads them. `ReportedOnce` allows a warning to be lost in one way only, that of
the code: queued by an `eval_str` that failed, and dropped by the next. Wording, nested
captures, the embedded library, a line editor that flushes standard output and an
embedder that calls `flush_warnings` itself are left out.

### Subscripts

`x` is the vector read and written, `held` what another name holds, `same` whether that
is the same object. `Assign` is `assign_index`: the subscripts are resolved to a plan,
the decision to write in place is taken, and either the write is done at once
(`Perform`) or a recycling or factor-level warning is signalled first (`pend`); then the
handlers may bind the vector elsewhere (`HandlerTakes`), return (`Resume`) or leave
(`Abandon`). `Take` reads. Positions by number, leaving out, mask, name, coordinates
and by margin, the growth of vectors, deletion from lists, nested `[[` and factors are
operators of the module, one for each function of the code.

Left out: recursive subscripts below two levels, `[[<-` on environments and
functions, subscripts with classes of their own.

### Compiled, Machine

A program is a tree. `Expr` and its companions give the code `compiler.rs` emits for
each node, with relative jumps and placeholders for the jumps out of a loop; the
actions of `Machine` run one operation each, with a stack, native slots and the
environment (`GetSlot`, `b_getvar`, `Branch`, `CallTry`, `b_loop_signal`, ...). `Heights` reads the
depth of the stack at every operation off the code, and a code is `Balanced` when all
ways to an operation agree about it. `Meaning`
evaluates the tree itself, with neither code nor stack nor slots, in at most `Fuel`
rounds of a loop, and is the abstract specification the run is compared with.
`Modes` says whether variables live in slots (a script) or in the environment (the
REPL, `eval`).

Left out: the prologue that fills in closures' defaults, operator site tables,
native code.

### Syntax, Language, ValueText

A text is a sequence of tokens, typed phrase by phrase as long as it can still
become a program (`Type`). `Syntax` has the lexer's newline rule, the parser's
ladder, the folding of a call with a quoted head (`ast.rs`) and the deparser with
its layout. `Language` takes calls apart and together in each of the ways the code
does (`lang_len`, `subscript_parts`, `as.call`, `substitute`, `bquote`), matches arguments to
formals (`Matching` has the three passes of `match_positions`), and says which arguments the compiler delays, quotes or labels.
`ValueText` writes values (types of missing elements, names, attributes, lists in
lists) and reads them back. The parser is written as operators, one per level of
the ladder; the reference it is compared with is the table of operators.

Left out: characters to tokens, escapes, numbers, the width of a line in
characters (a line is cut after `Cutoff` tokens).

### The vector builtins

A value (`VectorValues`) has a type, elements and attributes. Numbers are exact
fractions `<<n, d>>`, `<<1, 0>>` is infinite, `<<0, 0>>` not a number, `NA` a model value;
integers leave the range at `IntMax` where the code's leave 32 bits. Text is compared
by a table. Each operator of `Arith`, `Vectors`, `Mapping`, `Arrays`, `Linear`
and `Sampling` is one builtin or one helper of `builtins.rs`, `linalg.rs` or `rng.rs`,
with the order of its cases. A function that is mapped is a name with what it
captures (`call_fun`). What a generator draws is an argument.

`arith` is what the builtins and the machine's numeric hook run: `+`, `-` and `*` of two
unboxed numbers are operations of the machine itself (`compiler.rs:782`), which
`ArithmeticAgrees` does not compare.

`Workspace` keeps one variable, `value`; `CalculatesWith` applies a binary operator and
`Calls` a builtin (`primitive_body`), whose result takes the value's place. A guard
(`Takes`) keeps to the values each builtin is modelled for.

Left out: rounding of doubles, strings other than as elements, dates, regular
expressions, data frames, input and output, models; the generator itself.

## Runs

| Run | Shows | Bounds |
|---|---|---|
| `heap_calls` | `RefcountSound`, `ValueSemantics`, `WritesArePrivate` through calls, promises, `<<-`, closures, errors | 1 name, 2 environments, 3 objects, depth 3, 4 operands, counts to 3 |
| `heap_lists` | `TypeOK`, `Acyclic`, `RunningOperandsKept` with nested lists and two-level targets | 2 names, 1 environment, 4 operands, 3 objects of which 2 built by `list()` |
| `conditions_scripts` | `StacksKept`, `RecordKept`, `TakenWherePromised`, `CleanupsRun`, `TransferLands` (liveness) | 4 calls, 2 restarts, 3 handler lists |
| `signals_calls` | `WriterSeen`, `ReturnEndsItsWriter`, `JumpReachesItsLoop` | 6 chunks and builtins |
| `dispatch_calls` | `FlagsReachTheirCall`, `NextContinuesItsMethod`, `MachinesAreOwned` | one closure as every method, depth limit 3, 8 activations |
| `session_runs` | `ShownInOrder`, `ReportedOnce`, `FunctionsKeepTheirBodies` | all 4 modes, 5 steps, 3 programs, the queue capped at 3, batches listed to 2 |
| `subscripts_program` | `WrittenReadsBack`, `RestIsKept`, `InPlaceIsTheRebuild`, `ReadsAgree` | 8 vectors, 15 reads, 90 writes, two statements |
| `compiled_programs` | `MeansTheText`, `NothingLeftBehind`, `Halts` (liveness) | the programs of `MCCompiled`, each in both modes |
| `syntax_texts` | `ReadsBack`, `GroupedByTheTable`, `NewlineEndsOnlyComplete`, `CallsAreTheSyntax`, `ArgumentsFindTheirFormals`, `BodiesAreDeferred`, `ValuesReadBack` | twelve vocabularies, 3 to 6 phrases, 2 expressions, lines cut after 3 tokens |
| `vectors_calls` | `ArithmeticAgrees`, `OrdersAgree`, `GroupsAgree` | 8 values, 3 second operands, 2 calls, length 3, integers to 3 |
| `arrays_calls` | `AttributesFit`, `TurnsAlike`, `MarginsAgree` | 6 values, 4 second operands, 2 calls, length 8, numbers to 12; systems of 2 and 3 unknowns |

What each property says is written above it in its module.

The bounds let the interesting cases occur. Three objects are two that share and
one rebuilt from them; depth 3 is a promise forced inside a callee of the frame that
wrote it; four
operands are the three of a pending assignment and one for its subscript to
compute with; counts reach `RefMax`, so saturation happens; two environments are a
closure's and its enclosure. Four calls in progress are two frames, a signal inside
them and the handler it runs, or a handler that is left past another frame; two
restarts are a muffling one and one further out. Six chunks and builtins are the
main program, a function, a `tryCatch` in it, its body, and a function called there
with its cleanup, or an argument forced two calls below the one that wrote it. Eight
activations are a generic, its method and that method's next one, each with the
function that waits for it; depth 3 makes the limit strike inside a dispatch. Six
steps fill the queue past its cap and flush it, or define a function, compile
another program and call both. Two statements are a write and what the next write
or read makes of it; two calls make a matrix of a vector and turn it, or label a matrix
and sum its margins. Panels of one column stand for the code's 64, so that systems of
two and three unknowns are factored in panels. `Fuel` exceeds the rounds of every loop in the programs.

Operations cannot stop the system, but bounds can (no object, call, chunk or
restart left), and programs end, so deadlock is not checked.

One violation run checks a statement of the repository's comments that the code
does not meet: in `heap_free_target`, `x[1] <- v` in a function writes into the
enclosing environment's `x`.

Fairness is used by two runs. `Machine` of `Conditions` is weakly fair: an `Err` keeps
unwinding and a cleanup that uses no conditions comes to an end. `Next` of `Compiled`
is weakly fair: the machine goes on to the next operation. Both are the Rust
control flow itself (nothing between two `?` and nothing in the dispatch loop waits
for anything); programs are under no fairness, and cleanups that loop for ever
are outside the claim.

## Also known

Disagreements between the code and its comments, or R's rules, met while
modelling. The programs concerned are outside the runs (a constant or a guard
says so where it matters), or the models do what the code does.

*Heap.* A subscript that rebinds the target of its own assignment
(`StableTargets`). The check before a write in place scans only the running
machine's operands (`builtins.rs:3831`; the comment at 3816 speaks of every one): an
operand of a caller's machine can change. A calling handler for the recycling
warning that binds the vector elsewhere has its value changed (`builtins.rs:4244`;
comment 4248). `BUGS.md:566` still says that every subscript assignment copies.

*Conditions.* An error raised in a handler is taken by an inner `tryCatch` that the
walk had disabled (`builtins.rs:18114`; comment 17553). A `tryCatch` in a cleanup
forgets the record of the error in flight (18094; comment 18080). A failing `finally`
leaves the transfer recorded (18145). An error inside `try` runs outer calling handlers
first; `try` also absorbs a warning on its way to an outer `tryCatch(warning =)`
(18262). The REPL takes a transfer or record into its next statement (`repl.rs:97`;
`host.rs:611`, `builtins.rs:17988`).

*Signals.* `return()` in an argument ends the reader, not the writer:
`f <- function() { g(return(1)); 2 }; g <- function(x) x` answers 2 (`builtins.rs:1288`;
`host.rs:2993`). A failing `on.exit` expression leaves a `Return` pending that ends
another function (`host.rs:2992`; `builtins.rs:18074`), as does a `finally` that returns while
an error passes.

*Dispatch.* A builtin as method leaves `pending_dispatch` to the first closure it
calls back (`builtins.rs:18374`; `host.rs:2926`). The keyword generic `(` through
`UseMethod` leaves `suppress_s3` set (`builtins.rs:5524`). A frame's kept dispatch arguments
change when a formal is assigned (`host.rs:2925`). A `NextMethod()` in an argument that
is forced after its writer's call ended is answered by another frame. `missing()` of a
forwarded formal with circular defaults recurses for ever (`host.rs:1724`).

*Session.* `eval` flushes warnings in the middle of a statement (`builtins.rs:474`; comment
2121). A script whose capture file cannot be opened prints twice when R takes it
over. In the REPL the warnings of a failed statement wait for the end of the next one;
those of a failed `eval_str` (`host.rs:2427`) are dropped unreported when the next one
resets the host (`lib.rs:74`; `host.rs:732`). Where nothing is captured a diagnostic can be
shown before an incomplete line that was written earlier (`host.rs:665`, `719`), so in
those modes each stream is compared by itself. `options(warn)` outlives the reset.

*Subscripts.* Deleting list elements by a repeated position removes two, and a
repeated unknown name appends two. An unnamed list that grows by number gets
names that are too short on the rebuilding path. A logical mask longer than the
vector does not stretch it (`builtins.rs:4213`). One-dimensional tables lose `dim` with
`drop =` and gain names when rebuilt. `m[[-1, j]]` can be written and not read. A missing
string is skipped in a write. A nested `NULL` write gives a real `NA`.

*Compiler.* `n <- 3; n[1] <- 2; for (i in 1:n)` reads a boxed value as a native one
(`compiler.rs:2055`; comment 2010), as do `f(n <- c(1, 2))` and `for (n in xs)`. With slots,
`for (i in 1:NA)` runs one round (`builtins.rs:2893`), and a nested assignment is echoed
(`compiler.rs:515`); without them, `{ x <- 1; 2 + 3 }`, `-3` and `1 < 2` are invisible
(684). A `break` inside an operand leaves the operands before it. A slot read before
its assignment gives `NULL` or an outer binding.

*Syntax.* `a -> b -> c` groups to the right (`parser.rs:155`; header, line 8). `x <- y = 5` is
written back as `x <- y <- 5`. `a < b < c`, two expressions on a line, and `else` on a new
line at top level are accepted. No line continues after `pkg::`; `a ~ b ~ c` becomes two
statements. A tree built with a dangling `if` or `function` on the left of an operator
does not read back (`deparse.rs:488`).

*Calls as data.* `substitute` looks through the whole chain of enclosures
(`builtins.rs:563`; comment 538), does not walk assignments, loops or functions, and
ignores tags; `evalq(p)` evaluates `p`. Partial matching depends on the order of
arguments. Partial tags do not reach special forms. The first untagged argument of `try`
and `tryCatch` is delayed even when `expr =` is given; `finally =` of `withCallingHandlers` is
delayed too. `delayedAssign` ignores `eval.env`. Untagged arguments of builtins are
counted without leaving out the tagged ones (`append(x = 1:3, 4)`).

*Vectors.* Arithmetic does not compare dimensions (`matrix(1:4, 2) + 1:8`). `sum` and `diff` of
integers leave 32 bits. `-5 %/% Inf` is not a number. `for (i in 1:2.5)` gives doubles.
`Filter` loses levels, `inverse.rle` names. `modifyList` does not delete by `NULL`. `pmin` and
`pmax` pass NaN over; NaN as a logical is `TRUE`. `split` ignores `drop`.
`cbind(matrix(1:4, 2), 1:3)` stretches. `rowSums` of no columns gives `NA`, `margin.table` of
integers with `NA` gives 0. `apply` over several margins gives a matrix with one
column per cell and loses the heading of an unlabelled margin. `t` treats an array of
three dimensions as a vector. `identical` compares type, names and data
(`builtins.rs:13031`). `sample` by hashing answers a duplicate after 100 failed redraws.

## Proofs

Each theorem holds for every value of its module's constants that meets the named
assumption there (`HeapAssumption`, `ConditionsAssumption`, ...), so for every depth of
nesting, every set of names, handlers, classes or programs, and every bound. What a
theorem assumes beyond that stands in its statement.

| Theorem | States | Assumes besides |
|---|---|---|
| `RHeapProofs!RefcountSafety` | `[]RefcountSound` | |
| `RHeapProofs!InPlaceIsPrivate` | `WritesArePrivate` | |
| `RHeapProofs!NoListInsideItself` | `[]Acyclic` | `StableTargets` |
| `RHeapProofs!OperandsUndisturbed` | `RunningOperandsKept` | `StableTargets` |
| `RHeapProofs!VariablesHoldValues` | `ValueSemantics`: the heap implements `RValues` | `LocalTargets`, `StableTargets` |
| `ConditionsProofs!HostStacksKept` | `[]StacksKept` | |
| `ConditionsProofs!CleanupsAlwaysRun` | `CleanupsRun` | |
| `ConditionsProofs!WhatUnwindsIsRecorded` | `[]RecordKept` | |
| `ConditionsProofs!TakenAsPromised` | `TakenWherePromised` | contained programs are quiet and not persistent |
| `SignalsProofs!WriterIsSeen` | `[]WriterSeen` | |
| `SignalsProofs!ReturnsEndTheirWriter` | `ReturnEndsItsWriter` | `~ArgReturns`, `~AbruptCleanups` |
| `SignalsProofs!JumpsReachTheirLoop` | `JumpReachesItsLoop` | `~ArgReturns`, `~AbruptCleanups` |
| `DispatchProofs!FlagsReach` | `[](Ordinary => FlagsReachTheirCall)` | |
| `DispatchProofs!NextContinues`, `MachinesOwned` | `[]NextContinuesItsMethod`, `[]MachinesAreOwned` | |
| `SessionProofs!WarningsReportedOnce`, `FunctionsKeepBodies` | `[]ReportedOnce`, `[]FunctionsKeepTheirBodies` | |
| `SessionProofs!OutputInOrder` | `[]ShownInOrder` | |
| `SubscriptsProofs!OtherNameStays` | `[]OtherNameKept`, a part of `RestIsKept` | |
| `SubscriptsProofs!TypesKept` | `[]TypeOK`, a part of `ReadsAgree` | |
| `SubscriptsProofs!RestKept` | `[]RestIsKept` | |
| `SubscriptsProofs!InPlaceAgrees` | `[]InPlaceIsTheRebuild` | |
| `SubscriptsProofs!TheRestIsRebuilt`, `SelectedAreWritten`, `InPlaceGivesTheRebuild` | what `Rebuild` and `WriteInPlace` give, for one vector, plan and value | they are well formed |
| `EvaluatorProofs!ArgumentsFollowTheRule` | `match_positions` binds as `Binds` says or the call is `Refused`; the rule that `ArgumentsFindTheirFormals` checks of it | |
| `EvaluatorProofs!DepthsStay` | `[]HeightsKept`, a part of `NothingLeftBehind`, of `Machine` with any code | |
| `TypeCorrect` of the five other modules | `[]TypeOK` | |

Every proof about a state machine has the same shape: an inductive invariant, that `Init` implies it, that
each action keeps it (a lemma per action), that it implies the property.

*Heap.* `IInv` is `TypeOK /\ RefcountSound`. It is inductive because every
operation changes places one at a time in one of a few ways, and a lemma about
maps of places and counts covers each: a place takes a value (`TakeCounted`), is emptied
(`DropCounted`), is rebound (`RebindCounted`), loses its value without a release
(`ForgetCounted`), a set of places is filled or cleared at once (`FillCounted`,
`ClearCounted`). Soundness is an inequality, not an equality, because the code leaves
counts too high in places (`rm`, a promise forced twice, pinned objects). `TypeOK`
includes `WrittenLast`, without which the result that `Store` takes need not exist.

*Values.* `VInv` adds to `IInv` what the check before a write in place cannot see for
itself. Operands, elements and remembered values are objects on the heap and no
promises (`PlainPlaces`, `PlainStacks`). The operands of every pending assignment stay
where they were left, the object of an inner one is pinned, and the value written is
either the duplicate of the operand below it or another object (`PendingsKept`); only
the running frame's innermost assignment can have been written, and what an inner
one wrote is held nowhere yet (`WrittenRuns`). Objects can be ranked, a list above its
elements (`Ranked`).

The argument is then short. The object of a write in place is not pinned, so the
assignment is not an inner one, and the variable it names still holds the object
(`StillBound`); its count says that nothing else does (`PrivatePlace`). So no list holds it,
and it may take any elements but itself: it is ranked above all others (`RankedAbove`),
and what is reached from a list ranks below it (`RankedAcyclic`). It is the value
written only if it is also the operand below, which the scan would have found
(`WrittenUnlisted`). Every other object keeps its elements, and they theirs: it keeps its
value (`ValuesKept`). Hence the operands keep theirs (the scan again), and so does every
variable but the one named. Since a promise may stand between a variable and the object,
the refinement also needs that no two variables hold one promise (`PromiseOnce`). Per
action: a write in place, `SetVar`, `Store`, `Rm`, a call's formal and a promise's value are
`Assign` of `RValues`, the end of a call is `Discard`, all others are `Settle`.

`Tree` and `Reach` are defined by recursion on the levels of a list. What they give is
proved by induction on the level (`SetInduction` of `Lemmas`): `TreeExists` that the
equation has a solution at all, `TreeKept` that objects which keep their contents and
elements keep their values. Both are functions of one argument that answer functions,
as the provers do not apply a function to two.

The attempt corrected the model: `StillBound` let a subscript remove the target, so
that the assignment went on to the enclosing variable. The runs had passed because three
operands left no room for such a subscript; they now have four.

*Conditions*, in three layers. `IInv` says what the host's two stacks are in terms of the
calls in progress: their lengths are counts of calls (`Frames`, `Groups`), the k-th
call's frame and restart stand at its count, a walk stands within the frames it
started with, and frame `j` is disabled exactly when a call below runs a handler of it
or of one outside it (`Off`). A signal also remembers in `saved` what was off *below it*,
which is why restoring by position is right. `StacksKept` is the same in other words.
`IInvRecord` adds, for quiet scripts, what the fields `transfer`, `record` and `restarts` are
in terms of the one outcome that is on its way (`Outcome`): the flow, or what the one
cleanup that runs has put aside. `IInvTaken` adds, for contained scripts, what a
walk has passed (`Walked`: each `tryCatch` at or inside its frame that has a handler for the
condition is off) and where an error lands (`Lands`: it is caught inside the handler that
raised it, and the innermost `tryCatch` that has a handler for it is the frame the walk
ended at). The heart is `LandsThere`: a `tryCatch` inside every running handler is not off,
so that the walk answers it, and the first to answer is the innermost. For
a handler that lets an error out this is false, and *Also known* has the program. The
assumption of `TakenAsPromised` is about the set of programs: without
quiet cleanups a `tryCatch` in a cleanup forgets the record by which the outer one selects
its handler, and a persistent host brings a stale one.

Two flaws of the model came to light in the attempt. `Nearest` did not say that the walk
goes outward, so that a walk could meet a frame twice; and the type of `out` let a
call's outcome be a walk.

*Signals.* `IInv` says what each activation owes to the one below it (`Link`: what may
stand there, how many contexts it starts with, whose code it runs), that code above a
promise runs for a call no deeper than the promise's own or for one the promise led to
(`Nested`), that the contexts are those of the calls in progress (`Contexts`), and that the
promises being forced hide every context between that of the call whose code runs and
its own (`Hiding`): the last context that is not hidden is then the writer's. `IInvSignals`
adds what a lazily evaluated body has from the code that started it (`Lent`), what is put
aside while a cleanup runs (`Aside`), and that a signal on its way has come only
through chunks and builtins that let it through (`Arrives`). `~ArgReturns` and
`~AbruptCleanups` exclude the programs for which it fails, under *Also known*.

*Dispatch.* `IInv` says what each activation owes to the one below it (`Link`), that a parked
machine is nobody's and nobody shares one (`Parked`, `CallLink`), that the operator context
is that of the innermost chunk (`Within`), and which flags may stand: each only between
the function that sets it and the call it makes (`ForcingInv`, `PendingInv`, `SuppressInv`).
The last two are for `Ordinary` programs, whose methods are closures and which do not
dispatch on `(`: a builtin as a method and the keyword generic leave a flag standing.
A machine and an environment are always to be had, because the stack is bounded
(`FreeNumber` of `Lemmas`).

*Session.* `IInv` says that the queue is the first of the warnings queued (`QueueInv`), that
every warning raised is in one batch, queued or lost, in just one of these ways and lost
only by an embedder after a failure (`AccountInv`), that what a captured script would be
shown, were it replayed now, is what it has written, and that any other has been shown,
stream by stream, all of it but the line still kept (`StreamInv`), and that each program's
bodies stand in the table from its shift on (`TableInv`). `ReplayedIs` turns the fold over
the held diagnostics into a concatenation whose last part is all that a step changes;
the `Accounts` lemmas move a warning from one account to another, one lemma per way.

*Subscripts.* Here most is about what the operators give, and little about the state.
`IInv` says that the last write is what it is recorded to be (`AsRecorded`: the result of
`Rebuild` or `WriteInPlace` for the plan, the latter only where it fits and the vector
has no levels), and that a pending write which was found unshared is of a vector that
has stayed so unless a handler took it (`Alone`). That alone gives `OtherNameStays`.
The rest is lemmas about padding, splicing and renaming a sequence (`Stretched`,
`SplicedAround`, `SplicedAt`, `Renames`, the last with a bound on the numbers of a
sequence by induction, `Bounded`), from which a rebuilt vector is the old one `Around` the
plan, for atomic vectors (`AtomicAround`) and lists (`ListAround`), and holds the value
where it is selected (`SelectedAreWritten`). In place and rebuilt, the two are compared
field by field (`AtomicInPlace`, `ListInPlace`): a value of no higher rank does not change
the type, elements of a vector convert to themselves (`OfItsType`), and a vector that is
stretched in place has no names to pad. `Agree` leaves open the names of a list that is
stretched, as `InPlaceIsTheRebuild` does: the rebuild gives it blank ones, in place it has none.

That what a program holds is a vector (`TypesKept`) is the long part, because every
operator takes part in it. `Formed`, which `TypeOK` states, is not inductive: `x[["a"]]` gives what
stood in a list. The invariant is `Holds`: `x` and `held` are `Deep`, members of a set of vectors
that has every element of its lists for a member (`Nested`, by which lists in lists
need no recursion); what a pending write has prepared is `Ready` (the plan selects
positions, an empty value is written into a list or to no place, a factor is given codes of its
levels); and the last write was `Filled` in the same way. A lemma for each
operator follows: the subscripts select places that are there, or 0 (`MatrixSelects`,
`LinearWithin`, by which a position within every dimension is one of the cells), reads give vectors
(`SingleRead`, `DoubleRead`, `DollarRead`), the places of a write are a plan (`NumbersPlanned`,
`NamesPlanned`), a rebuild or a write in place leaves a vector (`RebuildMade`, `InPlaceMade`,
`DeletedMade`). The folds among the operators (products, names, levels of a list, deletions)
exist and run through their states (`FoldsExist`, `FoldRuns`); the numbers of a set in
order (`Ascending`, `Descending`, which stand where a sorting operator of the library
could not be reasoned about) are those of the set (`InOrder`, `Ordered`).

It rests on `InputsAssumption`, that the vectors and subscripts the constants supply are well formed, and on
`NamesAssumption`, that `""` and `"<NA>"` are strings; TLC evaluates both. `Values` is what a
program may be given: the vectors of the run and the elements of their lists.

What `NULL` takes out of a list (`SelectedLeft`) is a matter of order. `Descending` gives the
positions from the greatest on (`DescendingIs`), strictly when none is given twice
(`StrictlyDown`); so each removal meets a sequence whose places up to the one removed
are still its own, and what `Ascending` selects of the rest is what it selected before with
one place less (`OneLess`, `WithoutOne`). By induction on the removals the others remain
(`OthersRemain`). The stretch before them is `Stretched`; that the plan is for a list, and not
kept because `x` was `NULL`, is in `Filled`.

`WrittenReadsBack` and the other conjuncts of `ReadsAgree` remain with TLC.

The attempt corrected the model here too: the cases of `Coerce` overlapped, so that NA
could be taken for an element with a type.

*Matching.* Each pass is a fold over the arguments. `FoldExists` shows that the function by
which the community modules define a fold exists (its equation recurs over sets, so
this is induction on the number of arguments), `PassRuns` turns the fold into a sequence of
states, one per argument, and each pass has an invariant of that sequence: `Named_` (exact
names have their formals, or two arguments name one), `Parted` (a part of a name has its
formal, or all it begins were taken by exact names or earlier parts), `Filled` (the free
formals are used from the left). Together they give `Binds`, which says nothing of
passes, and that a call is refused only for the two reasons R has.

*Machine.* `IInv` is `HeightsKept` and that the frames are chunks. The depth of a chunk that
waits for a body of `try` is one short, which `Received` makes good, whether the body ends
with a value, with an error (`AbortKeeps`) or by a jump (`LoopSignalStep`: the chunk is
ended as it stands, `ReturnStep` gives its caller the value). Otherwise every action takes
and gives what `Takes` and `Gives` say (`GoingKeeps`). That the compiler's code is balanced is the
other part of `NothingLeftBehind` and stays with TLC: `compile` is recursive.

A property that recurs over the data is within reach when induction on a number carries
it: `SetInduction` of `Lemmas` is the principle for a set of naturals, and folds are within
reach by it too. Only model-checked:

- `TransferLands` and `Halts`: liveness under fairness (and `ENABLED`) is out of the
  prover's reach;
- the texts (`Syntax`, the rest of `Language`, `ValueText`), `Compiled`, `Linear` and the builtins that
  walk nested lists: they declare recursive operators, which the provers do not take, and
  `Workspace` rests on those modules;
- of `Subscripts`, `WrittenReadsBack`, and of `ReadsAgree` that the ways to read agree.

## Not modelled

- Bytecode cache (`cache.rs`): `--build` writes it, and `load` has no caller, so it never
  decides what runs.
- Interception: nothing outside its own module registers with the registry of advice or
  consults it; the weave that its header announces is not there.
- Mersenne-Twister and the distributions, special functions, the QR, SVD and
  eigenvalue routines of `linalg.rs`: floating point. `Sampling` takes draws as
  arguments; `Linear` computes with exact fractions.
- Regular expressions, collation, display width, dates, formatting of numbers:
  functions of characters with tables for data.
- Data frames, model fitting, input and output, environments as values: the rest of
  `builtins.rs`.
- Debug and language servers, ahead-of-time compilation, the JIT's tiers, the
  WebAssembly front end: protocols and code generation around the interpreter.
- Documentation (`docs.rs`) and the parity harnesses (`bin/`): text and test drivers.

## Plan

Done: the modules above, the theorems about the six state machines, those about
writes through subscripts and the one about argument matching. Next, theorems: `WrittenReadsBack` for subscripts by number,
from `SelectedAreWritten`.

Then, in the models: attributes as counted places of `RHeap`, group dispatch on two
arguments, several restarts per `withRestarts`, code run by `eval` in `Signals`, and one
destination per condition, fixed when it is raised, as the abstract
specification of `Conditions` and `Signals`.
