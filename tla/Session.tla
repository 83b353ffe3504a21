------------------------------- MODULE Session -------------------------------
(***************************************************************************)
(* A run of the program around the code it evaluates: what it prints and   *)
(* when, the warnings it holds back until a statement ends, and the table  *)
(* of function bodies that scripts, eval() and the lines of a REPL share.  *)
(*                                                                         *)
(* A script's output is held in a file until the script is known not to    *)
(* need embedded R, which would run it again from the start; diagnostics   *)
(* are held with the offset in the file they belong at, and both are       *)
(* written out together at the end.  In every other mode standard output   *)
(* keeps an incomplete line while diagnostics are shown at once.           *)
(***************************************************************************)
EXTENDS Integers, Sequences, FiniteSets, SequencesExt

CONSTANTS
    Modes,        \* which ways to start the program are considered: a script
                  \* that is captured ("script"), one whose capture file cannot
                  \* be opened ("direct"), a program that calls eval_str time
                  \* and again ("embedded"), the REPL ("repl")
    MaxWarnings,  \* MAX_WARNINGS
    MaxListed,    \* how many warnings a batch lists one by one
    MaxSteps,     \* bound: steps of the program's code
    MaxPrograms,  \* bound: programs compiled, the script itself included
    Evals         \* programs considered: code may call eval()

ASSUME SessionAssumption ==
    /\ Modes \subseteq {"script", "direct", "embedded", "repl"}
    /\ MaxListed \in Nat \ {0} /\ MaxWarnings \in Nat /\ MaxListed < MaxWarnings
    /\ MaxSteps \in Nat /\ MaxPrograms \in Nat \ {0}

VARIABLES
    mode, hasR,   \* how the program was started; embedded R is available
    phase,        \* "run"; "idle" between two lines or two eval_str; "ended";
                  \* or "inR" when R took the script over
    steps,        \* steps the code has taken
    level,        \* options(warn = )
    warnings, warnCount,      \* RHost.warnings, warn_count
    unflushed, file, held,    \* stdout's own buffer, the capture file, and the
                              \* diagnostics with their offsets
    screen,       \* what the user has been shown
    closures,     \* RHost.closures
    parked,       \* CLOSURE_VMS: the body each parked machine still holds
    functions,    \* the function values of the program
    programs,     \* how many programs were compiled
    mains,        \* the shift of the closure ids in the main code of each
    written, statement,       \* history: what the program wrote, in order, and the
                              \* number of its statement
    raised, queued,           \* history: the warnings to be reported, all of them
                              \* and those that the queue is for
    lost, failed              \* history: those dropped with the host they were
                              \* queued in; the statements that failed

output == <<unflushed, file, held, screen, written>>
queues == <<warnings, warnCount, queued, raised, lost, failed>>
warns  == <<level, queues>>
bodies == <<closures, parked, functions, programs, mains>>
vars   == <<mode, hasR, phase, steps, statement, output, warns, bodies>>

Event(kind, what) == <<kind, what>>
\* A batch of warnings: how many, those it shows, and (history) those it is for.
Batch(count, shown, for) == <<"warnings", [count |-> count, shown |-> shown, for |-> for]>>

\* A closure body: the program it is of, which of that program's bodies it is,
\* and the shift applied to the closure ids in its code.
Body(p, i, shift) == [program |-> p, body |-> i, shift |-> shift]
\* Every program defines a function whose body defines another.
BodiesOf(p, main, inner) == <<Body(p, 0, inner), Body(p, 1, inner)>>

\* The type of the state.
TypeOK ==
    /\ mode \in Modes /\ hasR \in BOOLEAN
    /\ phase \in {"run", "idle", "ended", "inR"}
    /\ level \in {-1, 0, 1, 2}
    /\ Len(warnings) <= MaxWarnings /\ warnCount >= Len(warnings)
    /\ \A i \in 1..Len(held) : held[i][1] <= Len(file)
    /\ DOMAIN parked \subseteq 1..Len(closures)
    /\ \A f \in functions : f.id \in 0..(Len(closures) - 1)

Init ==
    /\ mode \in Modes /\ hasR \in BOOLEAN
    /\ phase = "run" /\ steps = 0 /\ statement = 1
    /\ level = 0 /\ warnings = <<>> /\ warnCount = 0 /\ queued = <<>>
    /\ raised = {} /\ lost = {} /\ failed = {}
    /\ unflushed = <<>> /\ file = <<>> /\ held = <<>> /\ screen = <<>> /\ written = <<>>
    /\ closures = BodiesOf(1, 0, 0) /\ parked = [i \in {} |-> 0]
    /\ functions = {} /\ programs = 1 /\ mains = [p \in {1} |-> 0]

-----------------------------------------------------------------------------
(* The two streams *)

Captured == mode = "script"

\* print and cat: standard output keeps a line that is not complete, and passes
\* on all it has with one that is.
Writes(e) ==
    /\ written' = Append(written, e)
    /\ \/ unflushed' = Append(unflushed, e) /\ UNCHANGED <<file, screen>>
       \/ /\ unflushed' = <<>>
          /\ IF Captured
             THEN file' = file \o Append(unflushed, e) /\ UNCHANGED screen
             ELSE screen' = screen \o Append(unflushed, e) /\ UNCHANGED file
    /\ UNCHANGED held

\* A slip: the offset is read before standard output is flushed (mutant of Offset).
OffsetUnflushed == Len(file)
Offset == Len(file) + Len(unflushed)

\* emit_stderr: through the hook that capture_stdout installs, which flushes
\* standard output; shown at once where there is none, past an incomplete line.
Emit(e) ==
    /\ written' = Append(written, e)
    /\ IF Captured
       THEN /\ held' = Append(held, <<Offset, e>>)
            /\ file' = file \o unflushed /\ unflushed' = <<>> /\ UNCHANGED screen
       ELSE screen' = Append(screen, e) /\ UNCHANGED <<unflushed, file, held>>

\* replay: the diagnostics in their places, then what is left of the output; of a
\* script that is not captured, the line that standard output still keeps.
Replayed ==
    LET out == file \o unflushed
        Upto(i) == IF held[i][1] <= Len(out) THEN held[i][1] ELSE Len(out)
        From(i) == IF i = 1 THEN 0 ELSE Upto(i - 1)
        Part(i) == SubSeq(out, From(i) + 1, Upto(i)) \o <<held[i][2]>>
        n == Len(held)
    IN  FlattenSeq([i \in 1..n |-> Part(i)])
            \o SubSeq(out, (IF n = 0 THEN 0 ELSE Upto(n)) + 1, Len(out))

-----------------------------------------------------------------------------
(* Warnings *)

\* What flush_warnings shows of the warnings it takes.
Shown ==
    IF warnCount = 1 THEN <<warnings[1]>>
    ELSE IF warnCount <= MaxListed THEN warnings
    ELSE <<>>
CountShown == IF warnCount < MaxWarnings THEN warnCount ELSE MaxWarnings
Flushes == warnCount # 0
TheBatch == Batch(CountShown, Shown, queued)
Taken == warnings' = <<>> /\ warnCount' = 0
Flush ==
    /\ Taken /\ queued' = <<>> /\ UNCHANGED <<level, raised, lost, failed>>
    /\ IF Flushes THEN Emit(TheBatch) ELSE UNCHANGED output

Queue(w) ==
    /\ queued' = Append(queued, w) /\ raised' = raised \cup {w} /\ UNCHANGED <<lost, failed>>
    /\ warnCount' = warnCount + 1
    /\ warnings' = IF Len(warnings) < MaxWarnings THEN Append(warnings, w) ELSE warnings

-----------------------------------------------------------------------------
(* How a program ends *)

Shows(es) == screen' = screen \o es
Ends(p)   ==
    /\ phase' = p /\ unflushed' = <<>> /\ file' = <<>> /\ held' = <<>>
    /\ UNCHANGED <<mode, hasR, steps, statement, bodies, level, raised, lost, failed>>
Halted    == Event("error", steps)

\* eval_with_cran_fallback: the code ran to its end, a restart ended it, or it
\* failed.  In the last case R runs the script if it can; an incomplete line of a
\* script that was not captured then comes when the process exits.
IsScript == mode \in {"script", "direct"}
Finish ==
    /\ phase = "run" /\ IsScript /\ warnCount = 0   \* its last flush is done
    /\ Ends("ended")
    /\ Shows(Replayed)
    /\ UNCHANGED <<written, warnings, warnCount, queued>>
\* A slip the code had: the last batch goes to the hook, after the replay (mutant
\* of ShowsTheRest).
ShowsIntoTheSink(first) == Shows(Replayed \o first) /\ written' = written \o first
ShowsTheRest(first) ==    \* then flush_warnings, past the hook
    LET rest == first \o (IF Flushes THEN <<TheBatch>> ELSE <<>>)
    IN  Shows(Replayed \o rest) /\ written' = written \o rest
AbortRestart ==
    /\ phase = "run" /\ IsScript
    /\ Ends("ended")
    /\ ShowsTheRest(<<>>)
    /\ Taken /\ queued' = <<>>
ScriptFails ==
    /\ IsScript
    /\ \/ /\ hasR /\ Ends("inR")
          /\ Shows(<<Event("R", 0)>> \o (IF Captured THEN <<>> ELSE unflushed))
          /\ UNCHANGED <<written, warnings, warnCount, queued>>
       \/ /\ ~hasR /\ Ends("ended")
          /\ ShowsTheRest(<<Halted>>)
          /\ Taken /\ queued' = <<>>
\* eval_line shows the error, eval_str hands it to its caller; run_main flushes in
\* neither, so whatever was queued stays with the host.
LineFails ==
    /\ ~IsScript /\ steps < MaxSteps /\ steps' = steps + 1
    /\ phase' = "idle" /\ failed' = failed \cup {statement}
    /\ IF mode = "repl" THEN Emit(Halted) ELSE UNCHANGED output
    /\ UNCHANGED <<mode, hasR, statement, level, warnings, warnCount, queued, raised, lost>>
    /\ UNCHANGED bodies
Fails == ScriptFails \/ LineFails
Fail  == phase = "run" /\ Fails

-----------------------------------------------------------------------------
(* What the code does *)

Step ==
    /\ phase = "run" /\ steps < MaxSteps
    /\ steps' = steps + 1
    /\ UNCHANGED <<mode, hasR, phase>>

Write == Step /\ Writes(Event("out", steps)) /\ UNCHANGED <<statement, warns, bodies>>
SetLevel ==
    /\ Step /\ \E l \in {-1, 0, 1, 2} : l # level /\ level' = l
    /\ UNCHANGED <<statement, output, queues, bodies>>

\* r_warning and queue_warning; from level 2 on it is an error.
Warn ==
    \/ /\ Step /\ level < 2 /\ UNCHANGED <<level, statement, bodies>>
       /\ \/ level = -1 /\ UNCHANGED <<output, queues>>
          \/ level = 0 /\ Queue(<<statement, steps>>) /\ UNCHANGED output
          \/ level = 1 /\ Emit(Event("warning", steps)) /\ UNCHANGED queues
    \/ phase = "run" /\ level = 2 /\ Fails

\* b_warn_flush at the end of a top-level statement.
EndStatement ==
    /\ Step /\ Flush /\ statement' = statement + 1 /\ UNCHANGED bodies

\* run_main, when a line or the program of an eval_str ran to its end (a script's
\* flush comes right after that of its last statement and finds nothing).
LineEnds ==
    /\ phase = "run" /\ ~IsScript /\ phase' = "idle"
    /\ Flush /\ UNCHANGED <<mode, hasR, steps, statement, bodies>>

-----------------------------------------------------------------------------
(* Function bodies *)

\* b_mkclosure, for the body that the code of program p calls its i-th.
Function(p, i, shift) == [id |-> i + shift, program |-> p, body |-> i]

\* The main code of a program defines its function.
Define ==
    /\ Step
    /\ \E p \in DOMAIN mains : functions' = functions \cup {Function(p, 0, mains[p])}
    /\ UNCHANGED <<statement, output, warns, closures, parked, programs, mains>>

\* A function is called: its body runs on the machine parked for its id, or on a
\* new one with the body the table holds, and defines the inner function.
BodyOf(id) == IF id + 1 \in DOMAIN parked THEN parked[id + 1] ELSE closures[id + 1]
CallFunction ==
    /\ Step
    /\ \E f \in functions :
           LET b == BodyOf(f.id)
           IN  /\ parked' = [i \in DOMAIN parked \cup {f.id + 1} |->
                                 IF i = f.id + 1 THEN b ELSE parked[i]]
               /\ functions' = IF b.body = 0
                               THEN functions \cup {Function(b.program, 1, b.shift)}
                               ELSE functions
    /\ UNCHANGED <<statement, output, warns, closures, programs, mains>>

\* shift_closure_ids: a program's ids are shifted by the length of the table, in
\* its main code and in the bodies themselves.
ShiftedMainOnly(p, base) == BodiesOf(p, base, 0)    \* a slip (mutant of Shifted)
Shifted(p, base) == BodiesOf(p, base, base)
Compile ==
    /\ programs < MaxPrograms
    /\ programs' = programs + 1
    /\ closures' = closures \o Shifted(programs + 1, Len(closures))
    /\ mains' = [p \in DOMAIN mains \cup {programs + 1} |->
                     IF p = programs + 1 THEN Len(closures) ELSE mains[p]]
    /\ UNCHANGED <<parked, functions>>

\* eval_expr: compiled as a program of its own, the flush at its end included; not
\* that, when it fails and the code around it takes the error.
Eval ==
    /\ Evals /\ Step /\ Compile /\ UNCHANGED statement
    /\ \/ Flush
       \/ UNCHANGED <<output, warns>>

\* eval_line: the next line of the REPL; one that does not parse shows its error.
Line ==
    /\ mode = "repl" /\ phase = "idle" /\ UNCHANGED <<mode, hasR, warns>>
    /\ statement' = statement + 1
    /\ \/ Compile /\ phase' = "run" /\ UNCHANGED <<steps, output>>
       \/ /\ steps < MaxSteps /\ steps' = steps + 1 /\ Emit(Halted)
          /\ UNCHANGED <<phase, bodies>>

\* eval_str again on the same thread: reset_host drops the host, warnings and all,
\* then the source is compiled and, if it parses, loaded.  Options are not the
\* host's, and stay.
Loaded(p) ==
    /\ phase' = "run" /\ programs' = p /\ UNCHANGED steps
    /\ closures' = BodiesOf(p, 0, 0) /\ mains' = [q \in {p} |-> 0]
Refused ==
    /\ steps < MaxSteps /\ steps' = steps + 1 /\ UNCHANGED <<phase, programs>>
    /\ closures' = <<>> /\ mains' = [q \in {} |-> 0]
Reload ==
    /\ mode = "embedded" /\ phase = "idle"
    /\ Taken /\ queued' = <<>> /\ lost' = lost \cup ToSet(queued)
    /\ functions' = {} /\ parked' = [i \in {} |-> 0]
    /\ \/ programs < MaxPrograms /\ Loaded(programs + 1)
       \/ Refused
    /\ statement' = statement + 1
    /\ UNCHANGED <<mode, hasR, output, level, raised, failed>>

Next ==
    \/ Write \/ SetLevel \/ Warn \/ EndStatement \/ LineEnds
    \/ Define \/ CallFunction \/ Eval \/ Line \/ Reload
    \/ Finish \/ AbortRestart \/ Fail

Spec == Init /\ [][Next]_vars

-----------------------------------------------------------------------------
(* What must hold *)

\* The events of s of the kinds K, in order.
Of(s, K) == FlattenSeq([i \in 1..Len(s) |-> IF s[i][1] \in K THEN <<s[i]>> ELSE <<>>])
Diagnostics == {"warning", "warnings", "error"}

\* What the user of a script is shown at the end is what it wrote, each thing once
\* and where it wrote it, though output and diagnostics were held apart; and when
\* embedded R takes the script over, only what R shows (replay and the offsets of
\* the stderr hook).  Where nothing is captured, a diagnostic may be shown before
\* an incomplete line written earlier (emit, emit_stderr), but each of the two
\* streams is shown once and in its order, all but that line.
ShownInOrder ==
    /\ Captured /\ phase = "ended" => screen = written
    /\ Captured /\ phase = "inR" => screen = <<Event("R", 0)>>
    /\ ~Captured =>
           /\ Of(screen, {"out"}) \o unflushed = Of(written, {"out"})
           /\ Of(screen, Diagnostics) = Of(written, Diagnostics)

Batches == {written[i][2] : i \in {j \in DOMAIN written : written[j][1] = "warnings"}}
ReportedAt(i, w) == written[i][1] = "warnings" /\ w \in ToSet(written[i][2].for)

\* Of all the warnings that were to be reported each is in one batch, or it waits
\* in the queue of a program that has not ended; only an embedder loses some, those
\* of a statement that failed, when it calls eval_str again (run_main leaves them
\* queued, reset_host drops them).  The queue counts all that wait and has the
\* first of them; a batch counts all it is for, up to the cap, and lists them all
\* when it lists.
ReportedOnce ==
    /\ \A w \in raised :
           /\ \/ \E i \in DOMAIN written : ReportedAt(i, w)
              \/ w \in ToSet(queued) /\ phase # "ended"
              \/ w \in lost /\ mode = "embedded" /\ w[1] \in failed
           /\ \A i \in DOMAIN written : ReportedAt(i, w) =>
                  /\ w \notin ToSet(queued) \cup lost
                  /\ \A j \in DOMAIN written : ReportedAt(j, w) => i = j
    /\ warnCount = Len(queued)
    /\ warnings = SubSeq(queued, 1, IF warnCount < MaxWarnings THEN warnCount ELSE MaxWarnings)
    /\ \A b \in Batches :
           /\ IsInjective(b.for)
           /\ b.count = IF Len(b.for) < MaxWarnings THEN Len(b.for) ELSE MaxWarnings
           /\ b.shown \in {<<>>, b.for}
           /\ b.count <= MaxListed => b.shown = b.for

\* A function value keeps naming the body it was made with, whatever was
\* compiled, evaluated or entered at a prompt since: its id finds that body in
\* the table, and the machine parked for the id still holds it.
FunctionsKeepTheirBodies ==
    /\ \A f \in functions :
           /\ closures[f.id + 1].program = f.program
           /\ closures[f.id + 1].body = f.body
    /\ \A i \in DOMAIN parked : parked[i] = closures[i]

=============================================================================
