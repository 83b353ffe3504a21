---------------------------- MODULE MCConditions ----------------------------
EXTENDS Conditions

\* A plain handler, one for a class of its own, and several handlers in one call.
Lists == {<<"error">>, <<"custom", "error">>, <<"warning">>}
ErrorLists == {<<"error">>, <<"custom">>}

\* A script that keeps its cleanups quiet and its handlers contained, and the
\* statements of a REPL that do neither.
MCPrograms == {[quiet |-> q, contained |-> q, persistent |-> ~q] : q \in BOOLEAN}
=============================================================================
