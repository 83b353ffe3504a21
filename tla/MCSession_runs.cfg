SPECIFICATION Spec
CONSTANTS
    Modes = {"script", "direct", "embedded", "repl"}
    MaxWarnings = 3
    MaxListed = 2
    MaxSteps = 5
    MaxPrograms = 3
    Evals = TRUE
INVARIANTS ShownInOrder ReportedOnce FunctionsKeepTheirBodies
CHECK_DEADLOCK FALSE
