\* Every program, its variables in slots and by name.
CONSTANTS
    Programs <- Correct
    Modes = {"slots", "names"}
    NA = NA
    Fuel = 6
SPECIFICATION Spec
\* A program ends.
INVARIANTS MeansTheText NothingLeftBehind
PROPERTIES Halts
CHECK_DEADLOCK FALSE
