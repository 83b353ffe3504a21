SPECIFICATION Spec
CONSTANTS
    Names = {x}
    Envs = {G, E1}
    Global = G
    Cells = {c0, c1}
    Positions = {1}
    Nil = Nil
    MaxObj = 3
    MaxLists = 0
    MaxDepth = 3
    MaxStack = 4
    MaxWaiting = 0
    RefMax = 3
    LocalTargets = TRUE
    StableTargets = TRUE
    Absent = Absent
    Lazy = Lazy
SYMMETRY Symm
INVARIANTS RefcountSound
PROPERTIES ValueSemantics WritesArePrivate
CHECK_DEADLOCK FALSE
