SPECIFICATION Spec
CONSTANTS
    Names = {x, y}
    Envs = {G}
    Global = G
    Cells = {c0, c1}
    Positions = {1}
    Nil = Nil
    MaxObj = 3
    MaxLists = 2
    MaxDepth = 1
    MaxStack = 4
    MaxWaiting = 0
    RefMax = 3
    LocalTargets = TRUE
    StableTargets = TRUE
    Absent = Absent
    Lazy = Lazy
SYMMETRY Symm
INVARIANTS TypeOK Acyclic
PROPERTIES RunningOperandsKept
CHECK_DEADLOCK FALSE
