SPECIFICATION Spec
CONSTANTS
    Names = {x}
    Envs = {G, E1}
    Global = G
    Cells = {c0, c1}
    Positions = {1}
    Nil = Nil
    MaxObj = 3
    MaxLists = 0
    MaxDepth = 2
    MaxStack = 3
    MaxWaiting = 0
    RefMax = 3
    LocalTargets = FALSE
    StableTargets = TRUE
    Absent = Absent
    Lazy = Lazy
SYMMETRY Symm
PROPERTY ValueSemantics
CHECK_DEADLOCK FALSE
