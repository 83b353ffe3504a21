SPECIFICATION Spec
CONSTANTS
    None = None
    MaxStack = 6
    ArgReturns = FALSE
    AbruptCleanups = FALSE
INVARIANTS WriterSeen
PROPERTIES ReturnEndsItsWriter JumpReachesItsLoop
CHECK_DEADLOCK FALSE
