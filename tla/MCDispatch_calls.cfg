SPECIFICATION Spec
CONSTANTS
    None = None
    Closures = {"m"}
    Thunk = "thunk"
    Tables <- ClosureTables
    Primitive = Primitive
    MaxFrames = 3
    MaxStack = 8
    UserGenerics = {"user"}
INVARIANTS FlagsReachTheirCall NextContinuesItsMethod MachinesAreOwned
CHECK_DEADLOCK FALSE
