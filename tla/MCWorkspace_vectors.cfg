SPECIFICATION Spec
CONSTANTS
    NA = NA
    IntMax = 3
    Starts <- VectorStarts
    Partners <- VectorPartners
    Operators <- AllOperators
    Functions <- VectorFunctions
    MaxCalls = 2
    MaxLength = 3
    MaxNumber = 3
INVARIANTS ArithmeticAgrees OrdersAgree GroupsAgree
CHECK_DEADLOCK FALSE
