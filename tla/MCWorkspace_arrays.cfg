SPECIFICATION Spec
CONSTANTS
    NA = NA
    IntMax = 100
    Starts <- ArrayStarts
    Partners <- ArrayPartners
    Operators <- ArrayOperators
    Functions <- ArrayFunctions
    MaxCalls = 2
    MaxLength = 8
    MaxNumber = 12
INVARIANTS AttributesFit TurnsAlike MarginsAgree
CHECK_DEADLOCK FALSE
