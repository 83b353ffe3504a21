CONSTANTS
    Values <- MCValues
    Starts <- MCStarts
    Reads <- MCReads
    Writes <- MCWrites
    MaxSteps = 2
SPECIFICATION Spec
INVARIANTS WrittenReadsBack RestIsKept InPlaceIsTheRebuild ReadsAgree
CHECK_DEADLOCK FALSE
