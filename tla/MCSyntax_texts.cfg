CONSTANTS
    Families = {"arithmetic", "logic", "branches", "calls", "subscripts", "loops", "functions", "heads", "matching", "special", "labels", "values"}
    Broken = {"arithmetic", "logic", "branches", "calls", "subscripts", "loops", "functions", "heads"}
    Vocabulary <- MCVocabulary
    Longest <- MCLongest
    Longer <- MCLonger
    Primitives = {"c", "missing", "quote", "substitute", "on.exit", "delayedAssign"}
    Signatures <- MCSignatures
    Written <- MCWritten
    Specials <- MCSpecials
    Whole <- MCIntegers
    Doubles <- MCDoubles
    MaxExprs = 2
    Cutoff = 3
SPECIFICATION Spec
CHECK_DEADLOCK FALSE
INVARIANT ReadsBack
INVARIANT GroupedByTheTable
INVARIANT NewlineEndsOnlyComplete
INVARIANT CallsAreTheSyntax
INVARIANT ArgumentsFindTheirFormals
INVARIANT BodiesAreDeferred
INVARIANT ValuesReadBack
