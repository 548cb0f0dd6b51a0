CONSTANTS
    m = m
    n = n
    Macro = {m, n}
    MaxDepth = 3
    MaxInvocations = 5
    MaxNodes = 6
    MaxTotal = 8
    MaxId = 2
    MaxResult = 3
    MaxMade = 1
SPECIFICATION Spec
INVARIANTS
    TypeOK
    DepthIsNesting
    StackIsCallChain
    ResultsWithinLimit
    FlatGensymsDistinct
PROPERTIES
    ExpansionEnds
