CONSTANTS
    m = m
    n = n
    Macro = {m}
    MaxDepth = 2
    MaxInvocations = 2
    MaxNodes = 2
    MaxTotal = 4
    MaxId = 3
    MaxResult = 1
    MaxMade = 1
SPECIFICATION Spec
INVARIANTS
    DistinctGensyms
