CONSTANTS
    HalfRange = 8
    MaxExpansions = 16
    OverflowChecks = TRUE
    MaxNesting = 1
    Bounds <- AllBounds
SPECIFICATION Spec
INVARIANTS
    NoPanic
