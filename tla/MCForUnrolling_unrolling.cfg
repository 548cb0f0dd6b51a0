CONSTANTS
    HalfRange = 4
    MaxExpansions = 8
    OverflowChecks = FALSE
    MaxNesting = 2
    Bounds <- EdgeBounds
SPECIFICATION Spec
INVARIANTS
    TypeOK
    MatchesLoop
    BudgetIsSpent
