CONSTANTS
    Sessions <- AllSessions
    GlobalName <- Names
    Word <- Words
    MaxIterations = 3
    MaxNodes = 9
    Code <- AllCode
SPECIFICATION Spec
INVARIANTS
    TypeOK
    NoInternalError
    MeansItsSource
PROPERTIES
    EveryFormEnds
CHECK_DEADLOCK FALSE
