CONSTANTS
    Global = {"x"}
    ReservedName = {"let"}
    Redefinable = {"+", "<"}
    HalfRange = 2
    Texts <- AllExprs
    Rank <- Depths
    Inits <- AllInits
    Limits <- AllLimits
    Scopes <- AllScopes
SPECIFICATION Spec
INVARIANTS
    TypeOK
    ConstantsSound
    ForsAgree
    BoundIsValue
CHECK_DEADLOCK FALSE
