SPECIFICATION Spec
CONSTANTS
    Names <- MCNames
    FoldCase <- MCFoldCase
    Types <- MCTypes
    ModuleNames <- MCModuleNames
    Identifiers <- MCIdentifiers
    WordBits = 4
    MaxWidth = 5
    Depth = 5
CHECK_DEADLOCK FALSE
CONSTANT Offers <- DriverOffers
INVARIANT OneDriver
