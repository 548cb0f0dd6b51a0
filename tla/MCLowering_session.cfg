CONSTANTS
    a = a  b = b  g = g
    Interned = {b}
    Generated = {}
    Reserved = {}
    Builtins <- MCBuiltins
    MaxFrames = 2
    MaxHandlers = 1
    MaxLocals = 1
    MaxCode = 3
    MaxParams = 0
    MaxFunctions = 2
    MaxLoops = 2
SPECIFICATION Spec
INVARIANTS
    VerifierAccepts
    UniqueLoopIds
PROPERTIES
    RegistryStable
    ModuleStable
    Stored
