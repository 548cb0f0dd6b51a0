CONSTANTS
    a = a  b = b  g = g
    Interned = {b}
    Generated = {g}
    Reserved = {}
    Builtins <- MCBuiltins
    MaxFrames = 4
    MaxHandlers = 0
    MaxLocals = 1
    MaxCode = 4
    MaxParams = 1
    MaxFunctions = 3
    MaxLoops = 0
SPECIFICATION Spec
INVARIANTS
    TypeOK
    FunctionTable
    CaptureChain
    NoDuplicateCaptures
    LexicalScoping
