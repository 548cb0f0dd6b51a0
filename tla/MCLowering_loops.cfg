CONSTANTS
    a = a  b = b  g = g
    Interned = {a, b}
    Generated = {}
    Reserved = {a}
    Builtins <- MCBuiltins
    MaxFrames = 1
    MaxHandlers = 2
    MaxLocals = 2
    MaxCode = 2
    MaxParams = 0
    MaxFunctions = 0
    MaxLoops = 2
SPECIFICATION Spec
INVARIANTS
    BalancedControl
    VerifierAccepts
    LexicalScoping
