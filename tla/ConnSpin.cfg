SPECIFICATION Spec
CONSTANTS
    NEndpoints = 2
    NHandshake = 1
    OutCap = 2
    InCap = 2
INVARIANT SendReturns
