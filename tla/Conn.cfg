SPECIFICATION FairSpec
CONSTANTS
    NEndpoints = 3
    NHandshake = 2
    OutCap = 3
    InCap = 3
INVARIANTS
    NoLostWakeup
    ReaperArmed
    InputOrdered
    OutputOrdered
PROPERTIES
    ImplementsLink
    Retried
    LossTold
