SPECIFICATION Spec
CONSTANTS
    Texts <- MCTexts
    Numerals <- MCNumerals
    Users = {"u"}
    LogFiles <- MCLogFiles
    Disk <- MCDisk
    Broken <- MCBroken
    ExtOf <- MCExtOf
    Metadata <- MCMetadata
    Args <- MCArgs
CHECK_DEADLOCK FALSE
INVARIANTS
    TokensFaithful
PROPERTIES
    AnyOrder
    SignalHeard
