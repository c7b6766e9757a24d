SPECIFICATION TextSpec
CONSTANTS
    Size = 6
    KeyMax = 8
    AttrMax = 1
    Date = "8"
    Templates <- MCTemplates
    FlagSets <- MCFlagSets
    Keywords <- MCValues
    Env <- MCValues
    Shell <- MCOutputs
    Colors <- MCValues
    Attributes <- MCValues
    Nodes <- MCNodes
    Parent <- MCParent
    Name <- MCName
    Dirs = {"d1", "d2"}
    Base = "base"
    Pattern <- MCPattern
    Rooms = {2, 3, 5}
    Points = {0, 1, 2, 3, 4, 5, 6, 7, 8, 9, 10}
    Tables <- MCTables
    Lines <- MCLines
    Limits = {1, 2, 3}
    EventMax = 16
    PrefixMax = 3
    Letters <- MCLetters
    Sizes = {0, 1, 2, 3, 4, 5, 6, 7, 8, 9}
    Received <- MCReceived
    ServerName <- MCServerName
    Announced <- MCAnnounced
    LineMax = 20
    Runs <- MCRuns
    Lists <- MCLists
INVARIANTS
    BufferKept
    Expanded
    WalkFaithful
    RangesFound
    WordsRight
    LineHeard
CHECK_DEADLOCK FALSE
