SPECIFICATION Spec
CONSTANTS
    bot = bot
    bob = bob
    Channels = {c1}
    BotNicks = {bot}
    Others = {eve}
    Extends <- MCDistinct
    ModeStrings <- MCModeStrings
    FlagChoices <- MCFlags
    OutCap = 2
    InCap = 1
INVARIANT JoinedIsJoined
