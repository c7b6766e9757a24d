SPECIFICATION Spec
CONSTANTS
    bot = bot
    bob = bob
    Channels = {c1}
    BotNicks = {bot, bob}
    Others = {eve}
    Extends <- MCDistinct
    ModeStrings <- MCModeStrings
    FlagChoices <- MCFlags
    OutCap = 2
    InCap = 2
CONSTRAINT NicksOrUsers
INVARIANTS MembershipKnown ListedJoined NicknameKnown VoiceKnown
PROPERTIES NotForgotten
