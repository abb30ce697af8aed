CONSTANTS
    NumPlayers = 3
    GProxyPlayers = {1}
    LoadInGames = {TRUE, FALSE}
    EmptyActions = 1
    AutoSave = TRUE
    Lengths <- MCLengths
    MaxLength = 2
    SizeLimit = 3
    MaxActions = 3
    MaxUpdates = 1
    MaxResets = 1
SPECIFICATION Spec
CHECK_DEADLOCK FALSE
INVARIANTS ActionsInOrder ScreensOK
PROPERTIES SameGame
