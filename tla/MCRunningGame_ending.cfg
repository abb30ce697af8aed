CONSTANTS
    NumPlayers = 2
    GProxyPlayers = {1}
    Worlds = {0, 1}
    SyncLimit = 2
    Width = 6
    AutoSave = TRUE
    AutoEndPercentage = 0
    HasStats = TRUE
    Commands = {"drop", "end", "endn", "abort"}
    NoPlayer = NoPlayer
SPECIFICATION FairSpec
VIEW MCView
CHECK_DEADLOCK FALSE

PROPERTIES LagEnds WorldsConverge GameEnds
