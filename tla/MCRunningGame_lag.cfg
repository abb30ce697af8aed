CONSTANTS
    NumPlayers = 3
    GProxyPlayers = {1}
    Worlds = {0, 1}
    SyncLimit = 2
    Width = 7
    AutoSave = TRUE
    AutoEndPercentage = 70
    HasStats = FALSE
    Commands = {"drop", "abort"}
    NoPlayer = NoPlayer
SPECIFICATION Spec
VIEW MCView
CHECK_DEADLOCK FALSE
INVARIANTS LagOK FramesAligned
PROPERTIES MajorityStays
