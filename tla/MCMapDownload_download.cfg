CONSTANTS
    alice = alice
    bob = bob
    Unknown = Unknown
    Players = {alice, bob}
    Modes = {0, 1, 2}
    MapParts = 2
    Window = 1
    MaxDownloadSpeed = 1
    MaxDownloaders = 1
SPECIFICATION FairSpec
INVARIANTS FlowOK EveryoneHasTheMap
PROPERTY DownloadsEnd
CHECK_DEADLOCK FALSE
