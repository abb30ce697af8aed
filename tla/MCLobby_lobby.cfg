CONSTANTS
    c1 = c1  c2 = c2  c3 = c3
    own = own  adm = adm  joe = joe  sue = sue
    Conns = {c1, c2}
    Names = {own, joe}
    NoPlayer = NoPlayer
    Admins = {own}
    ReserveAdmins = TRUE
    Holds = {}
    FirstOwner = own
    NumSlots = 2
    MaxPlayers = 2
    LastPID = 6
    DownloadStatus <- FewDownloadStatus
    AllowDownloads = TRUE
    RequireSpoofChecks = TRUE
    AutoStartPlayers = 2
    CountDownFrom = 1
    LobbyTimeLimit = FALSE
    Commands <- LobbyCommands
SPECIFICATION FairSpec
INVARIANTS ClientsViewOK OnlySpoofCheckedStart
PROPERTIES LobbyFrozen OnlyOwnerDisplacesReserved MarkedAreDeleted CountDownEnds
