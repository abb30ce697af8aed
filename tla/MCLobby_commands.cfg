CONSTANTS
    c1 = c1  c2 = c2  c3 = c3
    own = own  adm = adm  joe = joe  sue = sue
    Conns <- MCConns
    Names <- FewNames
    NoPlayer = NoPlayer
    Admins = {own}
    ReserveAdmins = FALSE
    Holds = {}
    FirstOwner = adm
    NumSlots = 2
    MaxPlayers = 2
    LastPID = 6
    DownloadStatus <- FewDownloadStatus
    AllowDownloads = TRUE
    RequireSpoofChecks = TRUE
    AutoStartPlayers = 0
    CountDownFrom = 1
    LobbyTimeLimit = TRUE
    Commands <- PlainCommands
SPECIFICATION Spec
SYMMETRY Symmetry
INVARIANTS SlotsMatchPlayers
