CONSTANTS
    Servers = {"bnet"}
    NoGame = NoGame
    MaxGames = 1
    AutoHosting = TRUE
    MaxCounter = 3
    MaxChat = 1
    MaxAnswers = 2
SPECIFICATION FairSpec
CHECK_DEADLOCK FALSE
INVARIANTS HostingOK
PROPERTIES PublicGamesShown BackInChat
