------------------------------- MODULE Hosting -------------------------------
(***************************************************************************)
(* How a lobby is advertised on battle.net: CGHost creates it (ghost.cpp), *)
(* CBaseGame refreshes, rehosts and starts it (game_base.cpp, game.cpp),   *)
(* and one CBNET per server (bnet.cpp) logs on, queues packets, sends them *)
(* one by one with pauses in between, and reads the server's answers,      *)
(* which do not say which game they are about.                             *)
(*                                                                         *)
(* All of it runs in one thread: a turn of CGHost::Update updates the      *)
(* lobby, the running games, each connection, and hosts automatically, in  *)
(* this order.  The actions below are the parts of a turn, in any order,   *)
(* for a part may find nothing to do.  A hosted game is known by its host  *)
(* counter, which changes with its name.                                   *)
(***************************************************************************)
EXTENDS Integers, Sequences

CONSTANTS Servers,      \* m_BNETs
          MaxGames,     \* m_MaxGames
          NoGame,       \* no lobby: m_CurrentGame is NULL
          AutoHosting,  \* games are hosted automatically and start by themselves
          MaxCounter,   \* bound: host counters that are given out
          MaxChat,      \* bound: packets in a queue when chat is added to it; the code's
                        \* own limit is 10
          MaxAnswers    \* bound: answers on their way when a packet is sent

ASSUME HostingAssumption ==
    /\ {MaxGames, MaxCounter, MaxChat, MaxAnswers} \subseteq Nat
    /\ AutoHosting \in BOOLEAN
ASSUME NoGameAssumption ==
    NoGame \notin [counter : Nat, public : BOOLEAN, refreshError : BOOLEAN, countDown : BOOLEAN,
                   humans : BOOLEAN, open : BOOLEAN, exiting : BOOLEAN]

Counters == 1 .. MaxCounter
Nothing == 0
StartAd(c) == << "STARTADVEX3", c >>
StopAd == << "STOPADV", Nothing >>
EnterChat == << "ENTERCHAT", Nothing >>
Chat == << "CHATCOMMAND", Nothing >>
Packets == {StartAd(c) : c \in Counters} \cup {StopAd, EnterChat, Chat}
\* An answer does not say which game it is about.
Answers == {"failed", "hosted", "chat"}
Games == [counter : Counters, public : BOOLEAN, refreshError : BOOLEAN, countDown : BOOLEAN,
          humans : BOOLEAN, open : BOOLEAN, exiting : BOOLEAN]

VARIABLES pvpgn,        \* the servers whose password hash type is "pvpgn", which never changes
          lobby,        \* m_CurrentGame
          games,        \* how many games m_Games holds
          hostCounter,  \* the last counter given out
          link,         \* the connection to a server
          loggedIn, inChat, outPackets,     \* of each CBNET
          answers, shown   \* what each server has answered and not been read, and the
                           \* game that it shows

hostingVars == << pvpgn, lobby, games, hostCounter, link, loggedIn, inChat, outPackets, answers, shown >>
session == << pvpgn, link, loggedIn, inChat, answers, shown >>
Hosted == lobby # NoGame

HostingTypeOK ==
    /\ pvpgn \subseteq Servers
    /\ lobby \in Games \cup {NoGame} /\ games \in 0 .. MaxGames
    /\ hostCounter \in 0 .. MaxCounter
    /\ link \in [Servers -> {"waiting", "connecting", "connected"}]
    /\ loggedIn \in [Servers -> BOOLEAN] /\ inChat \in [Servers -> BOOLEAN]
    /\ outPackets \in [Servers -> Seq(Packets)] /\ answers \in [Servers -> Seq(Answers)]
    /\ shown \in [Servers -> Counters \cup {Nothing}]

HostingInit ==
    /\ pvpgn \in SUBSET Servers
    /\ lobby = NoGame /\ games = 0 /\ hostCounter = 0
    /\ link = [s \in Servers |-> "waiting"]
    /\ loggedIn = [s \in Servers |-> FALSE] /\ inChat = [s \in Servers |-> FALSE]
    /\ outPackets = [s \in Servers |-> << >>] /\ answers = [s \in Servers |-> << >>]
    /\ shown = [s \in Servers |-> Nothing]

-----------------------------------------------------------------------------
(* The queues.  Nothing is queued for a server before the logon.           *)

QueuedTo(s, packets) == IF loggedIn[s] THEN packets ELSE << >>

\* QueueGameUncreate and QueueEnterChat
QueueUncreate(s) == QueuedTo(s, << StopAd, EnterChat >>)

\* (fault) only the game is withdrawn
UncreateOnly == outPackets' = [s \in Servers |-> outPackets[s] \o QueuedTo(s, << StopAd >>)]
Uncreate == outPackets' = [s \in Servers |-> outPackets[s] \o QueueUncreate(s)]

\* QueueGameCreate.  Where a private game was created the bot goes back to its channel, but
\* for PvPGN servers, which would withdraw the game.
QueueGameCreate(s, c, public) ==
    QueuedTo(s, << StartAd(c) >> \o (IF public \/ s \in pvpgn THEN << >> ELSE << EnterChat >>))
NotInChat == [s \in Servers |-> inChat[s] /\ ~loggedIn[s]]

\* UnqueueGameRefreshes keeps what is no refresh, in its order.
Unqueued(queue) ==
    LET kept[n \in 0 .. Len(queue)] ==
            IF n = 0 THEN << >>
            ELSE kept[n - 1] \o
                    (IF queue[n][1] = "STARTADVEX3" THEN << >> ELSE << queue[n] >>)
    IN  kept[Len(queue)]

-----------------------------------------------------------------------------
(* Games.                                                                  *)

\* CGHost::CreateGame, on command or automatically
CreateGame(public) ==
    /\ ~Hosted /\ games < MaxGames /\ hostCounter < MaxCounter
    /\ hostCounter' = hostCounter + 1
    /\ lobby' = [counter |-> hostCounter', public |-> public, refreshError |-> FALSE,
                 countDown |-> FALSE, humans |-> FALSE, open |-> TRUE, exiting |-> FALSE]
    /\ outPackets' = [s \in Servers |-> outPackets[s] \o
                        QueuedTo(s, << Chat >>) \o QueueGameCreate(s, hostCounter', public)]
    /\ inChat' = NotInChat
    /\ UNCHANGED << pvpgn, games, link, loggedIn, answers, shown >>

\* Players come and go, and slots are opened and closed.
PlayersChange ==
    /\ Hosted
    /\ \E humans, open \in BOOLEAN :
        lobby' = [lobby EXCEPT !.humans = humans, !.open = open]
    /\ UNCHANGED << games, hostCounter, outPackets, session >>

CountDown ==
    /\ Hosted
    /\ lobby' = [lobby EXCEPT !.countDown = ~@]
    /\ UNCHANGED << games, hostCounter, outPackets, session >>

\* (fault) a game is refreshed only while the bot is not in its channel
RefreshOutOfChat(s) == loggedIn[s] /\ Len(outPackets[s]) <= 1 /\ ~inChat[s]
\* Refreshes have a low priority: they are queued behind one packet at most.
MayRefresh(s) == loggedIn[s] /\ Len(outPackets[s]) <= 1

\* The refresh that CBaseGame::Update sends every 3 seconds
RefreshGame ==
    /\ Hosted /\ lobby.public /\ ~lobby.refreshError /\ ~lobby.countDown /\ lobby.open
    /\ outPackets' = [s \in Servers |-> outPackets[s] \o
                        (IF MayRefresh(s) THEN << StartAd(lobby.counter) >> ELSE << >>)]
    /\ UNCHANGED << lobby, games, hostCounter, session >>

\* The game is given another counter and name.
Renamed(public) ==
    /\ Hosted /\ ~lobby.countDown /\ hostCounter < MaxCounter
    /\ hostCounter' = hostCounter + 1
    /\ lobby' = [lobby EXCEPT !.counter = hostCounter', !.public = public, !.refreshError = FALSE]
    /\ UNCHANGED << pvpgn, games, link, loggedIn, answers, shown >>

\* !pub and !priv typed in the lobby: refreshes that wait are taken from the queue.  A
\* private game is created at once, a public one by its next refresh.
Rehost(public) ==
    /\ Hosted /\ lobby.humans /\ Renamed(public)
    /\ outPackets' = [s \in Servers |-> Unqueued(outPackets[s]) \o QueueUncreate(s) \o
                        (IF public THEN << >> ELSE QueueGameCreate(s, hostCounter', FALSE))]
    /\ inChat' = IF public THEN inChat ELSE NotInChat

\* CBaseGame::Update rehosts a game after a refresh error, when games are hosted
\* automatically.
AutoRehost ==
    /\ AutoHosting /\ Hosted /\ lobby.public /\ lobby.refreshError /\ Renamed(TRUE)
    /\ Uncreate
    /\ UNCHANGED inChat

\* EventGameStarted moves the lobby to the running games in the middle of its update.  (If
\* the lobby was to be closed, CGHost::Update would now use the NULL it finds in its place.)
EventGameStarted ==
    /\ Hosted /\ lobby.countDown /\ ~lobby.exiting
    /\ lobby' = NoGame /\ games' = games + 1
    /\ Uncreate
    /\ UNCHANGED << hostCounter, session >>

\* !unhost, which no countdown allows, or the time limit of a lobby, which asks for none
Unhost ==
    /\ Hosted /\ ~lobby.exiting
    /\ lobby' = [lobby EXCEPT !.exiting = TRUE]
    /\ UNCHANGED << games, hostCounter, outPackets, session >>

DeleteLobby ==
    /\ Hosted /\ lobby.exiting
    /\ lobby' = NoGame
    /\ Uncreate
    /\ UNCHANGED << games, hostCounter, session >>

EventGameDeleted ==
    /\ games > 0 /\ games' = games - 1
    /\ UNCHANGED << lobby, hostCounter, outPackets, session >>

-----------------------------------------------------------------------------
(* Connections: CBNET::Update.                                             *)

Connect(s) ==
    /\ link[s] = "waiting"
    /\ link' = [link EXCEPT ![s] = "connecting"]
    /\ UNCHANGED << pvpgn, lobby, games, hostCounter, loggedIn, inChat, outPackets, answers, shown >>

ConnectTimedOut(s) ==
    /\ link[s] = "connecting"
    /\ link' = [link EXCEPT ![s] = "waiting"]
    /\ UNCHANGED << pvpgn, lobby, games, hostCounter, loggedIn, inChat, outPackets, answers, shown >>

\* (fault) the queue of the last connection is kept
QueueKept(s) == outPackets[s]
\* What was queued for the last connection is thrown away.
QueueOfNewConnection(s) == << >>

Connected(s) ==
    /\ link[s] = "connecting"
    /\ link' = [link EXCEPT ![s] = "connected"]
    /\ outPackets' = [outPackets EXCEPT ![s] = QueueOfNewConnection(s)]
    /\ UNCHANGED << pvpgn, lobby, games, hostCounter, loggedIn, inChat, answers, shown >>

\* The last step of the logon: the bot asks at once, past the queue, for its channel.
LoggedIn(s) ==
    /\ link[s] = "connected" /\ ~loggedIn[s]
    /\ loggedIn' = [loggedIn EXCEPT ![s] = TRUE]
    /\ answers' = [answers EXCEPT ![s] = Append(@, "chat")]
    /\ UNCHANGED << pvpgn, lobby, games, hostCounter, link, inChat, outPackets, shown >>

\* The connection is lost, or the logon failed; the server drops the bot's game.
Disconnected(s) ==
    /\ link[s] = "connected"
    /\ link' = [link EXCEPT ![s] = "waiting"]
    /\ loggedIn' = [loggedIn EXCEPT ![s] = FALSE] /\ inChat' = [inChat EXCEPT ![s] = FALSE]
    /\ answers' = [answers EXCEPT ![s] = << >>] /\ shown' = [shown EXCEPT ![s] = Nothing]
    /\ UNCHANGED << pvpgn, lobby, games, hostCounter, outPackets >>

\* Everything else that the bot says on a server
QueueChatCommand(s) ==
    /\ loggedIn[s] /\ Len(outPackets[s]) < MaxChat
    /\ outPackets' = [outPackets EXCEPT ![s] = Append(@, Chat)]
    /\ UNCHANGED << lobby, games, hostCounter, session >>

\* (environment) what a server does with a packet: it hosts the game of the packet instead
\* of the one it shows, or refuses it.  Before the logon it does nothing.
Accepts(s, packet) ==
    CASE packet[1] = "STARTADVEX3" -> {<< packet[2], << "hosted" >> >>,
                                       << shown[s], << "failed" >> >>}
      [] packet[1] = "STOPADV" -> {<< Nothing, << >> >>}
      [] packet[1] = "ENTERCHAT" -> {<< IF s \in pvpgn THEN Nothing ELSE shown[s],
                                        << "chat" >> >>}
      [] OTHER -> {<< shown[s], << >> >>}

\* The first packet of the queue is sent, once the pause after the last one is over.
Send(s) ==
    /\ link[s] = "connected" /\ outPackets[s] # << >> /\ Len(answers[s]) < MaxAnswers
    /\ \E reply \in IF loggedIn[s] THEN Accepts(s, Head(outPackets[s]))
                    ELSE {<< shown[s], << >> >>} :
        /\ shown' = [shown EXCEPT ![s] = reply[1]]
        /\ answers' = [answers EXCEPT ![s] = @ \o reply[2]]
    /\ outPackets' = [outPackets EXCEPT ![s] = Tail(@)]
    /\ UNCHANGED << pvpgn, lobby, games, hostCounter, link, loggedIn, inChat >>

\* EventBNETGameRefreshFailed: there is a message on every server, the game is not
\* refreshed any more, and closed if nobody is in it.
RefreshFailed ==
    /\ Hosted
    /\ lobby' = [lobby EXCEPT !.refreshError = TRUE, !.exiting = @ \/ ~lobby.humans]
    /\ outPackets' = [s \in Servers |-> outPackets[s] \o QueuedTo(s, << Chat >>)]

\* ProcessPackets
Read(s) ==
    /\ answers[s] # << >>
    /\ answers' = [answers EXCEPT ![s] = Tail(@)]
    /\ LET answer == Head(answers[s])
       IN  /\ inChat' = [inChat EXCEPT ![s] = (@ \/ answer = "chat") /\ answer # "hosted"]
           /\ \/ answer = "failed" /\ RefreshFailed
              \/ (answer # "failed" \/ ~Hosted) /\ UNCHANGED << lobby, outPackets >>
    /\ UNCHANGED << pvpgn, games, hostCounter, link, loggedIn, shown >>

-----------------------------------------------------------------------------
HostingNext ==
    \/ \E public \in BOOLEAN : CreateGame(public) \/ Rehost(public)
    \/ PlayersChange \/ CountDown \/ RefreshGame \/ AutoRehost
    \/ EventGameStarted \/ Unhost \/ DeleteLobby \/ EventGameDeleted
    \/ \E s \in Servers :
        \/ Connect(s) \/ ConnectTimedOut(s) \/ Connected(s) \/ LoggedIn(s) \/ Disconnected(s)
        \/ QueueChatCommand(s) \/ Send(s) \/ Read(s)

HostingSpec == HostingInit /\ [][HostingNext]_hostingVars

-----------------------------------------------------------------------------
(* Correctness.                                                            *)

\* A server that shows a game other than the one in the lobby, renamed, started or closed
\* meanwhile, will be told to withdraw it: a STOPADV waits in its queue, behind every
\* refresh of such a game (QueueGameUncreate, UnqueueGameRefreshes, the queue that a new
\* connection empties).
OldGamesWithdrawn ==
    \A s \in Servers :
        LET old(c) == c # Nothing /\ ~(Hosted /\ lobby.counter = c)
            withdrawnAfter(i) == \E j \in i + 1 .. Len(outPackets[s]) : outPackets[s][j] = StopAd
        IN  link[s] = "connected" =>
                /\ old(shown[s]) => withdrawnAfter(0)
                /\ \A i \in DOMAIN outPackets[s] :
                        old(outPackets[s][i][2]) => withdrawnAfter(i)
HostingOK == HostingTypeOK /\ OldGamesWithdrawn

\* The main loop runs for ever: packets are sent and answers read.  Again and again a
\* refresh is due when no more than one packet waits, for chat does not fill the queue for
\* ever.
HostingFairness ==
    /\ SF_hostingVars(RefreshGame /\ \E s \in Servers : MayRefresh(s))
    /\ \A s \in Servers : WF_hostingVars(Send(s)) /\ WF_hostingVars(Read(s))
FairSpec == HostingSpec /\ HostingFairness

Advertised(c) ==
    Hosted /\ lobby.counter = c /\ lobby.public /\ lobby.open /\ ~lobby.countDown
           /\ ~lobby.refreshError

\* A public game that waits for players gets to be shown on every server that stays
\* connected, whether it was there when the game was created or came back since.
PublicGamesShown ==
    \A s \in Servers, c \in Counters :
        <>[](Advertised(c) /\ loggedIn[s]) => <>[](shown[s] = c)

\* When no game is in the lobby, the bot gets back to its channel, where it takes commands,
\* however late the answers about its last game are.
BackInChat ==
    \A s \in Servers : <>[](~Hosted /\ loggedIn[s]) => <>[]inChat[s]
=============================================================================
