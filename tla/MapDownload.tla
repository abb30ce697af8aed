------------------------------ MODULE MapDownload ------------------------------
(***************************************************************************)
(* Map downloads in the lobby of one game (game_base.cpp, game.cpp): the   *)
(* window of parts that may be on their way to a player, the limits on     *)
(* speed and on the number of downloaders, the download status that the    *)
(* countdown looks at, and the commands that permit downloads, while       *)
(* players join, leave and are kicked.                                     *)
(*                                                                         *)
(* Sizes are in parts (1442 bytes of the map).  The loop that sends parts  *)
(* takes one step for each downloader with nothing in between; the other   *)
(* handlers interleave as packets and timers do.  Which slot holds a       *)
(* player is Lobby's subject: a status moves with its player's slot.  When *)
(* the clients are told of a new status (m_SlotInfoChanged) is left out.   *)
(* The bot has a copy of the map.  What the Warcraft III client does is    *)
(* modelled from how the bot uses it.                                      *)
(***************************************************************************)
EXTENDS Integers, SequencesExt

CONSTANTS Players, Unknown,
          Modes,            \* the modes that !downloads sets
          MapParts,         \* size of the map
          Window,           \* parts that are sent ahead of the player's reports
          MaxDownloadSpeed, \* parts a second, 0: no limit
          MaxDownloaders    \* 0: no limit

ASSUME MapDownloadAssumption ==
    /\ MapParts \in Nat \ {0} /\ Window \in Nat \ {0}
    /\ MaxDownloadSpeed \in Nat /\ MaxDownloaders \in Nat
    /\ Unknown \notin Nat /\ Modes \subseteq 0 .. 2

VARIABLES
    allowDownloads, \* CGHost::m_AllowDownloads: 0 no, 1 yes, 2 when an admin permits it
    players,        \* m_Players
    marked,         \* m_DeleteMe
    allowed, started, finished, \* m_DownloadAllowed, m_DownloadStarted, m_DownloadFinished
    lastSent, lastAcked,        \* m_LastMapPartSent, m_LastMapPartAcked
    status,         \* the download status of the player's slot
    downloadCounter,    \* m_DownloadCounter
    cursor,         \* the loop that sends parts: how many were served, 0 outside of the loop
    countDownStarted, inGame, \* m_CountDownStarted; m_GameLoading or m_GameLoaded
    \* the clients
    hadMap,         \* those who had the map when they joined
    got,            \* how many parts arrived
    toClient,       \* parts on their way
    toBot,          \* reports of the map's size on their way
    \* history
    forced          \* the countdown was started by !start force

lobby == << players, marked, countDownStarted, forced, inGame >>
permits == << allowed, started, finished >>
window == << lastSent, lastAcked >>
limits == << downloadCounter, cursor >>
clients == << hadMap, got, toClient, toBot >>
vars == << lobby, allowDownloads, permits, window, limits, status, clients >>

-----------------------------------------------------------------------------
Present == {players[i] : i \in DOMAIN players}
Seated == Present \ marked
Downloading == (Present \cap started) \ finished

HasMap(p) == p \in hadMap \/ got[p] = MapParts

Percent(parts) == (parts * 100) \div MapParts

\* A client says how much of the map it has: flag 1 when it does not ask for the rest.
Report(flag, size) == [flag |-> flag, size |-> size]
Reports == [flag : {1, 3}, size : 0 .. MapParts]
Whole(r) == r.flag = 1 /\ r.size = MapParts

\* The handlers run in turn, none of them in the middle of the loop over m_Players.
Idle == cursor = 0 /\ ~inGame

Init ==
    /\ allowDownloads \in Modes
    /\ players = << >> /\ marked = {} /\ countDownStarted = FALSE /\ forced = FALSE /\ inGame = FALSE
    /\ allowed = {} /\ started = {} /\ finished = {}
    /\ lastSent = [p \in Players |-> 0] /\ lastAcked = [p \in Players |-> 0]
    /\ status = [p \in Players |-> Unknown]
    /\ downloadCounter = 0 /\ cursor = 0
    /\ hadMap = {} /\ got = [p \in Players |-> 0]
    /\ toClient = [p \in Players |-> << >>] /\ toBot = [p \in Players |-> << >>]

-----------------------------------------------------------------------------
(* Players come and go.                                                    *)

AbortCountDown == countDownStarted' = FALSE /\ forced' = FALSE

\* EventPlayerJoined: the new CGamePlayer's slot has an unknown download status; its
\* client reports at once whether it has the map.
Join(p) ==
    /\ Idle /\ p \notin Present
    /\ players' = Append(players, p) /\ AbortCountDown
    /\ status' = [status EXCEPT ![p] = Unknown]
    /\ \E whole \in BOOLEAN :
        /\ hadMap' = IF whole THEN hadMap \cup {p} ELSE hadMap
        /\ toBot' = [toBot EXCEPT ![p] = << Report(1, IF whole THEN MapParts ELSE 0) >>]
    /\ UNCHANGED << marked, inGame, allowDownloads, permits, window, limits, got, toClient >>

\* The player leaves, its connection fails, or it is kicked for another reason.
Leave(p) ==
    /\ Idle /\ p \in Seated
    /\ marked' = marked \cup {p} /\ status' = [status EXCEPT ![p] = Unknown]
    /\ UNCHANGED << players, countDownStarted, forced, inGame, allowDownloads, permits, window, limits,
                    clients >>

\* EventPlayerDeleted, in the next update
EventPlayerDeleted(p) ==
    /\ Idle /\ p \in Present \cap marked
    /\ \E i \in DOMAIN players : players[i] = p /\ players' = RemoveAt(players, i)
    /\ marked' = marked \ {p}
    /\ AbortCountDown
    /\ allowed' = allowed \ {p} /\ started' = started \ {p} /\ finished' = finished \ {p}
    /\ lastSent' = [lastSent EXCEPT ![p] = 0] /\ lastAcked' = [lastAcked EXCEPT ![p] = 0]
    /\ hadMap' = hadMap \ {p} /\ got' = [got EXCEPT ![p] = 0]
    /\ toClient' = [toClient EXCEPT ![p] = << >>] /\ toBot' = [toBot EXCEPT ![p] = << >>]
    /\ UNCHANGED << inGame, allowDownloads, limits, status >>

-----------------------------------------------------------------------------
(* EventPlayerMapSize: a player reports how much of the map it has.        *)

Reporting(p) == Idle /\ p \in Seated /\ toBot[p] # << >>

MayDownload(p) == allowDownloads = 1 \/ (allowDownloads = 2 /\ p \in allowed)

NoteStatus(p, size) == status' = [status EXCEPT ![p] = Percent(size)]

ReportRead(p) ==
    /\ toBot' = [toBot EXCEPT ![p] = Tail(@)]
    /\ UNCHANGED << players, countDownStarted, forced, inGame, allowDownloads, allowed, lastSent, limits,
                    hadMap, got, toClient >>

\* The player has the map, maybe because it downloaded it.
ReportWhole(p) ==
    /\ Reporting(p) /\ Whole(Head(toBot[p]))
    /\ finished' = IF p \in started THEN finished \cup {p} ELSE finished
    /\ NoteStatus(p, MapParts) /\ ReportRead(p)
    /\ UNCHANGED << marked, started, lastAcked >>

\* It does not and the map is not sent: it is kicked.
ReportKicks(p) ==
    /\ Reporting(p) /\ ~Whole(Head(toBot[p])) /\ allowDownloads = 0
    /\ marked' = marked \cup {p} /\ status' = [status EXCEPT ![p] = Unknown]
    /\ ReportRead(p)
    /\ UNCHANGED << started, finished, lastAcked >>

\* It does not, and the download starts or goes on, unless it is not permitted.
ReportPart(p) ==
    /\ Reporting(p) /\ ~Whole(Head(toBot[p])) /\ allowDownloads # 0
    /\ LET r == Head(toBot[p])
           starts == MayDownload(p) /\ p \notin started /\ r.flag = 1
       IN  /\ started' = IF starts THEN started \cup {p} ELSE started
           /\ lastAcked' = IF MayDownload(p) /\ ~starts THEN [lastAcked EXCEPT ![p] = r.size]
                           ELSE lastAcked
           /\ NoteStatus(p, r.size)
    /\ ReportRead(p)
    /\ UNCHANGED << marked, finished >>

EventPlayerMapSize(p) == ReportWhole(p) \/ ReportKicks(p) \/ ReportPart(p)

-----------------------------------------------------------------------------
(* Timers.                                                                 *)

\* Once a second
ResetDownloadCounter ==
    /\ Idle
    /\ downloadCounter' = 0
    /\ UNCHANGED << lobby, allowDownloads, permits, window, cursor, status, clients >>

\* The downloaders who are sent parts, in the order of m_Players
Downloaders == SelectSeq(players, LAMBDA p : p \in Downloading)
Served == IF MaxDownloaders = 0 \/ Len(Downloaders) < MaxDownloaders THEN Len(Downloaders)
          ELSE MaxDownloaders

\* (fault) the window is compared by <=
RoomForOneMore(p) ==
    IF lastAcked[p] + Window < MapParts THEN lastAcked[p] + Window + 1 - lastSent[p]
    ELSE MapParts - lastSent[p]
\* How many parts the loop sends to a player, but for the speed limit
Room(p) ==
    IF lastAcked[p] + Window < MapParts THEN lastAcked[p] + Window - lastSent[p]
    ELSE MapParts - lastSent[p]

\* The counter is compared before each part.
Throttled(p) ==
    IF downloadCounter + Room(p) <= MaxDownloadSpeed + 1 THEN Room(p)
    ELSE MaxDownloadSpeed + 1 - downloadCounter

PartsFor(p) == IF MaxDownloadSpeed = 0 THEN Room(p) ELSE Throttled(p)

\* Ten times a second a loop sends parts to one downloader after the other.
SendMapParts(p) ==
    /\ ~inGame /\ cursor < Served /\ p = Downloaders[cursor + 1] /\ p \in Downloading
    /\ toClient' = [toClient EXCEPT ![p] = @ \o [k \in 1 .. PartsFor(p) |-> lastSent[p] + k]]
    /\ lastSent' = [lastSent EXCEPT ![p] = @ + PartsFor(p)]
    /\ downloadCounter' = IF MaxDownloadSpeed = 0 THEN 0 ELSE downloadCounter + PartsFor(p)
    /\ cursor' = IF cursor + 1 = Served THEN 0 ELSE cursor + 1
    /\ UNCHANGED << lobby, allowDownloads, permits, lastAcked, status, hadMap, got, toBot >>

-----------------------------------------------------------------------------
(* Commands.                                                               *)

\* (fault) whoever has the map may be permitted to download it
NotStarted(p) == p \notin started
\* The player may need the map.
MayNeedMap(p) == p \notin started /\ status[p] # 100

\* !download
DownloadCommand(p) ==
    /\ Idle /\ p \in Seated /\ MayNeedMap(p)
    /\ allowed' = allowed \cup {p} /\ started' = started \cup {p}
    /\ UNCHANGED << lobby, allowDownloads, finished, window, limits, status, clients >>

\* !downloads on battle.net or in the admin game.  (In the lobby the command sets a
\* variable that nothing reads.)
SetDownloads(mode) ==
    /\ Idle /\ mode # allowDownloads
    /\ allowDownloads' = mode
    /\ UNCHANGED << lobby, permits, window, limits, status, clients >>

StillDownloading == {p \in Seated : status[p] # 100}

\* (fault) the players' own flags are looked at
NobodyDownloads == Downloading = {}
EveryoneReported == StillDownloading = {}

\* StartCountDown and StartCountDownAuto, when a player types the command or enough are
\* there; other checks may refuse it.
StartCountDown(force) ==
    /\ Idle /\ ~countDownStarted /\ Seated # {}
    /\ force \/ EveryoneReported
    /\ countDownStarted' = TRUE /\ forced' = force
    /\ UNCHANGED << players, marked, inGame, allowDownloads, permits, window, limits, status, clients >>

AbortCommand ==
    /\ Idle /\ countDownStarted /\ AbortCountDown
    /\ UNCHANGED << players, marked, inGame, allowDownloads, permits, window, limits, status, clients >>

EventGameStarted ==
    /\ Idle /\ countDownStarted
    /\ inGame' = TRUE /\ countDownStarted' = FALSE
    /\ UNCHANGED << players, marked, forced, allowDownloads, permits, window, limits, status, clients >>

-----------------------------------------------------------------------------
(* The client.                                                             *)

\* It takes the next part and reports what it has, the whole map as a map it had.  A
\* client that had the map has reported so and ignores the parts.  (What it does while
\* the bot is in the loop that sends parts it may as well do after it.)
ReceivePart(p) ==
    /\ Idle /\ p \in Present /\ toClient[p] # << >>
    /\ got' = [got EXCEPT ![p] = Head(toClient[p])]
    /\ toClient' = [toClient EXCEPT ![p] = Tail(@)]
    /\ toBot' = IF p \in hadMap THEN toBot
                ELSE [toBot EXCEPT ![p] =
                        Append(@, Report(IF Head(toClient[p]) = MapParts THEN 1 ELSE 3, Head(toClient[p])))]
    /\ UNCHANGED << lobby, allowDownloads, permits, window, limits, status, hadMap >>

Next ==
    \/ \E p \in Players : \/ Join(p) \/ Leave(p) \/ EventPlayerDeleted(p) \/ EventPlayerMapSize(p)
                          \/ SendMapParts(p) \/ DownloadCommand(p) \/ ReceivePart(p)
    \/ ResetDownloadCounter
    \/ \E mode \in Modes : SetDownloads(mode)
    \/ AbortCommand \/ EventGameStarted
    \/ \E force \in BOOLEAN : StartCountDown(force)

Spec == Init /\ [][Next]_vars

\* The main loop goes on: each update reads every player's packets, and the timers are
\* due again and again.  The connection and the client of a player who stays go on, too.
MainLoop ==
    /\ SF_vars(ResetDownloadCounter) /\ WF_vars(\E p \in Players : SendMapParts(p))
    /\ \A p \in Players : SF_vars(EventPlayerMapSize(p) \/ EventPlayerDeleted(p))

FairSpec == Spec /\ MainLoop /\ \A p \in Players : SF_vars(ReceivePart(p))

-----------------------------------------------------------------------------
(* Correctness.                                                            *)

TypeOK ==
    /\ allowDownloads \in 0 .. 2
    /\ players \in Seq(Players) /\ marked \subseteq Players
    /\ allowed \subseteq Players /\ started \subseteq Players /\ finished \subseteq Players
    /\ lastSent \in [Players -> 0 .. MapParts] /\ lastAcked \in [Players -> 0 .. MapParts]
    /\ status \in [Players -> (0 .. 100) \cup {Unknown}]
    /\ downloadCounter \in Nat /\ cursor \in Nat
    /\ countDownStarted \in BOOLEAN /\ forced \in BOOLEAN /\ inGame \in BOOLEAN
    /\ hadMap \subseteq Players /\ got \in [Players -> 0 .. MapParts]
    /\ toClient \in [Players -> Seq(1 .. MapParts)] /\ toBot \in [Players -> Seq(Reports)]

\* Parts arrive in order and none is missing, never more of them are on their way or
\* unreported than the window has, the bot never takes more for reported than has
\* arrived, and in a second at most one part more is sent than the limit says,
\* whichever players join, leave and start downloading in between.
FlowOK ==
    /\ TypeOK
    /\ \A p \in Players :
        /\ Len(toClient[p]) = lastSent[p] - got[p]
        /\ \A k \in DOMAIN toClient[p] : toClient[p][k] = got[p] + k
        /\ lastAcked[p] <= got[p] /\ lastSent[p] <= lastAcked[p] + Window
    /\ MaxDownloadSpeed # 0 => downloadCounter <= MaxDownloadSpeed + 1

\* A game that was not started by force has no player without the map: the status of
\* the slots, which the check at the start of the countdown looks at, speaks for the
\* clients, and nobody without the map gets in before the countdown ends.
EveryoneHasTheMap ==
    (inGame \/ countDownStarted) /\ ~forced => \A p \in Seated : HasMap(p)

\* A download that started ends: the player gets the whole map, leaves, or the game
\* starts, whoever joins, leaves or starts downloading before it; if downloads are not
\* made conditional while somebody is downloading (its reports are passed over from then
\* on, and it may hold up the others).
Permitted == allowDownloads = 2 => Downloading \subseteq allowed
DownloadsEnd ==
    []Permitted => \A p \in Players : p \in Downloading ~> p \notin Downloading \/ inGame
=============================================================================
