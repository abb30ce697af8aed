------------------------------- MODULE Lobby -------------------------------
(***************************************************************************)
(* The lobby of one hosted game: class CBaseGame of                        *)
(* source/ghost/game_base.cpp from its creation until EventGameStarted, or *)
(* until it is closed, with the part of CGamePlayer::Update                *)
(* (gameplayer.cpp) that drives it and the admin commands of game.cpp and  *)
(* bnet.cpp that change it.                                                *)
(*                                                                         *)
(* One turn of the main loop is one pass through `phase':                  *)
(*   enter, packets : the loop over m_Players, one player at a time        *)
(*   potentials     : the loop over m_Potentials, where players join       *)
(*   spoofkick, autostart, countdown : the timers, in the code's order     *)
(*   post           : CBaseGame::UpdatePost and, after the games, the      *)
(*                    battle.net connections, which may act on the lobby   *)
(* so a kick, a join and the start of the game interleave exactly where    *)
(* the loop lets them.  Clocks are abstracted: a timer that the code       *)
(* compares with the time may be due, or not, whenever it is examined.     *)
(* Teams, colours, races and handicaps of a slot are left out, and so are  *)
(* saved games and matchmaking.                                            *)
(***************************************************************************)
EXTENDS Integers, FiniteSets, Sequences, SequencesExt, FiniteSetsExt

CONSTANTS
    Conns,          \* the CGamePlayer objects: one per connection that joins
    Names,          \* the names players may use
    NoPlayer,       \* what a free CGamePlayer object holds
    Admins,         \* names that are admins of a realm
    ReserveAdmins,  \* bot_reserveadmins
    Holds,          \* names on the hold list when the game is created
    FirstOwner,     \* m_OwnerName when the game is created
    NumSlots,       \* m_Slots.size()
    MaxPlayers,     \* the number of PIDs Warcraft III allocates: 12
    LastPID,        \* GetNewPID looks for a PID in 1..LastPID: 254
    DownloadStatus, \* the values of a slot's download status, 100 and 255 included
    AllowDownloads, \* bot_allowdownloads # 0 and the map is on the host's disk
    RequireSpoofChecks, \* bot_requirespoofchecks
    AutoStartPlayers,   \* m_AutoStartPlayers, 0 when the game is not autostarted
    CountDownFrom,  \* the value the countdown starts from: 10
    LobbyTimeLimit, \* whether bot_lobbytimelimit is set
    Commands        \* the admin commands that are used

None == 255         \* what the code uses for "no PID" and "no SID"
SIDs == 0 .. NumSlots - 1
PIDs == 1 .. LastPID

ASSUME ConnsAssumption == IsFiniteSet(Conns)
ASSUME NamesAssumption ==
    Admins \subseteq Names /\ Holds \subseteq Names
ASSUME SlotsAssumption == NumSlots \in 1 .. 254
ASSUME MaxPlayersAssumption == MaxPlayers \in Nat /\ NumSlots <= MaxPlayers
\* GetNewPID never runs out: its comment "this should never happen".
ASSUME PIDsAssumption ==
    LastPID \in Nat /\ LastPID < None /\ Cardinality(Conns) + 2 < LastPID
ASSUME DownloadAssumption ==
    DownloadStatus \subseteq 0 .. 255 /\ {100, 255} \subseteq DownloadStatus
ASSUME SwitchesAssumption ==
    /\ {ReserveAdmins, AllowDownloads, RequireSpoofChecks, LobbyTimeLimit}
         \subseteq BOOLEAN
    /\ AutoStartPlayers \in Nat /\ CountDownFrom \in Nat

VARIABLES
    players,        \* m_Players, in the order in which they joined
    player,         \* the CGamePlayer objects
    slots,          \* m_Slots
    virtualHostPID, \* m_VirtualHostPID
    fakePlayerPID,  \* m_FakePlayerPID
    owner,          \* m_OwnerName
    reserved,       \* m_Reserved
    countDownStarted, countDownCounter,
    exiting,        \* m_Exiting
    phase, cursor,  \* where the turn of the main loop is
    settled,        \* how many of m_Players were there before this turn's joins
    shown           \* the PIDs a client was told of and not told have left

vars == << players, player, slots, virtualHostPID, fakePlayerPID, owner, reserved,
           countDownStarted, countDownCounter, exiting, phase, cursor, settled, shown >>

Slot == [pid : 0 .. 255, status : {"open", "closed", "occupied"},
         computer : BOOLEAN, download : DownloadStatus]
Player == [name : Names, pid : PIDs, reserved : BOOLEAN, spoofed : BOOLEAN,
           deleteMe : BOOLEAN, leftMessageSent : BOOLEAN]

ASSUME NoPlayerAssumption == NoPlayer \notin Player

Phases == {"enter", "packets", "potentials", "spoofkick", "autostart",
           "countdown", "post", "started", "closed"}

TypeOK ==
    /\ players \in Seq(Conns)
    /\ player \in [Conns -> Player \cup {NoPlayer}]
    /\ slots \in [SIDs -> Slot]
    /\ virtualHostPID \in PIDs \cup {None} /\ fakePlayerPID \in PIDs \cup {None}
    /\ owner \in Names \cup {FirstOwner} /\ reserved \subseteq Names
    /\ countDownStarted \in BOOLEAN /\ countDownCounter \in 0 .. CountDownFrom
    /\ exiting \in BOOLEAN /\ phase \in Phases
    /\ cursor \in Nat /\ settled \in Nat
    /\ shown \subseteq PIDs

-----------------------------------------------------------------------------
(* Lookups.                                                                *)

Present == {c \in Conns : player[c] # NoPlayer}

\* The players that are counted, named and found: the ones whose departure has
\* not been announced early.
LiveIn(pl) == {c \in Conns : pl[c] # NoPlayer /\ ~pl[c].leftMessageSent}
Live == LiveIn(player)

NumHumanPlayers == Cardinality(Live)
NumPlayersIn(pl, fake) == Cardinality(LiveIn(pl)) + (IF fake = None THEN 0 ELSE 1)

SIDFromPID(s, pid) ==
    LET held == {i \in SIDs : s[i].pid = pid}
    IN  IF held = {} THEN None ELSE Min(held)

\* The players GetPlayerFromSID can return; PIDsUnique makes it at most one.
SeatedAt(sid) == {c \in Live : player[c].pid = slots[sid].pid}

IsOwner(name) == name = owner

\* The PIDs that GetNewPID may not hand out.
UsedPIDs(pl, vh, fake) == {pl[c].pid : c \in LiveIn(pl)} \cup {vh, fake}
NewPID(pl, vh, fake) ==
    LET free == PIDs \ UsedPIDs(pl, vh, fake)
    IN  IF free = {} THEN None ELSE CHOOSE p \in free : \A q \in free : p <= q

-----------------------------------------------------------------------------
(* Slots.                                                                  *)

OpenedSlot == [pid |-> 0, status |-> "open", computer |-> FALSE, download |-> 255]
ClosedSlot == [pid |-> 0, status |-> "closed", computer |-> FALSE, download |-> 255]
ComputersSlot == [pid |-> 0, status |-> "occupied", computer |-> TRUE, download |-> 100]
PlayersSlot(pid, download) ==
    [pid |-> pid, status |-> "occupied", computer |-> FALSE, download |-> download]

\* OpenSlot( GetSIDFromPID( pid ), false )
OpenSlotOf(pid) ==
    [i \in SIDs |-> IF i = SIDFromPID(slots, pid) THEN OpenedSlot ELSE slots[i]]

SlotsThatAre(status) == {i \in SIDs : slots[i].status = status}
HumanSlots == {i \in SlotsThatAre("occupied") : ~slots[i].computer}

\* (fault) nobody is marked
NobodyEvictedFrom(sid) == player
\* The players after whoever is in a slot was marked for deletion
EvictedFrom(sid) ==
    [c \in Conns |-> IF c \in SeatedAt(sid) THEN [player[c] EXCEPT !.deleteMe = TRUE]
                    ELSE player[c]]

\* SwapSlots
Swapped(i, j) == [slots EXCEPT ![i] = slots[j], ![j] = slots[i]]

\* (fault) reserved players may be displaced, too
DisplaceableWhoever == {i \in SIDs : SeatedAt(i) # {}}
\* Slots of players whom a reserved player may displace, and among them the ones
\* whose players are still downloading and have the least of the map so far.
Displaceable == {i \in SIDs : \E c \in SeatedAt(i) : ~player[c].reserved}
LeastDownloaded ==
    {i \in Displaceable :
        /\ slots[i].download < 100
        /\ \A j \in Displaceable : slots[i].download <= slots[j].download}

EmptySlot == IF SlotsThatAre("open") = {} THEN None ELSE Min(SlotsThatAre("open"))

\* GetEmptySlot( true ) when no slot is open
ReservedSlot ==
    IF SlotsThatAre("closed") # {} THEN Min(SlotsThatAre("closed"))
    ELSE IF LeastDownloaded # {} THEN Min(LeastDownloaded)
    ELSE IF Displaceable # {} THEN Min(Displaceable)
    ELSE None

OwnersSlot == IF HumanSlots = {} THEN 0 ELSE Min(HumanSlots)

IsReserved(name) ==
    name \in reserved \/ (ReserveAdmins /\ name \in Admins) \/ IsOwner(name)

\* The slot a player who joins is given, None when the game is full for them.
SlotFor(name) ==
    IF EmptySlot # None THEN EmptySlot
    ELSE IF IsReserved(name) /\ ReservedSlot # None THEN ReservedSlot
    ELSE IF IsOwner(name) THEN OwnersSlot
    ELSE None

\* The virtual host player gives up its PID when a player joins who may need it.
HostMakingRoom(numPlayers) ==
    IF numPlayers >= MaxPlayers - 1 THEN None ELSE virtualHostPID

\* (fault) the countdown is not aborted
CountDownGoesOn == UNCHANGED countDownStarted
\* Whoever joins or leaves aborts the countdown.
AbortCountDown  == countDownStarted' = FALSE

-----------------------------------------------------------------------------
Init ==
    /\ players = << >>
    /\ player = [c \in Conns |-> NoPlayer]
    /\ slots = [i \in SIDs |-> OpenedSlot]
    /\ virtualHostPID = None /\ fakePlayerPID = None
    /\ owner = FirstOwner /\ reserved = Holds
    /\ countDownStarted = FALSE /\ countDownCounter = 0
    /\ exiting = FALSE
    /\ phase = "enter" /\ cursor = 1 /\ settled = 0
    /\ shown = {}

\* The player whose turn it is in the loop over m_Players.
Current == players[cursor]

settings == << owner, reserved >>
countdown == << countDownStarted, countDownCounter >>
position == << phase, cursor, settled >>

-----------------------------------------------------------------------------
(* The loop over m_Players.                                                *)

\* (fault) every deletion is announced
NeverAnnounced(c) == FALSE
\* EventPlayerDeleted does not repeat a departure that was announced early.
AlreadyAnnounced(c) == player[c].leftMessageSent

\* (fault) a player whose departure was announced is taken for deleted
DeletingUnlessAnnounced(c) == player[c].deleteMe /\ ~player[c].leftMessageSent
\* The result of CGamePlayer::Update when the connection is sound
Deleting(c) == player[c].deleteMe

\* CPotentialPlayer::Update returns at once for a player that is to be deleted;
\* the others' packets are read.
ReadPackets ==
    /\ phase = "enter" /\ cursor <= Len(players)
    /\ ~Deleting(Current)
    /\ phase' = "packets"
    /\ UNCHANGED << players, player, slots, virtualHostPID, fakePlayerPID, settings,
                    countdown, exiting, cursor, settled, shown >>

\* The loop deletes the current player: because it is marked, or because its
\* connection timed out, was closed or failed.  A lost connection opens the slot
\* found by the player's PID, even when the player was marked before.
DeletePlayer ==
    /\ phase \in {"enter", "packets"} /\ cursor <= Len(players)
    /\ \E lost \in BOOLEAN :
        /\ lost \/ Deleting(Current)
        /\ slots' = IF lost THEN OpenSlotOf(player[Current].pid) ELSE slots
    /\ IF AlreadyAnnounced(Current)
       THEN UNCHANGED << shown, countDownStarted >>
       ELSE /\ shown' = shown \ {player[Current].pid}
            /\ AbortCountDown
    /\ player' = [player EXCEPT ![Current] = NoPlayer]
    /\ players' = RemoveAt(players, cursor)
    /\ phase' = "enter"
    /\ UNCHANGED << virtualHostPID, fakePlayerPID, settings, countDownCounter,
                    exiting, cursor, settled >>

KeepPlayer ==
    /\ phase = "packets" /\ ~Deleting(Current)
    /\ phase' = "enter" /\ cursor' = cursor + 1
    /\ UNCHANGED << players, player, slots, virtualHostPID, fakePlayerPID, settings,
                    countdown, exiting, settled, shown >>

EndOfPlayers ==
    /\ phase = "enter" /\ cursor > Len(players)
    /\ phase' = "potentials" /\ settled' = Len(players)
    /\ UNCHANGED << players, player, slots, virtualHostPID, fakePlayerPID, settings,
                    countdown, exiting, cursor, shown >>

-----------------------------------------------------------------------------
(* What the current player's packets do.                                   *)

\* SetDeleteMe and OpenSlot( GetSIDFromPID( PID ) ): how everybody but the host's
\* own joins removes a player from the lobby.
Kick(c) ==
    /\ player' = [player EXCEPT ![c].deleteMe = TRUE]
    /\ slots' = OpenSlotOf(player[c].pid)

NothingButSlots == UNCHANGED << players, player, virtualHostPID, fakePlayerPID, settings,
                                countdown, exiting, position, shown >>

\* The player says it leaves, or turns out to have neither the map nor a way to
\* get it, or is autokicked for its ping.
LeaveByPacket ==
    /\ phase = "packets"
    /\ Kick(Current)
    /\ UNCHANGED << players, virtualHostPID, fakePlayerPID, settings, countdown,
                    exiting, position, shown >>

\* EventPlayerMapSize: the player reports how much of the map it has.
MapSize ==
    /\ phase = "packets"
    /\ LET sid == SIDFromPID(slots, player[Current].pid)
       IN \E download \in DownloadStatus \ {255} :
            /\ download = 100 \/ AllowDownloads
            /\ sid # None
            /\ slots' = [slots EXCEPT ![sid].download = download]
    /\ NothingButSlots

\* EventPlayerChangeTeam of a map with custom forces: the player moves to an open
\* slot (of the team it asks for).
ChangeTeam ==
    /\ phase = "packets" /\ ~countDownStarted
    /\ LET sid == SIDFromPID(slots, player[Current].pid)
       IN \E new \in SlotsThatAre("open") :
            /\ sid # None
            /\ slots' = Swapped(sid, new)
    /\ NothingButSlots

-----------------------------------------------------------------------------
(* Admin commands: typed in the lobby by the current player, or sent to the *)
(* bot on battle.net, which is read after the game's update.                *)

RealmCommands == {"open", "close", "openall", "closeall", "hold", "swap", "sp",
                  "start", "startforce", "unhost"}

Issued(command) ==
    /\ command \in Commands
    /\ \/ /\ phase = "packets" /\ player[Current].spoofed
          /\ player[Current].name \in Admins \/ IsOwner(player[Current].name)
       \/ phase = "post" /\ command \in RealmCommands

\* !kick by an admin, or the last vote of a !votekick against another player.  The
\* vote starts against a player without reserved status, who may get it later.
KickCommand ==
    /\ \E c \in Live :
        /\ \/ Issued("kick")
           \/ phase = "packets" /\ "votekick" \in Commands /\ c # Current
        /\ Kick(c)
    /\ UNCHANGED << players, virtualHostPID, fakePlayerPID, settings, countdown,
                    exiting, position, shown >>

\* !open, !close and !comp kick whoever is in the slot and overwrite it.
SlotCommand(command, newSlot) ==
    /\ Issued(command)
    /\ \E sid \in SIDs :
        /\ player' = EvictedFrom(sid)
        /\ slots' = [slots EXCEPT ![sid] = newSlot]
    /\ UNCHANGED << players, virtualHostPID, fakePlayerPID, settings, countdown,
                    exiting, position, shown >>

OpenCommand     == SlotCommand("open", OpenedSlot)
CloseCommand    == SlotCommand("close", ClosedSlot)
ComputerCommand == SlotCommand("comp", ComputersSlot)

AllSlotsCommand(command, from, to) ==
    /\ Issued(command)
    /\ slots' = [i \in SIDs |-> IF slots[i].status = from
                               THEN [slots[i] EXCEPT !.status = to] ELSE slots[i]]
    /\ NothingButSlots

OpenAllCommand  == AllSlotsCommand("openall", "closed", "open")
CloseAllCommand == AllSlotsCommand("closeall", "open", "closed")

SwapCommand ==
    /\ Issued("swap")
    /\ \E i, j \in SIDs : slots' = Swapped(i, j)
    /\ NothingButSlots

\* !sp permutes the slots of players; a player among the observers stays.
ShuffleCommand ==
    /\ Issued("sp") /\ ~countDownStarted
    /\ \E moved \in SUBSET HumanSlots : \E p \in [moved -> moved] :
        /\ \A i, j \in moved : i # j => p[i] # p[j]
        /\ slots' = [i \in SIDs |-> IF i \in moved THEN slots[p[i]] ELSE slots[i]]
    /\ NothingButSlots

\* !hold, AddToReserved
HoldCommand ==
    /\ Issued("hold")
    /\ \E name \in Names \ reserved :
        /\ reserved' = reserved \cup {name}
        /\ player' = [c \in Conns |->
                        IF c \in Present /\ player[c].name = name
                        THEN [player[c] EXCEPT !.reserved = TRUE] ELSE player[c]]
    /\ UNCHANGED << players, slots, virtualHostPID, fakePlayerPID, owner, countdown,
                    exiting, position, shown >>

\* !owner; which admins may take the game from a present owner is left out.
OwnerCommand ==
    /\ Issued("owner")
    /\ \E name \in Names : owner' = name
    /\ UNCHANGED << players, player, slots, virtualHostPID, fakePlayerPID, reserved,
                    countdown, exiting, position, shown >>

CreateFakePlayer ==
    /\ Issued("fakeplayer") /\ ~countDownStarted /\ fakePlayerPID = None
    /\ EmptySlot # None
    /\ virtualHostPID' = HostMakingRoom(NumPlayersIn(player, None))
    /\ fakePlayerPID' = NewPID(player, virtualHostPID', None)
    /\ slots' = [slots EXCEPT ![EmptySlot] = PlayersSlot(fakePlayerPID', 100)]
    /\ shown' = (IF virtualHostPID' = None THEN shown \ {virtualHostPID} ELSE shown)
                  \cup {fakePlayerPID'}
    /\ UNCHANGED << players, player, settings, countdown, exiting, position >>

DeleteFakePlayer ==
    /\ Issued("fakeplayer") /\ ~countDownStarted /\ fakePlayerPID # None
    /\ slots' = [i \in SIDs |-> IF slots[i].pid = fakePlayerPID
                               THEN OpenedSlot ELSE slots[i]]
    /\ shown' = shown \ {fakePlayerPID}
    /\ fakePlayerPID' = None
    /\ UNCHANGED << players, player, virtualHostPID, settings, countdown, exiting,
                    position >>

\* !virtualhost deletes the virtual host player, who returns under the new name.
VirtualHostCommand ==
    /\ Issued("virtualhost") /\ ~countDownStarted
    /\ virtualHostPID' = None
    /\ shown' = shown \ {virtualHostPID}
    /\ UNCHANGED << players, player, slots, fakePlayerPID, settings, countdown,
                    exiting, position >>

UnhostCommand ==
    /\ Issued("unhost") /\ ~countDownStarted
    /\ exiting' = TRUE
    /\ UNCHANGED << players, player, slots, virtualHostPID, fakePlayerPID, settings,
                    countdown, position, shown >>

-----------------------------------------------------------------------------
(* The countdown.                                                          *)

\* (fault) one player who is spoof checked is enough, as in !startn
SomebodySpoofChecked == RequireSpoofChecks => \E c \in Present : player[c].spoofed
AllSpoofChecked == RequireSpoofChecks => \A c \in Present : player[c].spoofed
NobodyDownloads ==
    \A i \in HumanSlots : SeatedAt(i) = {} \/ slots[i].download = 100

\* (fault) a start during the countdown begins it anew
CountDownMayRestart(force) == AllSpoofChecked /\ (force \/ NobodyDownloads)
\* StartCountDown( true ) skips the checks but for the spoof checks; the checks
\* that depend on the time (pings, recent leavers) may also refuse a start.
CountDownMayStart(force) ==
    ~countDownStarted /\ AllSpoofChecked /\ (force \/ NobodyDownloads)

BeginCountDown ==
    /\ countDownStarted' = TRUE /\ countDownCounter' = CountDownFrom
    /\ UNCHANGED << players, player, slots, virtualHostPID, fakePlayerPID, settings,
                    exiting, shown >>

StartCommand ==
    /\ \E force \in BOOLEAN :
        /\ Issued(IF force THEN "startforce" ELSE "start")
        /\ CountDownMayStart(force)
    /\ phase = "post" => NumHumanPlayers > 0
    /\ BeginCountDown
    /\ UNCHANGED position

\* !startn: as !start force, but there is nothing left to count.  The counter is
\* cleared even when StartCountDown refused.
StartNowCommand ==
    /\ Issued("startn") /\ ~countDownStarted
    /\ countDownStarted' = CountDownMayStart(TRUE) /\ countDownCounter' = 0
    /\ UNCHANGED << players, player, slots, virtualHostPID, fakePlayerPID, settings,
                    exiting, position, shown >>

AbortCommand ==
    /\ Issued("abort") /\ countDownStarted
    /\ countDownStarted' = FALSE
    /\ UNCHANGED << players, player, slots, virtualHostPID, fakePlayerPID, settings,
                    countDownCounter, exiting, position, shown >>

Command ==
    \/ KickCommand \/ OpenCommand \/ CloseCommand \/ ComputerCommand
    \/ OpenAllCommand \/ CloseAllCommand \/ SwapCommand \/ ShuffleCommand
    \/ HoldCommand \/ OwnerCommand \/ CreateFakePlayer \/ DeleteFakePlayer
    \/ VirtualHostCommand \/ UnhostCommand
    \/ StartCommand \/ StartNowCommand \/ AbortCommand

-----------------------------------------------------------------------------
(* The rest of CBaseGame::Update.                                          *)

\* EventPlayerJoined.  Whoever holds the slot that the newcomer is given is marked
\* for deletion and announced as gone at once: the newcomer may get its PID.
Join(c, name, lan) ==
    LET sid  == SlotFor(name)
        out  == SeatedAt(sid)
        left == [d \in Conns |-> IF d \in out
                                 THEN [player[d] EXCEPT !.deleteMe = TRUE,
                                                        !.leftMessageSent = TRUE]
                                 ELSE player[d]]
        host == HostMakingRoom(NumPlayersIn(left, fakePlayerPID))
        pid  == NewPID(left, host, fakePlayerPID)
        gone == {player[d].pid : d \in out}
                  \cup (IF host = None THEN {virtualHostPID} ELSE {})
    IN  /\ phase = "potentials"
        /\ player[c] = NoPlayer
        /\ \A d \in Live : player[d].name # name
        /\ sid # None
        /\ virtualHostPID' = host
        /\ players' = Append(players, c)
        /\ player' = [left EXCEPT ![c] =
                [name |-> name, pid |-> pid, reserved |-> IsReserved(name),
                 spoofed |-> lan, deleteMe |-> FALSE, leftMessageSent |-> FALSE]]
        /\ slots' = [slots EXCEPT ![sid] = PlayersSlot(pid, 255)]
        /\ shown' = (shown \ gone) \cup {pid}
        /\ AbortCountDown
        /\ UNCHANGED << fakePlayerPID, settings, countDownCounter, exiting, position >>

\* The potential players are done; the virtual host player is created if there is
\* a PID left for it.
EndOfPotentials ==
    LET created == virtualHostPID = None
                     /\ NumPlayersIn(player, fakePlayerPID) < MaxPlayers
    IN  /\ phase = "potentials"
        /\ virtualHostPID' = IF created THEN NewPID(player, None, fakePlayerPID)
                             ELSE virtualHostPID
        /\ shown' = IF created THEN shown \cup {virtualHostPID'} ELSE shown
        /\ phase' = "spoofkick" /\ cursor' = 1
        /\ UNCHANGED << players, player, slots, fakePlayerPID, settings, countdown,
                        exiting, settled >>

\* Players who joined at least 60 seconds ago, a prefix of m_Players, are kicked
\* if they are not spoof checked.
KickUnspoofed ==
    /\ phase = "spoofkick"
    /\ \E k \in 0 .. settled :
        LET late == IF countDownStarted \/ ~RequireSpoofChecks THEN {}
                    ELSE {c \in Present : ~player[c].spoofed
                                            /\ \E i \in 1 .. k : players[i] = c}
        IN  /\ player' = [c \in Conns |->
                            IF c \in late THEN [player[c] EXCEPT !.deleteMe = TRUE]
                            ELSE player[c]]
            /\ slots' = [i \in SIDs |->
                            IF \E c \in late : i = SIDFromPID(slots, player[c].pid)
                            THEN OpenedSlot ELSE slots[i]]
    /\ phase' = "autostart" /\ settled' = 0
    /\ UNCHANGED << players, virtualHostPID, fakePlayerPID, settings, countdown,
                    exiting, cursor, shown >>

\* StartCountDownAuto, every 10 seconds
AutoStart ==
    /\ phase = "autostart" /\ AutoStartPlayers # 0
    /\ NumHumanPlayers >= AutoStartPlayers /\ CountDownMayStart(FALSE)
    /\ BeginCountDown
    /\ phase' = "countdown"
    /\ UNCHANGED << cursor, settled >>

NoAutoStart ==
    /\ phase = "autostart"
    /\ phase' = "countdown"
    /\ UNCHANGED << players, player, slots, virtualHostPID, fakePlayerPID, settings,
                    countdown, exiting, cursor, settled, shown >>

\* The end of the update: the lobby is closed when it was unhosted, or when its
\* time limit is hit and no reserved player is there; otherwise it goes on.
Close ==
    \/ exiting
    \/ /\ LobbyTimeLimit /\ AutoStartPlayers = 0
       /\ \A c \in Present : ~player[c].reserved
EndOfUpdate ==
    \/ Close /\ phase' = "closed"
    \/ ~exiting /\ phase' = "post"

\* A tick of the countdown, every 500 ms
CountDown ==
    /\ phase = "countdown" /\ countDownStarted /\ countDownCounter > 0
    /\ countDownCounter' = countDownCounter - 1
    /\ EndOfUpdate
    /\ UNCHANGED << players, player, slots, virtualHostPID, fakePlayerPID, settings,
                    countDownStarted, exiting, cursor, settled, shown >>

NoCountDown ==
    /\ phase = "countdown"
    /\ EndOfUpdate
    /\ UNCHANGED << players, player, slots, virtualHostPID, fakePlayerPID, settings,
                    countdown, exiting, cursor, settled, shown >>

EventGameStarted ==
    /\ phase = "countdown" /\ countDownStarted /\ countDownCounter = 0
    /\ virtualHostPID' = None /\ shown' = shown \ {virtualHostPID}
    /\ phase' = "started"
    /\ UNCHANGED << players, player, slots, fakePlayerPID, settings, countdown,
                    exiting, cursor, settled >>

\* Battle.net confirms that a player is who it says it is.
AddToSpoofed ==
    /\ phase = "post"
    /\ \E c \in Live :
        /\ ~player[c].spoofed
        /\ player' = [player EXCEPT ![c].spoofed = TRUE]
    /\ UNCHANGED << players, slots, virtualHostPID, fakePlayerPID, settings, countdown,
                    exiting, position, shown >>

NextUpdate ==
    /\ phase = "post"
    /\ phase' = "enter"
    /\ UNCHANGED << players, player, slots, virtualHostPID, fakePlayerPID, settings,
                    countdown, exiting, cursor, settled, shown >>

\* The lobby is over; the game goes on elsewhere.
Over == phase \in {"started", "closed"} /\ UNCHANGED vars

Next ==
    \/ ReadPackets \/ DeletePlayer \/ KeepPlayer \/ EndOfPlayers
    \/ LeaveByPacket \/ MapSize \/ ChangeTeam \/ Command
    \/ \E c \in Conns, name \in Names, lan \in BOOLEAN : Join(c, name, lan)
    \/ EndOfPotentials \/ KickUnspoofed \/ AutoStart \/ NoAutoStart
    \/ CountDown \/ NoCountDown \/ EventGameStarted
    \/ AddToSpoofed \/ NextUpdate \/ Over

Spec == Init /\ [][Next]_vars

-----------------------------------------------------------------------------
(* Correctness.                                                            *)

\* Every client knows the others by PID (GetNewPID, game_base.cpp): no two of the
\* players that count, the virtual host and the fake player share one.
PIDsUnique ==
    /\ \A c, d \in Live : c # d => player[c].pid # player[d].pid
    /\ \A c \in Live : player[c].pid \notin {virtualHostPID, fakePlayerPID}
    /\ virtualHostPID = None \/ virtualHostPID # fakePlayerPID

\* What the clients were told, by PLAYERINFO and PLAYERLEAVE_OTHERS messages, is
\* who is in the game: whatever the order of kicks, displacements, joins and
\* deletions, nobody is announced twice, withdrawn too late or withdrawn in the
\* place of a newcomer that has the same PID.
ShownAccurate ==
    shown = {player[c].pid : c \in Live} \cup ({virtualHostPID, fakePlayerPID} \ {None})

\* The clients' view of the lobby: everybody in it is known to them by a PID of its own,
\* and nobody else is (EventPlayerJoined, EventPlayerDeleted, GetNewPID).
ClientsViewOK == TypeOK /\ PIDsUnique /\ ShownAccurate

\* A human player's slot belongs to the fake player or to a player who is staying:
\* nobody waits in front of a slot held for a player who is already marked.
SlotsBacked ==
    \A i \in HumanSlots :
        \/ slots[i].pid = fakePlayerPID
        \/ \E c \in SeatedAt(i) : ~player[c].deleteMe

\* No player is seated twice, whatever swaps, displacements and kicks did.
SeatedOnce ==
    \A i, j \in HumanSlots : i # j => slots[i].pid # slots[j].pid

\* A player who is not being removed has a slot (EventPlayerJoined gives it one, and
\* only its departure opens it).
Seated ==
    \A c \in Live : ~player[c].deleteMe => \E i \in HumanSlots : c \in SeatedAt(i)

\* Slots and players stay matched, whatever commands, joins and departures do: commands
\* rewrite slots of players who are in the middle of joining or being removed.
SlotsMatchPlayers == PIDsUnique /\ SlotsBacked /\ SeatedOnce /\ Seated

\* When spoof checks are required, no player who is not spoof checked is in a lobby
\* that is counting down or in a game that started: the check is made once, by
\* StartCountDown, and later joins must abort the countdown.
OnlySpoofCheckedStart ==
    RequireSpoofChecks /\ (countDownStarted \/ phase = "started") => \A c \in Present : player[c].spoofed

\* While it counts down the lobby keeps its players: whoever joins or leaves aborts
\* the countdown, so the game starts with the players it was started for.
LobbyFrozen ==
    [][Live' # Live => ~countDownStarted']_vars

\* A player with reserved status loses its place to another player only if that
\* one is the owner (GetEmptySlot( true ), EventPlayerJoined).
OnlyOwnerDisplacesReserved ==
    [][\A c \in Live :
        player[c].reserved /\ player'[c] # NoPlayer /\ player'[c].leftMessageSent
          => \E d \in Conns : /\ player[d] = NoPlayer /\ player'[d] # NoPlayer
                             /\ player'[d].name = owner]_vars

\* The loop goes on: everything but the arrival of packets, players and commands.
Loop ==
    \/ ReadPackets \/ DeletePlayer \/ KeepPlayer \/ EndOfPlayers \/ EndOfPotentials
    \/ KickUnspoofed \/ NoAutoStart \/ NoCountDown \/ NextUpdate

\* CGHost::Update runs forever, a batch of packets is finite, and a countdown that
\* lasts has its ticks: the timer is due again after at most 500 ms.
Fairness == WF_vars(Loop) /\ SF_vars(CountDown) /\ SF_vars(EventGameStarted)
FairSpec == Spec /\ Fairness

\* A player who is marked for deletion is deleted, unless the lobby ends before.
MarkedAreDeleted ==
    \A c \in Conns :
        (player[c] # NoPlayer /\ player[c].deleteMe)
            ~> (player[c] = NoPlayer \/ phase \in {"started", "closed"})

\* A countdown comes to its end or is aborted.
CountDownEnds == countDownStarted ~> (~countDownStarted \/ phase \in {"started", "closed"})

=============================================================================
