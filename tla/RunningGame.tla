----------------------------- MODULE RunningGame -----------------------------
(***************************************************************************)
(* A game that is loaded, as CBaseGame::Update runs it (game_base.cpp):    *)
(* the actions it sends, the keepalives its players answer with, the lag   *)
(* screen, the comparison of checksums, departures, and how the game ends. *)
(*                                                                         *)
(* One update of the main loop goes through the phases                     *)
(*   players, packets  the loop over m_Players, in which packets are read, *)
(*   lag               the countdown of !end, then the lag screen,         *)
(*   actions           SendAllActions,                                     *)
(*   over              the gameover timer and the end of the game,         *)
(*   post              the battle.net connections.                         *)
(* Warcraft III is the environment: it answers every action with a         *)
(* keepalive that holds a checksum of its world, which may diverge.        *)
(***************************************************************************)
EXTENDS Integers, Sequences, FiniteSets

CONSTANTS NumPlayers,    \* the players who loaded the game, in the order of m_Players
          GProxyPlayers, \* those who may lose their connection and stay
          Worlds,        \* what a player's checksum may be; 0 is the true one
          SyncLimit,
          Width,         \* sync counters are counted modulo Width, 2^32 in the code
          AutoSave,
          AutoEndPercentage, \* 0 when the game does not end itself
          HasStats,      \* statistics may report the end of the game
          Commands,      \* the admin commands that are used
          NoPlayer

Players == 1 .. NumPlayers
ASSUME PlayersAssumption == NumPlayers \in Nat \ {0} /\ GProxyPlayers \subseteq Players
ASSUME WorldsAssumption == 0 \in Worlds
ASSUME LimitAssumption == SyncLimit \in Nat /\ Width \in Nat /\
                             SyncLimit + 1 + (IF AutoSave THEN NumPlayers ELSE 0) < Width
ASSUME OptionsAssumption ==
    {AutoSave, HasStats} \subseteq BOOLEAN /\ AutoEndPercentage \in 0 .. 70

VARIABLES
    player,         \* the CGamePlayer objects of m_Players, and the clients' worlds
    syncCounter,    \* m_SyncCounter
    lagScreen,      \* m_Lagging
    shown,          \* the players on the clients' lag screens
    endCountDown,   \* m_GameEndCountDownStarted
    autoEnd, autoEnded,
    gameOver,       \* m_GameOverTime is set
    saving,
    phase, next     \* where the update is, and the player whose turn it is

ending == << endCountDown, autoEnd, autoEnded, gameOver, saving >>
vars == << player, syncCounter, lagScreen, shown, ending, phase, next >>

Counters == 0 .. Width - 1
\* m_DeleteMe with m_LeftCode: PLAYERLEAVE_LOST or PLAYERLEAVE_DISCONNECT
Leaving == {"no", "lost", "disconnect"}
Player == [sync : Counters, checkSums : Seq(Worlds), world : Worlds,
           lagging : BOOLEAN, dropVote : BOOLEAN, leaving : Leaving]
ASSUME NoPlayerAssumption == NoPlayer \notin Player
Phases == {"players", "packets", "lag", "actions", "over", "post", "closed"}

TypeOK ==
    /\ player \in [Players -> Player \cup {NoPlayer}]
    /\ syncCounter \in Counters
    /\ lagScreen \in BOOLEAN /\ shown \subseteq Players
    /\ endCountDown \in BOOLEAN /\ autoEnd \in BOOLEAN /\ autoEnded \in BOOLEAN
    /\ gameOver \in BOOLEAN /\ saving \in BOOLEAN
    /\ phase \in Phases /\ next \in 1 .. NumPlayers + 1

Present == {p \in Players : player[p] # NoPlayer}
Staying == {p \in Present : player[p].leaving = "no"}
Laggers == {p \in Present : player[p].lagging}

\* How many actions a player has not answered yet, in the arithmetic of uint32_t
Behind(p) == (syncCounter - player[p].sync) % Width

Marked(who, code) ==
    [p \in Players |-> IF p \in who THEN [player[p] EXCEPT !.leaving = code] ELSE player[p]]
StopPlayers == Marked(Present, "lost")
StopLaggers == Marked(Laggers, "disconnect")

\* The first player from p on, in a set of its own, or the end of m_Players
NextPresent(p) ==
    {q \in p .. NumPlayers + 1 : /\ q \in Present \cup {NumPlayers + 1}
                                 /\ \A r \in p .. q - 1 : r \notin Present}
Turn(p) ==
    /\ next' \in NextPresent(p)
    /\ phase' = IF next' > NumPlayers THEN "lag" ELSE "players"

Init ==
    /\ player = [p \in Players |-> [sync |-> 0, checkSums |-> << >>, world |-> 0,
                    lagging |-> FALSE, dropVote |-> FALSE, leaving |-> "no"]]
    /\ syncCounter = 0 /\ lagScreen = FALSE /\ shown = {}
    /\ endCountDown = FALSE /\ autoEnded = FALSE /\ gameOver = FALSE /\ saving = FALSE
    /\ autoEnd = (AutoEndPercentage > 0)
    /\ phase = "players" /\ next = 1

-----------------------------------------------------------------------------
(* The loop over m_Players.                                                *)

\* A player who was marked before its turn has no packets read.
ReadPackets ==
    /\ phase = "players" /\ player[next].leaving = "no"
    /\ phase' = "packets"
    /\ UNCHANGED << player, syncCounter, lagScreen, shown, ending, next >>

KeepPlayer ==
    /\ phase = "packets" /\ player[next].leaving = "no"
    /\ Turn(next + 1)
    /\ UNCHANGED << player, syncCounter, lagScreen, shown, ending >>

NextCounter == (syncCounter + 1) % Width

\* (fault) the player who leaves stays on the lag screens
StillShown(p) == shown
\* STOP_LAG is sent for a lagging player who leaves.
NoLongerShown(p) == IF player[p].lagging THEN shown \ {p} ELSE shown

\* CGamePlayer::Update returns TRUE: the player was marked, or its connection is lost
\* and it cannot reconnect.  With autosave a disconnection makes everybody save the game,
\* and SendAllActions sends that at once.
DeletePlayer ==
    /\ \/ phase = "players" /\ player[next].leaving # "no"
       \/ phase = "packets"
    /\ \E code \in {player[next].leaving}
                     \cup (IF next \in GProxyPlayers THEN {} ELSE {"disconnect"}) :
        /\ code # "no"
        /\ syncCounter' = IF AutoSave /\ code = "disconnect" THEN NextCounter ELSE syncCounter
    /\ player' = [player EXCEPT ![next] = NoPlayer]
    /\ shown' = NoLongerShown(next)
    /\ Turn(next + 1)
    /\ UNCHANGED << lagScreen, ending >>

\* EventPlayerLeft
LeaveGame ==
    /\ phase = "packets"
    /\ player' = [player EXCEPT ![next].leaving = "lost"]
    /\ UNCHANGED << syncCounter, lagScreen, shown, ending, phase, next >>

\* (environment) the player's Warcraft III computes something else from now on
Diverge ==
    /\ phase = "packets" /\ player[next].world = 0
    /\ \E w \in Worlds : player' = [player EXCEPT ![next].world = w]
    /\ UNCHANGED << syncCounter, lagScreen, shown, ending, phase, next >>

\* CGame::EventPlayerAction: the statistics recognize the end of the game.
ReportGameOver ==
    /\ phase = "packets" /\ HasStats /\ ~gameOver
    /\ gameOver' = TRUE
    /\ UNCHANGED << player, syncCounter, lagScreen, shown, endCountDown, autoEnd,
                    autoEnded, saving, phase, next >>

-----------------------------------------------------------------------------
(* Desync detection: CBaseGame::EventPlayerKeepAlive.                      *)

Bin(sums, w) == {p \in Staying : Head(sums[p]) = w}
LargerThan(sums, v, w) == Cardinality(Bin(sums, v)) > Cardinality(Bin(sums, w))

\* Every player who stays has a checksum waiting.
AllReported(sums) == Staying # {} /\ \A p \in Staying : sums[p] # << >>

\* (fault) the comparison is the wrong way round
SmallestBins(sums) ==
    {v \in Worlds : Bin(sums, v) # {} /\ \A w \in Worlds :
                        LargerThan(sums, v, w) => Bin(sums, w) = {}}
\* The worlds that no other one outnumbers; there are several when there is a tie.
LargestBins(sums) == {v \in Worlds : \A w \in Worlds : ~LargerThan(sums, w, v)}

\* (fault) nobody is removed
NobodyDesynced(sums) == {}
\* When checksums differ, the players outside the largest bin are removed, and when there
\* is a tie all of them.
Desynced(sums) ==
    IF \E p, q \in Staying : Head(sums[p]) # Head(sums[q])
    THEN IF Cardinality(LargestBins(sums)) = 1
         THEN {p \in Staying : Head(sums[p]) \notin LargestBins(sums)}
         ELSE Present
    ELSE {}

\* (fault) only the sender's checksum is taken from its queue
OnlySenderCompared(kicked) == {next}
\* The players whose first checksum was compared; those removed are not asked again.
Compared(kicked) == Staying \ kicked

KeepAlive ==
    LET sums == [p \in Present |-> IF p = next THEN Append(player[p].checkSums, player[p].world)
                                   ELSE player[p].checkSums]
        kicked == IF AllReported(sums) THEN Desynced(sums) ELSE {}
        compared == IF AllReported(sums) THEN Compared(kicked) ELSE {}
    IN  /\ phase = "packets" /\ Behind(next) > 0
        /\ player' = [p \in Players |->
             IF p \notin Present THEN NoPlayer
             ELSE [player[p] EXCEPT
                    !.sync = IF p = next THEN (@ + 1) % Width ELSE @,
                    !.leaving = IF p \in kicked THEN "lost" ELSE @,
                    !.checkSums = IF p \in compared /\ sums[p] # << >> THEN Tail(sums[p])
                                  ELSE sums[p]]]
        /\ UNCHANGED << syncCounter, lagScreen, shown, ending, phase, next >>

-----------------------------------------------------------------------------
(* The lag screen.                                                         *)

\* EventPlayerDropRequest: at least half of the players want to drop the laggers.  The
\* code compares a float with 0.49.
DropRequest ==
    LET voted == [player EXCEPT ![next].dropVote = TRUE]
        votes == Cardinality({p \in Present : voted[p].dropVote})
        dropped == IF lagScreen /\ 100 * votes > 49 * Cardinality(Present)
                   THEN Laggers ELSE {}
    IN  /\ phase = "packets" /\ ~player[next].dropVote
        /\ player' = [p \in Players |-> IF p \in dropped
                        THEN [voted[p] EXCEPT !.leaving = "disconnect"] ELSE voted[p]]
        /\ UNCHANGED << syncCounter, lagScreen, shown, ending, phase, next >>

Late(p) == Behind(p) > SyncLimit

CaughtUp(p) == Behind(p) < SyncLimit \div 2

NobodyLags ==
    /\ phase = "lag" /\ ~lagScreen /\ \A p \in Present : ~Late(p)
    /\ phase' = "actions"
    /\ UNCHANGED << player, syncCounter, lagScreen, shown, ending, next >>

\* The lag screen starts for everybody who is late; earlier votes are forgotten.
StartLagging ==
    LET late == {p \in Present : Late(p)}
    IN  /\ phase = "lag" /\ ~lagScreen /\ late # {}
        /\ player' = [p \in Players |-> IF p \notin Present THEN NoPlayer
                        ELSE [player[p] EXCEPT !.lagging = @ \/ p \in late, !.dropVote = FALSE]]
        /\ lagScreen' = TRUE /\ shown' = shown \cup late
        /\ phase' = "actions"
        /\ UNCHANGED << syncCounter, ending, next >>

\* (fault) the lag screen ends only with a player who catches up
SomebodyReleased(back) == back = {} \/ Laggers \ back # {}
SomebodyLags(back) == Laggers \ back # {}

\* Players who have caught up are taken from the lag screen, which ends with the last one.
Released(players) ==
    LET back == {p \in Laggers : CaughtUp(p)}
    IN  /\ player' = [p \in Players |-> IF p \in back
                        THEN [players[p] EXCEPT !.lagging = FALSE] ELSE players[p]]
        /\ shown' = shown \ back
        /\ lagScreen' = SomebodyLags(back)
        /\ phase' = "actions"
        /\ UNCHANGED << syncCounter, ending, next >>

LagGoesOn == phase = "lag" /\ lagScreen /\ Released(player)

\* The lag screen was up for 60 seconds, longer when somebody uses GProxy++.
WaitTimeOver == phase = "lag" /\ lagScreen /\ Released(StopLaggers)

\* Actions are sent every m_Latency milliseconds.
SendAllActions ==
    /\ phase = "actions" /\ ~lagScreen
    /\ syncCounter' = NextCounter
    /\ phase' = "over"
    /\ UNCHANGED << player, lagScreen, shown, ending, next >>

NotYetDue ==
    /\ phase = "actions"
    /\ phase' = "over"
    /\ UNCHANGED << player, syncCounter, lagScreen, shown, ending, next >>

-----------------------------------------------------------------------------
(* The end of the game.                                                    *)

Command(name) ==
    /\ phase = "packets" /\ name \in Commands
    /\ UNCHANGED << syncCounter, lagScreen, shown, saving, phase, next >>
Drop ==
    /\ Command("drop") /\ player' = StopLaggers
    /\ UNCHANGED << endCountDown, autoEnd, autoEnded, gameOver >>
EndNow ==
    /\ Command("endn") /\ ~gameOver /\ player' = StopPlayers
    /\ UNCHANGED << endCountDown, autoEnd, autoEnded, gameOver >>
End ==
    /\ Command("end") /\ ~endCountDown /\ ~gameOver /\ endCountDown' = TRUE
    /\ UNCHANGED << player, autoEnd, autoEnded, gameOver >>
Abort ==
    /\ Command("abort") /\ endCountDown /\ endCountDown' = FALSE
    /\ autoEnd' = (autoEnd /\ ~autoEnded) /\ autoEnded' = FALSE
    /\ UNCHANGED << player, gameOver >>

\* !end on battle.net asks nothing of the game.
EndFromBattleNet ==
    /\ phase = "post" /\ "end" \in Commands
    /\ endCountDown' = TRUE
    /\ UNCHANGED << player, syncCounter, lagScreen, shown, autoEnd, autoEnded, gameOver,
                    saving, phase, next >>

\* The last tick of the countdown
EndCountDownOver ==
    /\ phase = "lag" /\ endCountDown
    /\ endCountDown' = FALSE
    /\ player' = StopPlayers
    /\ UNCHANGED << syncCounter, lagScreen, shown, autoEnd, autoEnded, gameOver, saving,
                    phase, next >>

\* (fault) the gameover timer waits for the last player to leave
NobodyLeft == Present = {}
OnePlayerLeft == Cardinality(Present) = 1

FewPlayersLeft ==
    /\ Present # {} /\ ~endCountDown /\ autoEnd /\ ~autoEnded
    /\ (100 * Cardinality(Present)) \div NumPlayers <= AutoEndPercentage

\* The gameover timer, 15 seconds after it was started
GameOverTimer ==
    /\ phase = "over" /\ gameOver /\ Staying # {}
    /\ player' = StopPlayers
    /\ UNCHANGED << syncCounter, lagScreen, shown, ending, phase, next >>

EndOfUpdate ==
    /\ phase = "over"
    /\ gameOver' = (gameOver \/ OnePlayerLeft)
    /\ autoEnded' = (autoEnded \/ (~gameOver' /\ FewPlayersLeft))
    /\ endCountDown' = (endCountDown \/ (~gameOver' /\ FewPlayersLeft))
    /\ saving' = (Present = {})
    /\ phase' = "post"
    /\ UNCHANGED << player, syncCounter, lagScreen, shown, autoEnd, next >>

\* The game is deleted once its data was saved.
GameDataSaved ==
    /\ phase = "over" /\ Present = {} /\ saving
    /\ phase' = "closed"
    /\ UNCHANGED << player, syncCounter, lagScreen, shown, ending, next >>

NextUpdate ==
    /\ phase = "post"
    /\ Turn(1)
    /\ UNCHANGED << player, syncCounter, lagScreen, shown, ending >>

-----------------------------------------------------------------------------
Packet ==
    \/ LeaveGame \/ Diverge \/ ReportGameOver \/ KeepAlive \/ DropRequest
    \/ Drop \/ EndNow \/ End \/ Abort

\* Everything but packets, commands, lost connections and timers
Loop ==
    \/ ReadPackets \/ KeepPlayer \/ (DeletePlayer /\ player[next].leaving # "no")
    \/ NobodyLags \/ StartLagging \/ LagGoesOn \/ NotYetDue \/ EndOfUpdate \/ NextUpdate

Timer ==
    \/ WaitTimeOver \/ SendAllActions \/ EndCountDownOver \/ GameOverTimer \/ GameDataSaved

Next == Loop \/ Timer \/ Packet \/ DeletePlayer \/ EndFromBattleNet

Spec == Init /\ [][Next]_vars

-----------------------------------------------------------------------------
(* Correctness.                                                            *)

\* The lag screens list exactly the players who lag, whoever left meanwhile, and the game
\* sends actions exactly when they are empty.
LagScreenAccurate ==
    /\ shown = Laggers
    /\ phase = "actions" => (lagScreen <=> Laggers # {})

\* No player is more than one action beyond the sync limit behind, not even while others
\* keep the lag screen up, so the counters' difference cannot wrap.
BoundedLag ==
    \A p \in Present :
        Behind(p) <= SyncLimit + 1 + (IF AutoSave THEN NumPlayers - Cardinality(Present) ELSE 0)

\* The lag screen does what it is for: it shows who lags, and bounds the lag.
LagOK == LagScreenAccurate /\ BoundedLag

\* The checksums compared with each other belong to the same action: as many actions are
\* unanswered or waiting to be compared for each player who stays.
FramesAligned ==
    \A p, q \in Staying :
        Behind(p) + Len(player[p].checkSums) = Behind(q) + Len(player[q].checkSums)

\* As long as most players who stay have never diverged, none of those is removed because
\* of a desync (EventPlayerKeepAlive lets the players vote).
MajorityStays ==
    [][KeepAlive =>
        LET loyal == {p \in Staying : player[p].world = 0}
        IN  2 * Cardinality(loyal) > Cardinality(Staying)
              => \A p \in loyal : player'[p].leaving = "no"]_vars

\* CGHost::Update runs forever; a batch of packets is finite; actions become due, as does
\* the gameover timer, and the database answers; a lag screen that stays is ended after a
\* while.  Nothing is assumed about players and commands.
Fairness ==
    /\ WF_vars(Loop) /\ SF_vars(SendAllActions) /\ SF_vars(GameOverTimer)
    /\ SF_vars(GameDataSaved)
    /\ (<>[](lagScreen /\ phase # "closed") => []<><<WaitTimeOver>>_vars)
FairSpec == Spec /\ Fairness

\* A lag screen ends: its players catch up, leave or are dropped.
LagEnds == lagScreen ~> ~lagScreen

\* In the end everybody who is left sees the same world, whoever diverged and whenever.
WorldsConverge == <>[](\A p, q \in Present : player[p].world = player[q].world)

\* A game that only one player, or none, is left in comes to its end and is saved.
GameEnds == Cardinality(Present) <= 1 ~> phase = "closed"
=============================================================================
