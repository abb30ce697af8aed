-------------------------- MODULE RunningGame_proofs --------------------------
(***************************************************************************)
(* Proofs about a running game, for any number of players, any sync limit  *)
(* and any counters that are wide enough: type correctness, the accuracy   *)
(* of the lag screen, the bound on how far players are behind, and the     *)
(* alignment of the checksums that are compared.                           *)
(***************************************************************************)
EXTENDS RunningGame, VoteKick, FiniteSetTheorems, SequenceTheorems, TLAPS

-----------------------------------------------------------------------------
(* Players and the loop over them.                                         *)

\* While packets are read, the player whose turn it is exists.
LoopOK == phase \in {"players", "packets"} => next \in Present

\* A player who is present is a record of a player.
LEMMA PresentTyped ==
    ASSUME TypeOK, NEW p \in Present
    PROVE  player[p] \in Player /\ p \in Players
BY DEF TypeOK, Present

\* The loop over m_Players goes on to a player who is present, or to its end.
LEMMA TurnTyped ==
    ASSUME TypeOK, NEW p \in 1 .. NumPlayers + 1, Turn(p)
    PROVE  /\ next' \in 1 .. NumPlayers + 1 /\ next' >= p
           /\ phase' \in Phases
           /\ phase' \in {"players", "packets"} => next' \in Present
<1>1. NumPlayers \in Nat
  BY PlayersAssumption
<1>2. next' \in p .. NumPlayers + 1 /\ next' \in Present \cup {NumPlayers + 1}
  BY DEF Turn, NextPresent
<1>3. phase' = IF next' > NumPlayers THEN "lag" ELSE "players"
  BY DEF Turn
<1> QED BY <1>1, <1>2, <1>3 DEF Phases

\* Marking players keeps the table of players typed.
LEMMA MarkedTyped ==
    ASSUME TypeOK, NEW who \in SUBSET Present, NEW code \in Leaving
    PROVE  Marked(who, code) \in [Players -> Player \cup {NoPlayer}]
<1>1. ASSUME NEW p \in who PROVE [player[p] EXCEPT !.leaving = code] \in Player
  BY PresentTyped DEF Player
<1> QED BY <1>1 DEF Marked, TypeOK

\* So does removing all players, or all who lag.
LEMMA StopTyped ==
    ASSUME TypeOK
    PROVE  /\ StopPlayers \in [Players -> Player \cup {NoPlayer}]
           /\ StopLaggers \in [Players -> Player \cup {NoPlayer}]
BY MarkedTyped DEF StopPlayers, StopLaggers, Laggers, Leaving

\* The first state has its types, and no turn is on.
LEMMA InitTyped == Init => TypeOK /\ LoopOK
<1> SUFFICES ASSUME Init PROVE TypeOK /\ LoopOK
  OBVIOUS
<1>1. 0 \in Counters /\ NumPlayers \in Nat \ {0}
  BY LimitAssumption, PlayersAssumption, OptionsAssumption DEF Counters
<1>2. << >> \in Seq(Worlds) /\ 0 \in Worlds
  BY WorldsAssumption
<1>3. \A p \in Players : player[p] \in Player
  BY <1>1, <1>2 DEF Init, Player, Leaving
<1>4. player \in [Players -> Player \cup {NoPlayer}]
  BY <1>3 DEF Init
<1>5. 1 \in Present
  BY <1>1, <1>3, NoPlayerAssumption DEF Present, Players
<1>6. autoEnd \in BOOLEAN
  BY OptionsAssumption DEF Init
<1>7. next \in 1 .. NumPlayers + 1 /\ phase \in Phases
  BY <1>1 DEF Init, Phases
<1>8. LoopOK
  BY <1>5 DEF LoopOK, Init
<1> QED BY <1>1, <1>4, <1>6, <1>7, <1>8 DEF Init, TypeOK

\* A keepalive changes a player's counter, its checksums and whether it leaves, nothing
\* else.
LEMMA AnswerTyped ==
    ASSUME TypeOK, KeepAlive, NEW p \in Present
    PROVE  \E leaving \in Leaving, checkSums \in Seq(Worlds) :
             player'[p] = [player[p] EXCEPT
                             !.sync = IF p = next THEN (@ + 1) % Width ELSE @,
                             !.leaving = leaving, !.checkSums = checkSums]
<1> DEFINE sums == [q \in Present |-> IF q = next
                      THEN Append(player[q].checkSums, player[q].world)
                      ELSE player[q].checkSums]
           kicked == IF AllReported(sums) THEN Desynced(sums) ELSE {}
           compared == IF AllReported(sums) THEN Compared(kicked) ELSE {}
           leaving == IF p \in kicked THEN "lost" ELSE player[p].leaving
           checkSums == IF p \in compared /\ sums[p] # << >> THEN Tail(sums[p]) ELSE sums[p]
<1>1. player[p] \in Player /\ sums[p] \in Seq(Worlds)
  BY PresentTyped DEF Player
<1>2. player'[p] = [player[p] EXCEPT !.sync = IF p = next THEN (@ + 1) % Width ELSE @,
                                     !.leaving = leaving, !.checkSums = checkSums]
  BY PresentTyped DEF KeepAlive
<1> HIDE DEF sums, kicked, compared
<1>3. leaving \in Leaving /\ checkSums \in Seq(Worlds)
  BY <1>1 DEF Player, Leaving
<1> QED BY <1>2, <1>3

\* Every action keeps the types and the loop's place in m_Players.
LEMMA StepTyped == TypeOK /\ LoopOK /\ [Next]_vars => TypeOK' /\ LoopOK'
<1> SUFFICES ASSUME TypeOK, LoopOK, [Next]_vars
             PROVE  TypeOK' /\ LoopOK'
  OBVIOUS
<1>1. NumPlayers \in Nat \ {0} /\ Width \in Nat \ {0}
  BY PlayersAssumption, LimitAssumption, OptionsAssumption
<1>2. NextCounter \in Counters
  BY <1>1 DEF TypeOK, NextCounter, Counters
<1>3. CASE ReadPackets
  BY <1>3 DEF ReadPackets, TypeOK, LoopOK, ending, Present, Phases
<1>4. CASE KeepPlayer
  <2>1. next \in Present /\ next + 1 \in 1 .. NumPlayers + 1
    BY <1>1, <1>4 DEF KeepPlayer, LoopOK, TypeOK, Present, Players
  <2>2. /\ next' \in 1 .. NumPlayers + 1 /\ phase' \in Phases
        /\ phase' \in {"players", "packets"} => next' \in Present
    BY <1>4, <2>1, TurnTyped DEF KeepPlayer
  <2>3. LoopOK'
    BY <1>4, <2>2 DEF KeepPlayer, LoopOK, Present
  <2> QED BY <1>4, <2>2, <2>3 DEF KeepPlayer, TypeOK, ending
<1>5. CASE DeletePlayer
  <2>1. next \in Present /\ next \in Nat /\ next + 1 \in 1 .. NumPlayers + 1
    BY <1>1, <1>5 DEF DeletePlayer, LoopOK, TypeOK, Present, Players
  <2>2. /\ next' \in 1 .. NumPlayers + 1 /\ phase' \in Phases /\ next' > next
        /\ phase' \in {"players", "packets"} => next' \in Present
    <3>1. Turn(next + 1)
      BY <1>5 DEF DeletePlayer
    <3>2. next' \in 1 .. NumPlayers + 1 /\ next' >= next + 1
      BY <2>1, <3>1, TurnTyped
    <3>3. next' > next
      BY <1>1, <2>1, <3>2
    <3> QED BY <2>1, <3>1, <3>2, <3>3, TurnTyped
  <2>3. player' = [player EXCEPT ![next] = NoPlayer] /\ syncCounter' \in Counters
    BY <1>2, <1>5 DEF DeletePlayer, TypeOK
  <2>4. shown' \subseteq Players
    BY <1>5 DEF DeletePlayer, NoLongerShown, TypeOK
  <2>5. player' \in [Players -> Player \cup {NoPlayer}]
    BY <2>3 DEF TypeOK
  <2>6. LoopOK'
    <3>1. SUFFICES ASSUME phase' \in {"players", "packets"} PROVE next' \in Present'
      BY DEF LoopOK
    <3>2. next' \in Present /\ next' # next
      BY <1>1, <2>1, <2>2, <3>1
    <3> QED BY <2>3, <3>2 DEF Present, TypeOK
  <2> QED BY <1>5, <2>2, <2>3, <2>4, <2>5, <2>6 DEF DeletePlayer, TypeOK, ending
<1>6. CASE LeaveGame
  <2>1. next \in Present /\ player[next] \in Player
    BY <1>6, PresentTyped DEF LeaveGame, LoopOK
  <2>2. [player[next] EXCEPT !.leaving = "lost"] \in Player
    BY <2>1 DEF Player, Leaving
  <2>3. player' = [player EXCEPT ![next] = [player[next] EXCEPT !.leaving = "lost"]]
    BY <1>6 DEF LeaveGame
  <2> QED BY <1>6, <2>1, <2>2, <2>3, NoPlayerAssumption
          DEF LeaveGame, TypeOK, LoopOK, ending, Present
<1>7. CASE Diverge
  <2>1. next \in Present /\ player[next] \in Player
    BY <1>7, PresentTyped DEF Diverge, LoopOK
  <2>2. PICK w \in Worlds : player' = [player EXCEPT ![next] = [player[next] EXCEPT !.world = w]]
    BY <1>7 DEF Diverge
  <2>3. [player[next] EXCEPT !.world = w] \in Player
    BY <2>1, <2>2 DEF Player
  <2> QED BY <1>7, <2>1, <2>2, <2>3, NoPlayerAssumption
          DEF Diverge, TypeOK, LoopOK, ending, Present
<1>8. CASE ReportGameOver
  BY <1>8 DEF ReportGameOver, TypeOK, LoopOK, ending, Present
<1>9. CASE KeepAlive
  <2>1. next \in Present
    BY <1>9 DEF KeepAlive, LoopOK
  <2>2. ASSUME NEW p \in Present
        PROVE  player'[p] \in Player
    <3>1. player[p] \in Player
      BY PresentTyped
    <3>2. (player[p].sync + 1) % Width \in Counters
      BY <1>1, <3>1 DEF Player, Counters
    <3>3. PICK leaving \in Leaving, checkSums \in Seq(Worlds) :
            player'[p] = [player[p] EXCEPT
                            !.sync = IF p = next THEN (@ + 1) % Width ELSE @,
                            !.leaving = leaving, !.checkSums = checkSums]
      BY <1>9, AnswerTyped
    <3> QED BY <3>1, <3>2, <3>3 DEF Player
  <2>3. \A p \in Players : p \notin Present => player'[p] = NoPlayer
    BY <1>9 DEF KeepAlive
  <2>4. player' \in [Players -> Player \cup {NoPlayer}]
    BY <1>9, <2>2, <2>3 DEF KeepAlive
  <2>5. next \in Present'
    BY <2>1, <2>2, NoPlayerAssumption DEF Present
  <2> QED BY <1>9, <2>4, <2>5 DEF KeepAlive, TypeOK, LoopOK, ending
<1>10. CASE DropRequest
  <2> DEFINE voted == [player EXCEPT ![next].dropVote = TRUE]
  <2>1. next \in Present
    BY <1>10 DEF DropRequest, LoopOK
  <2>2. ASSUME NEW p \in Present
        PROVE  voted[p] \in Player /\ [voted[p] EXCEPT !.leaving = "disconnect"] \in Player
    BY PresentTyped DEF Player, TypeOK, Leaving
  <2>3. ASSUME NEW p \in Players \ Present PROVE voted[p] = NoPlayer /\ p \notin Laggers
    BY <2>1 DEF TypeOK, Laggers, Present
  <2>4. player' \in [Players -> Player \cup {NoPlayer}]
    BY <1>10, <2>2, <2>3 DEF DropRequest
  <2>5. player'[next] # NoPlayer
    BY <1>10, <2>1, <2>2, PresentTyped, NoPlayerAssumption DEF DropRequest
  <2> QED BY <1>10, <2>1, <2>4, <2>5 DEF DropRequest, TypeOK, LoopOK, ending, Present
<1>11. CASE NobodyLags
  BY <1>11 DEF NobodyLags, TypeOK, LoopOK, ending, Phases
<1>12. CASE StartLagging
  <2>1. ASSUME NEW p \in Present, NEW late \in SUBSET Present
        PROVE  [player[p] EXCEPT !.lagging = @ \/ p \in late, !.dropVote = FALSE] \in Player
    BY PresentTyped DEF Player
  <2>2. player' \in [Players -> Player \cup {NoPlayer}]
    BY <1>12, <2>1 DEF StartLagging
  <2>3. shown' \subseteq Players
    BY <1>12 DEF StartLagging, TypeOK, Present
  <2> QED BY <1>12, <2>2, <2>3 DEF StartLagging, TypeOK, LoopOK, ending, Phases
<1>13. ASSUME NEW players \in [Players -> Player \cup {NoPlayer}], Released(players),
              phase = "lag", \A p \in Present : players[p] \in Player
       PROVE  TypeOK' /\ LoopOK'
  <2>1. ASSUME NEW p \in Present
        PROVE  [players[p] EXCEPT !.lagging = FALSE] \in Player
    BY <1>13 DEF Player
  <2>2. player' \in [Players -> Player \cup {NoPlayer}]
    BY <1>13, <2>1 DEF Released, Laggers
  <2>3. shown' \subseteq Players /\ lagScreen' \in BOOLEAN
    BY <1>13 DEF Released, TypeOK, SomebodyLags
  <2> QED BY <1>13, <2>2, <2>3 DEF Released, TypeOK, LoopOK, ending, Phases
<1>14. CASE LagGoesOn
  BY <1>13, <1>14, PresentTyped DEF LagGoesOn, TypeOK
<1>15. CASE WaitTimeOver
  <2>1. \A p \in Present : StopLaggers[p] \in Player
    BY PresentTyped DEF StopLaggers, Marked, Player, Leaving
  <2> QED BY <1>13, <1>15, <2>1, StopTyped DEF WaitTimeOver
<1>16. CASE SendAllActions
  BY <1>2, <1>16 DEF SendAllActions, TypeOK, LoopOK, ending, Phases
<1>17. CASE NotYetDue
  BY <1>17 DEF NotYetDue, TypeOK, LoopOK, ending, Phases
<1>18. ASSUME player' \in {StopPlayers, StopLaggers}
       PROVE  player' \in [Players -> Player \cup {NoPlayer}] /\ Present' = Present
  <2>1. \A p \in Present : StopPlayers[p] # NoPlayer /\ StopLaggers[p] # NoPlayer
    BY PresentTyped, NoPlayerAssumption DEF StopPlayers, StopLaggers, Marked, Player, Leaving
  <2>2. \A p \in Players \ Present : StopPlayers[p] = NoPlayer /\ StopLaggers[p] = NoPlayer
    BY DEF StopPlayers, StopLaggers, Marked, Present, Laggers
  <2> QED BY <1>18, <2>1, <2>2, StopTyped DEF Present
<1>19. CASE Drop \/ EndNow
  BY <1>18, <1>19 DEF Drop, EndNow, Command, TypeOK, LoopOK
<1>20. CASE End \/ Abort
  BY <1>20 DEF End, Abort, Command, TypeOK, LoopOK, Present
<1>21. CASE EndFromBattleNet
  BY <1>21 DEF EndFromBattleNet, TypeOK, LoopOK, Present
<1>22. CASE EndCountDownOver
  BY <1>18, <1>22 DEF EndCountDownOver, TypeOK, LoopOK
<1>23. CASE GameOverTimer
  BY <1>18, <1>23 DEF GameOverTimer, TypeOK, LoopOK, ending
<1>24. CASE EndOfUpdate
  BY <1>24 DEF EndOfUpdate, TypeOK, LoopOK, Phases
<1>25. CASE GameDataSaved
  BY <1>25 DEF GameDataSaved, TypeOK, LoopOK, ending, Phases
<1>26. CASE NextUpdate
  <2>1. /\ next' \in 1 .. NumPlayers + 1 /\ phase' \in Phases
        /\ phase' \in {"players", "packets"} => next' \in Present
    BY <1>1, <1>26, TurnTyped DEF NextUpdate
  <2> QED BY <1>26, <2>1 DEF NextUpdate, TypeOK, LoopOK, ending, Present
<1>27. CASE UNCHANGED vars
  BY <1>27 DEF vars, ending, TypeOK, LoopOK, Present
<1> QED BY <1>3, <1>4, <1>5, <1>6, <1>7, <1>8, <1>9, <1>10, <1>11, <1>12, <1>14, <1>15, <1>16,
           <1>17, <1>19, <1>20, <1>21, <1>22, <1>23, <1>24, <1>25, <1>26, <1>27
        DEF Next, Loop, Timer, Packet

\* Every variable of a running game keeps its type; the loop over m_Players never looks
\* at a player who was deleted.
THEOREM TypeCorrect == Spec => []TypeOK
<1>1. Init => TypeOK /\ LoopOK
  BY InitTyped
<1>2. TypeOK /\ LoopOK /\ [Next]_vars => TypeOK' /\ LoopOK'
  BY StepTyped
<1> QED BY <1>1, <1>2, PTL DEF Spec

-----------------------------------------------------------------------------
(* What steps do to players.                                               *)

\* The step leaves alone what the lag screen and the comparison of checksums look at;
\* nobody who was marked is unmarked, nor returns to the true world.
SameProgress(p) ==
    /\ player'[p].sync = player[p].sync
    /\ player'[p].checkSums = player[p].checkSums
    /\ player'[p].leaving = "no" => player[p].leaving = "no"
    /\ player'[p].world = 0 => player[p].world = 0
Same(p) == SameProgress(p) /\ player'[p].lagging = player[p].lagging

QuietStep ==
    /\ Present' = Present /\ \A p \in Present : Same(p)
    /\ UNCHANGED << syncCounter, lagScreen, shown >>
    /\ phase' = "actions" => phase = "actions"

\* Players who are marked keep counter and lag flag.
LEMMA StoppedAreSame ==
    ASSUME TypeOK, player' \in {player, StopPlayers, StopLaggers}
    PROVE  Present' = Present /\ \A p \in Present : Same(p)
<1>1. ASSUME NEW p \in Present, NEW who, NEW code \in {"lost", "disconnect"},
             player' = Marked(who, code)
      PROVE  player'[p] # NoPlayer /\ Same(p)
  <2>1. player[p] \in Player /\ p \in Players
    BY PresentTyped
  <2>2. player'[p] = IF p \in who THEN [player[p] EXCEPT !.leaving = code] ELSE player[p]
    BY <1>1, <2>1 DEF Marked
  <2>3. player'[p] \in Player
    BY <2>1, <2>2 DEF Player, Leaving
  <2> QED BY <2>1, <2>2, <2>3, NoPlayerAssumption DEF Same, SameProgress, Player
<1>2. ASSUME NEW p \in Players \ Present, NEW who \in SUBSET Present, NEW code,
             player' = Marked(who, code)
      PROVE  player'[p] = NoPlayer
  BY <1>2 DEF Marked, Present
<1>3. CASE player' = player
  BY <1>3 DEF Present, Same, SameProgress
<1>4. CASE player' = StopPlayers
  BY <1>1, <1>2, <1>4 DEF StopPlayers, Present
<1>5. CASE player' = StopLaggers
  BY <1>1, <1>2, <1>5 DEF StopLaggers, Laggers, Present
<1> QED BY <1>3, <1>4, <1>5

\* A vote to drop the laggers changes no counter and no lag flag.
LEMMA VotersAreSame ==
    ASSUME TypeOK, LoopOK, DropRequest
    PROVE  Present' = Present /\ \A p \in Present : Same(p)
<1> DEFINE voted == [player EXCEPT ![next].dropVote = TRUE]
<1>1. next \in Present /\ Laggers \subseteq Present
  BY DEF DropRequest, LoopOK, Laggers
<1>2. ASSUME NEW p \in Present
      PROVE  player'[p] # NoPlayer /\ Same(p)
  <2>1. player[p] \in Player /\ p \in Players
    BY PresentTyped
  <2>2. voted[p] \in {player[p], [player[p] EXCEPT !.dropVote = TRUE]}
    BY <2>1 DEF TypeOK
  <2>3. player'[p] \in {voted[p], [voted[p] EXCEPT !.leaving = "disconnect"]}
    BY <2>1 DEF DropRequest
  <2>4. /\ voted[p] \in Player
        /\ voted[p].sync = player[p].sync /\ voted[p].checkSums = player[p].checkSums
        /\ voted[p].lagging = player[p].lagging /\ voted[p].leaving = player[p].leaving
        /\ voted[p].world = player[p].world
    <3>1. CASE voted[p] = player[p]
      BY <2>1, <3>1
    <3>2. CASE voted[p] = [player[p] EXCEPT !.dropVote = TRUE]
      <4> HIDE DEF voted
      <4> QED BY <2>1, <3>2 DEF Player
    <3> QED BY <2>2, <3>1, <3>2
  <2> HIDE DEF voted
  <2>5. /\ player'[p] \in Player
        /\ player'[p].sync = voted[p].sync /\ player'[p].checkSums = voted[p].checkSums
        /\ player'[p].lagging = voted[p].lagging /\ player'[p].world = voted[p].world
        /\ player'[p].leaving \in {voted[p].leaving, "disconnect"}
    BY <2>3, <2>4 DEF Player, Leaving
  <2> QED BY <2>4, <2>5, NoPlayerAssumption DEF Same, SameProgress
<1>3. ASSUME NEW p \in Players \ Present
      PROVE  player'[p] = NoPlayer
  <2>1. voted[p] = NoPlayer /\ p \notin Laggers
    BY <1>1 DEF TypeOK, Present
  <2> QED BY <2>1 DEF DropRequest
<1> QED BY <1>2, <1>3 DEF Present

\* Within the loop over m_Players no action is due.
LEMMA TurnGoesOn == ASSUME NEW p, Turn(p) PROVE phase' # "actions"
BY DEF Turn

\* Eight kinds of steps are enough for what follows.
LEMMA StepKinds ==
    ASSUME TypeOK, LoopOK, [Next]_vars
    PROVE  \/ DeletePlayer \/ KeepAlive \/ SendAllActions
           \/ NobodyLags \/ StartLagging \/ LagGoesOn \/ WaitTimeOver \/ QuietStep
<1>1. CASE ReadPackets \/ KeepPlayer \/ NotYetDue \/ ReportGameOver
  BY <1>1, StoppedAreSame, TurnGoesOn
     DEF ReadPackets, KeepPlayer, NotYetDue, ReportGameOver, QuietStep
<1>2. CASE LeaveGame \/ Diverge
  <2>1. next \in Present /\ player[next] \in Player /\ next \in Players
    BY <1>2, PresentTyped DEF LeaveGame, Diverge, LoopOK
  <2>2. \/ player' = [player EXCEPT ![next] = [player[next] EXCEPT !.leaving = "lost"]]
        \/ /\ player[next].world = 0
           /\ \E w \in Worlds :
                player' = [player EXCEPT ![next] = [player[next] EXCEPT !.world = w]]
    BY <1>2, Zenon DEF LeaveGame, Diverge
  <2>3. player'[next] \in Player /\ Same(next)
    <3>1. \/ player'[next] = [player[next] EXCEPT !.leaving = "lost"]
          \/ /\ player[next].world = 0
             /\ \E w \in Worlds : player'[next] = [player[next] EXCEPT !.world = w]
      BY <2>1, <2>2 DEF TypeOK
    <3> QED BY <2>1, <3>1 DEF Player, Leaving, Same, SameProgress
  <2>4. \A p \in Players : p # next => player'[p] = player[p]
    BY <2>2 DEF TypeOK
  <2>5. Present' = Present
    BY <2>1, <2>3, <2>4, NoPlayerAssumption DEF Present
  <2>6. \A p \in Present : Same(p)
    BY <2>3, <2>4 DEF Present, Same, SameProgress
  <2> QED BY <1>2, <2>5, <2>6 DEF LeaveGame, Diverge, QuietStep
<1>3. CASE DropRequest
  BY <1>3, VotersAreSame DEF DropRequest, QuietStep
<1>4. CASE Drop \/ EndNow \/ End \/ Abort
  BY <1>4, StoppedAreSame DEF Drop, EndNow, End, Abort, Command, QuietStep
<1>5. CASE EndFromBattleNet \/ EndCountDownOver \/ GameOverTimer
  BY <1>5, StoppedAreSame DEF EndFromBattleNet, EndCountDownOver, GameOverTimer, QuietStep
<1>6. CASE EndOfUpdate \/ GameDataSaved \/ NextUpdate
  BY <1>6, StoppedAreSame, TurnGoesOn DEF EndOfUpdate, GameDataSaved, NextUpdate, QuietStep
<1>7. CASE UNCHANGED vars
  BY <1>7, StoppedAreSame DEF vars, QuietStep
<1> QED BY <1>1, <1>2, <1>3, <1>4, <1>5, <1>6, <1>7 DEF Next, Loop, Timer, Packet

-----------------------------------------------------------------------------
(* The lag screen.                                                         *)

\* m_Lagging may outlive the last player who lags, until the lag screen is looked at.
LagInv ==
    /\ shown = Laggers
    /\ Laggers # {} => lagScreen
    /\ phase = "actions" /\ lagScreen => Laggers # {}

\* A game that starts has no lag screen.
LEMMA InitLag == Init => LagInv
BY NoPlayerAssumption DEF Init, LagInv, Laggers, Present

\* Steps that change no player's lag flag leave the set of laggers alone.
LEMMA QuietLaggers == ASSUME QuietStep PROVE Laggers' = Laggers
BY DEF QuietStep, Laggers, Same

\* What the end of a lag screen does to players
LEMMA ReleasedLaggers ==
    ASSUME TypeOK, LagGoesOn \/ WaitTimeOver
    PROVE  /\ Present' = Present
           /\ \A p \in Present : /\ SameProgress(p)
                                  /\ player'[p].lagging = (player[p].lagging /\ ~CaughtUp(p))
           /\ shown' = shown \ {p \in Laggers : CaughtUp(p)}
           /\ lagScreen' = (Laggers' # {})
           /\ phase' = "actions" /\ syncCounter' = syncCounter
<1> DEFINE back == {p \in Laggers : CaughtUp(p)}
<1>1. PICK players \in {player, StopLaggers} : Released(players)
  BY DEF LagGoesOn, WaitTimeOver
<1>2. ASSUME NEW p \in Present
      PROVE  /\ player'[p] \in Player /\ SameProgress(p)
             /\ player'[p].lagging = (player[p].lagging /\ ~CaughtUp(p))
  <2>1. player[p] \in Player /\ p \in Players
    BY PresentTyped
  <2>2. players[p] = player[p] \/ players[p] = [player[p] EXCEPT !.leaving = "disconnect"]
    BY <1>1, <2>1 DEF StopLaggers, Marked
  <2>3. /\ players[p] \in Player
        /\ players[p].sync = player[p].sync /\ players[p].checkSums = player[p].checkSums
        /\ players[p].lagging = player[p].lagging /\ players[p].world = player[p].world
        /\ players[p].leaving \in {player[p].leaving, "disconnect"}
    BY <2>1, <2>2 DEF Player, Leaving
  <2>4. player'[p] = IF p \in back THEN [players[p] EXCEPT !.lagging = FALSE] ELSE players[p]
    BY <1>1, <2>1 DEF Released
  <2>5. p \in back <=> player[p].lagging /\ CaughtUp(p)
    BY <1>2 DEF Laggers
  <2> HIDE DEF back
  <2>6. CASE p \in back
    BY <2>3, <2>4, <2>5, <2>6 DEF Player, SameProgress
  <2>7. CASE p \notin back
    BY <2>1, <2>3, <2>4, <2>5, <2>7 DEF Player, SameProgress
  <2> QED BY <2>6, <2>7
<1>3. ASSUME NEW p \in Players \ Present PROVE player'[p] = NoPlayer
  BY <1>1 DEF Released, StopLaggers, Marked, Laggers, Present
<1>4. Present' = Present
  BY <1>2, <1>3, NoPlayerAssumption DEF Present
<1>5. Laggers' = Laggers \ back
  BY <1>2, <1>4 DEF Laggers
<1> QED BY <1>1, <1>2, <1>4, <1>5 DEF Released, SomebodyLags

\* What its beginning does
LEMMA StartedLaggers ==
    ASSUME TypeOK, LagInv, StartLagging
    PROVE  /\ Present' = Present
           /\ \A p \in Present : SameProgress(p) /\ (player'[p].lagging <=> Late(p))
           /\ shown' = Laggers' /\ Laggers' # {} /\ lagScreen'
           /\ phase' = "actions" /\ syncCounter' = syncCounter
<1> DEFINE late == {p \in Present : Late(p)}
<1>1. Laggers = {} /\ shown = {} /\ late # {}
  BY DEF StartLagging, LagInv
<1>2. ASSUME NEW p \in Present
      PROVE  player'[p] \in Player /\ SameProgress(p) /\ (player'[p].lagging <=> p \in late)
  <2>1. player[p] \in Player /\ p \in Players /\ player[p].lagging = FALSE
    BY <1>1, <1>2, PresentTyped DEF Laggers, Player
  <2>2. player'[p] = [player[p] EXCEPT !.lagging = @ \/ p \in late, !.dropVote = FALSE]
    BY <2>1 DEF StartLagging
  <2> HIDE DEF late
  <2>3. CASE p \in late
    <3>1. player'[p] = [player[p] EXCEPT !.lagging = TRUE, !.dropVote = FALSE]
      BY <2>2, <2>3
    <3> QED BY <2>1, <2>3, <3>1 DEF Player, SameProgress
  <2>4. CASE p \notin late
    <3>1. player'[p] = [player[p] EXCEPT !.lagging = FALSE, !.dropVote = FALSE]
      BY <2>1, <2>2, <2>4
    <3> QED BY <2>1, <2>4, <3>1 DEF Player, SameProgress
  <2> QED BY <2>3, <2>4
<1>3. ASSUME NEW p \in Players \ Present PROVE player'[p] = NoPlayer
  BY DEF StartLagging
<1>4. Present' = Present
  BY <1>2, <1>3, NoPlayerAssumption DEF Present
<1>5. Laggers' = late
  BY <1>2, <1>4 DEF Laggers
<1> QED BY <1>1, <1>2, <1>4, <1>5 DEF StartLagging

\* What a deletion and a keepalive leave alone
LEMMA DeletedPlayer ==
    ASSUME TypeOK, LoopOK, DeletePlayer
    PROVE  /\ next \in Present /\ Present' = Present \ {next}
           /\ \A p \in Present' : player'[p] = player[p]
           /\ lagScreen' = lagScreen /\ phase' # "actions"
           /\ syncCounter' = syncCounter \/ (AutoSave /\ syncCounter' = NextCounter)
<1>1. next \in Present
  BY DEF DeletePlayer, LoopOK
<1>2. player' = [player EXCEPT ![next] = NoPlayer]
  BY DEF DeletePlayer
<1>3. Present' = Present \ {next} /\ \A p \in Present' : player'[p] = player[p]
  BY <1>1, <1>2 DEF Present, TypeOK
<1>4. syncCounter' = syncCounter \/ (AutoSave /\ syncCounter' = NextCounter)
  BY DEF DeletePlayer
<1> QED BY <1>1, <1>3, <1>4, TurnGoesOn DEF DeletePlayer

\* A keepalive is about an action that was sent: only its player's counter moves.
LEMMA AnsweredAction ==
    ASSUME TypeOK, LoopOK, KeepAlive
    PROVE  /\ next \in Present /\ Behind(next) > 0
           /\ Present' = Present
           /\ \A p \in Present :
                /\ player'[p].sync = IF p = next THEN (player[p].sync + 1) % Width
                                     ELSE player[p].sync
                /\ player'[p].lagging = player[p].lagging
           /\ UNCHANGED << syncCounter, lagScreen, shown, phase >>
<1>1. next \in Present
  BY DEF KeepAlive, LoopOK
<1>2. ASSUME NEW p \in Present
      PROVE  /\ player'[p] \in Player
             /\ player'[p].sync = IF p = next THEN (player[p].sync + 1) % Width
                                  ELSE player[p].sync
             /\ player'[p].lagging = player[p].lagging
  <2>1. player[p] \in Player /\ p \in Players
    BY PresentTyped
  <2>2. PICK leaving \in Leaving, checkSums \in Seq(Worlds) :
            player'[p] = [player[p] EXCEPT
                            !.sync = IF p = next THEN (@ + 1) % Width ELSE @,
                            !.leaving = leaving, !.checkSums = checkSums]
    BY <2>1, AnswerTyped
  <2> DEFINE sync == IF p = next THEN (player[p].sync + 1) % Width ELSE player[p].sync
  <2>3. sync \in Counters
    BY <2>1, LimitAssumption, OptionsAssumption, PlayersAssumption DEF Player, Counters
  <2>4. player'[p] = [player[p] EXCEPT !.sync = sync, !.leaving = leaving,
                                       !.checkSums = checkSums]
    BY <2>2
  <2> HIDE DEF sync
  <2>5. player'[p] \in Player /\ player'[p].sync = sync /\ player'[p].lagging = player[p].lagging
    BY <2>1, <2>3, <2>4 DEF Player
  <2> QED BY <2>5 DEF sync
<1>3. ASSUME NEW p \in Players \ Present PROVE player'[p] = NoPlayer
  BY DEF KeepAlive
<1>4. Present' = Present
  BY <1>2, <1>3, NoPlayerAssumption DEF Present
<1> QED BY <1>1, <1>2, <1>4 DEF KeepAlive

\* Every action keeps the lag screens accurate.
LEMMA StepLag ==
    ASSUME TypeOK, LoopOK, LagInv, [Next]_vars
    PROVE  LagInv'
<1>1. CASE DeletePlayer
  <2>1. Present' = Present \ {next} /\ Laggers' = Laggers \ {next}
    BY <1>1, DeletedPlayer DEF Laggers
  <2>2. shown' = Laggers'
    BY <1>1, <2>1, DeletedPlayer DEF DeletePlayer, NoLongerShown, LagInv, Laggers
  <2> QED BY <1>1, <2>1, <2>2, DeletedPlayer DEF LagInv
<1>2. CASE KeepAlive
  <2>1. Laggers' = Laggers
    BY <1>2, AnsweredAction DEF Laggers
  <2> QED BY <1>2, <2>1, AnsweredAction DEF LagInv
<1>3. CASE SendAllActions
  BY <1>3 DEF SendAllActions, LagInv, Laggers, Present
<1>4. CASE NobodyLags
  BY <1>4 DEF NobodyLags, LagInv, Laggers, Present
<1>5. CASE StartLagging
  BY <1>5, StartedLaggers DEF LagInv
<1>6. CASE LagGoesOn \/ WaitTimeOver
  <2>1. Laggers' = Laggers \ {p \in Laggers : CaughtUp(p)}
    BY <1>6, ReleasedLaggers DEF Laggers
  <2> QED BY <1>6, <2>1, ReleasedLaggers DEF LagInv
<1>7. CASE QuietStep
  BY <1>7, QuietLaggers DEF QuietStep, LagInv
<1> QED BY <1>1, <1>2, <1>3, <1>4, <1>5, <1>6, <1>7, StepKinds

\* Lag screens are accurate in every reachable state.
LEMMA LagInvariant == Spec => [](TypeOK /\ LoopOK /\ LagInv)
<1>1. Init => TypeOK /\ LoopOK /\ LagInv
  BY InitTyped, InitLag
<1>2. TypeOK /\ LoopOK /\ LagInv /\ [Next]_vars => (TypeOK /\ LoopOK /\ LagInv)'
  BY StepTyped, StepLag
<1> QED BY <1>1, <1>2, PTL DEF Spec

\* The clients' lag screens list exactly the players who lag, and the game waits exactly
\* for them: StartLagging, CaughtUp and STOP_LAG of departures agree.
THEOREM LagScreensAreAccurate == Spec => []LagScreenAccurate
<1>1. LagInv => LagScreenAccurate
  BY DEF LagInv, LagScreenAccurate
<1> QED BY <1>1, LagInvariant, PTL

-----------------------------------------------------------------------------
(* How far players are behind.                                             *)

\* Subtraction of counters, modulo their width
LEMMA CountersApart ==
    ASSUME NEW w \in Nat \ {0}, NEW a \in 0 .. w - 1, NEW b \in 0 .. w - 1
    PROVE  /\ (a - b) % w \in 0 .. w - 1
           /\ (a - b) % w < w - 1 => (((a + 1) % w) - b) % w = ((a - b) % w) + 1
           /\ (a - b) % w > 0 => (a - ((b + 1) % w)) % w = ((a - b) % w) - 1
<1>1. (a - b) % w = IF a >= b THEN a - b ELSE a - b + w
  BY SMT
<1>2. (a + 1) % w = IF a = w - 1 THEN 0 ELSE a + 1
  BY SMT
<1>3. (b + 1) % w = IF b = w - 1 THEN 0 ELSE b + 1
  BY SMT
<1>4. ASSUME (a - b) % w < w - 1
      PROVE  (((a + 1) % w) - b) % w = ((a - b) % w) + 1
  <2>1. CASE a = w - 1
    BY <1>1, <1>2, <1>4, <2>1, SMT
  <2>2. CASE a # w - 1
    BY <1>1, <1>2, <1>4, <2>2, SMT
  <2> QED BY <2>1, <2>2
<1>5. ASSUME (a - b) % w > 0
      PROVE  (a - ((b + 1) % w)) % w = ((a - b) % w) - 1
  <2>1. CASE b = w - 1
    BY <1>1, <1>3, <1>5, <2>1, SMT
  <2>2. CASE b # w - 1
    BY <1>1, <1>3, <1>5, <2>2, SMT
  <2> QED BY <2>1, <2>2
<1> QED BY <1>1, <1>4, <1>5, SMT

\* What the autosaves of players who are gone have added
Slack == IF AutoSave THEN NumPlayers - Cardinality(Present) ELSE 0

\* While the lag screen is up nothing is sent but by autosaves, so the one action beyond
\* the limit is missing for the players who lag only; nor has it been sent yet when the
\* game is about to send it.
BoundInv ==
    \A p \in Present :
        Behind(p) <= SyncLimit + Slack
                       + (IF \/ lagScreen /\ ~player[p].lagging
                             \/ phase = "actions" /\ ~lagScreen
                          THEN 0 ELSE 1)

\* There are finitely many players.
LEMMA PresentFinite ==
    /\ NumPlayers \in Nat /\ IsFiniteSet(Present)
    /\ Cardinality(Present) \in Nat /\ Cardinality(Present) <= NumPlayers
<1>1. NumPlayers \in Nat /\ IsFiniteSet(Players) /\ Cardinality(Players) = NumPlayers
  <2>1. NumPlayers \in Nat /\ NumPlayers >= 1
    BY PlayersAssumption
  <2> QED BY <2>1, FS_Interval DEF Players
<1>2. Present \subseteq Players
  BY DEF Present
<1> QED BY <1>1, <1>2, FS_Subset, FS_CardinalityType

\* The slack is small enough for the width of the counters.
LEMMA SlackTyped ==
    ASSUME TypeOK
    PROVE  /\ Slack \in Nat
           /\ Present # {} => SyncLimit + Slack + 1 < Width - (IF AutoSave THEN 1 ELSE 0)
<1>2. /\ NumPlayers \in Nat /\ IsFiniteSet(Present)
      /\ Cardinality(Present) \in Nat /\ Cardinality(Present) <= NumPlayers
  BY PresentFinite
<1>3. Present # {} => Cardinality(Present) >= 1
  BY <1>2, FS_EmptySet
<1>4. AutoSave \in BOOLEAN /\ SyncLimit \in Nat /\ Width \in Nat
  BY OptionsAssumption, LimitAssumption
<1>5. CASE AutoSave
  BY <1>2, <1>3, <1>4, <1>5, LimitAssumption DEF Slack
<1>6. CASE ~AutoSave
  BY <1>4, <1>6, LimitAssumption DEF Slack
<1> QED BY <1>4, <1>5, <1>6

\* A player who is deleted makes the slack grow by its autosave.
LEMMA SlackGrows ==
    ASSUME TypeOK, LoopOK, DeletePlayer
    PROVE  Slack' = Slack + (IF AutoSave THEN 1 ELSE 0)
<1>1. next \in Present /\ Present' = Present \ {next}
  BY DeletedPlayer
<1>2. NumPlayers \in Nat /\ IsFiniteSet(Present)
  BY PresentFinite
<1>3. Cardinality(Present') = Cardinality(Present) - 1 /\ Cardinality(Present) \in Nat
  BY <1>1, <1>2, FS_RemoveElement, FS_CardinalityType
<1> QED BY <1>2, <1>3 DEF Slack

\* An action that is sent puts every player one further behind.
LEMMA SentAction ==
    ASSUME TypeOK, NEW p \in Present, Behind(p) < Width - 1, syncCounter' = NextCounter,
           player'[p].sync = player[p].sync
    PROVE  Behind(p)' = Behind(p) + 1
<1>1. Width \in Nat \ {0} /\ player[p].sync \in 0 .. Width - 1 /\ syncCounter \in 0 .. Width - 1
  BY PresentTyped, LimitAssumption, OptionsAssumption, PlayersAssumption
     DEF TypeOK, Counters, Player
<1> QED BY <1>1, CountersApart DEF Behind, NextCounter

\* How far a player is behind is a number below the counters' width.
LEMMA BehindTyped ==
    ASSUME TypeOK, NEW p \in Present
    PROVE  Behind(p) \in 0 .. Width - 1
<1>1. Width \in Nat \ {0} /\ player[p].sync \in 0 .. Width - 1 /\ syncCounter \in 0 .. Width - 1
  BY PresentTyped, LimitAssumption, OptionsAssumption, PlayersAssumption
     DEF TypeOK, Counters, Player
<1> QED BY <1>1, CountersApart DEF Behind

\* A keepalive brings its player one closer.
LEMMA AnsweredBehind ==
    ASSUME TypeOK, LoopOK, KeepAlive, NEW p \in Present
    PROVE  Behind(p)' = IF p = next THEN Behind(p) - 1 ELSE Behind(p)
<1>1. Width \in Nat \ {0} /\ player[p].sync \in 0 .. Width - 1 /\ syncCounter \in 0 .. Width - 1
  BY PresentTyped, LimitAssumption, OptionsAssumption, PlayersAssumption
     DEF TypeOK, Counters, Player
<1>2. syncCounter' = syncCounter /\ Behind(next) > 0
  BY AnsweredAction
<1>3. player'[p].sync = IF p = next THEN (player[p].sync + 1) % Width ELSE player[p].sync
  BY AnsweredAction
<1>4. CASE p = next
  <2>1. Behind(p)' = (syncCounter - ((player[p].sync + 1) % Width)) % Width
    BY <1>1, <1>2, <1>3, <1>4 DEF Behind
  <2> QED BY <1>1, <1>2, <1>4, <2>1, CountersApart DEF Behind
<1>5. CASE p # next
  BY <1>2, <1>3, <1>5 DEF Behind
<1> QED BY <1>4, <1>5

\* A game that starts has nobody behind.
LEMMA InitBound == Init => BoundInv
<1> SUFFICES ASSUME Init, NEW p \in Present
             PROVE  Behind(p) = 0
  BY InitTyped, SlackTyped, LimitAssumption DEF BoundInv
<1>1. player[p].sync = 0 /\ syncCounter = 0
  BY DEF Init, Present
<1>2. Width \in Nat \ {0}
  BY LimitAssumption, OptionsAssumption, PlayersAssumption
<1> QED BY <1>1, <1>2 DEF Behind

\* Every action keeps all players within the bound.
LEMMA StepBound ==
    ASSUME TypeOK, LoopOK, LagInv, BoundInv, [Next]_vars
    PROVE  BoundInv'
<1> SUFFICES ASSUME NEW p \in Present'
             PROVE  (Behind(p) <= SyncLimit + Slack
                       + (IF \/ lagScreen /\ ~player[p].lagging
                             \/ phase = "actions" /\ ~lagScreen
                          THEN 0 ELSE 1))'
  BY DEF BoundInv
<1>1. SyncLimit \in Nat /\ Width \in Nat /\ AutoSave \in BOOLEAN
  BY LimitAssumption, OptionsAssumption
<1>2. Slack \in Nat
  BY SlackTyped
<1>3. ASSUME p \in Present
      PROVE  /\ Behind(p) \in Nat
             /\ Behind(p) <= SyncLimit + Slack
                       + (IF \/ lagScreen /\ ~player[p].lagging
                             \/ phase = "actions" /\ ~lagScreen
                          THEN 0 ELSE 1)
             /\ SyncLimit + Slack + 1 < Width - (IF AutoSave THEN 1 ELSE 0)
  BY <1>1, <1>3, BehindTyped, SlackTyped DEF BoundInv
<1>4. CASE DeletePlayer
  <2>1. /\ p \in Present /\ player'[p] = player[p] /\ lagScreen' = lagScreen
        /\ phase' # "actions" /\ Slack' = Slack + (IF AutoSave THEN 1 ELSE 0)
        /\ syncCounter' = syncCounter \/ (AutoSave /\ syncCounter' = NextCounter)
    BY <1>4, DeletedPlayer, SlackGrows
  <2>2. CASE syncCounter' = syncCounter
    <3>1. Behind(p)' = Behind(p)
      BY <2>1, <2>2 DEF Behind
    <3> QED BY <1>1, <1>2, <1>3, <2>1, <3>1
  <2>3. CASE AutoSave /\ syncCounter' = NextCounter
    <3>1. Behind(p) < Width - 1
      BY <1>1, <1>2, <1>3, <2>1, <2>3
    <3>2. Behind(p)' = Behind(p) + 1
      BY <2>1, <2>3, <3>1, SentAction
    <3> QED BY <1>1, <1>2, <1>3, <2>1, <2>3, <3>2
  <2> QED BY <2>1, <2>2, <2>3
<1>5. CASE KeepAlive
  <2>1. /\ p \in Present /\ player'[p].lagging = player[p].lagging
        /\ lagScreen' = lagScreen /\ phase' = phase /\ Slack' = Slack
    BY <1>5, AnsweredAction DEF Slack
  <2>2. Behind(p)' <= Behind(p) /\ Behind(p)' \in Int
    BY <1>3, <1>5, <2>1, AnsweredBehind
  <2> QED BY <1>1, <1>2, <1>3, <2>1, <2>2
<1>6. CASE SendAllActions
  <2>1. /\ p \in Present /\ player' = player /\ Slack' = Slack /\ ~lagScreen
        /\ syncCounter' = NextCounter /\ phase = "actions" /\ phase' = "over"
        /\ lagScreen' = lagScreen
    BY <1>6 DEF SendAllActions, Slack, Present
  <2>2. Behind(p) < Width - 1
    BY <1>1, <1>2, <1>3, <2>1
  <2>3. Behind(p)' = Behind(p) + 1
    BY <2>1, <2>2, SentAction
  <2> QED BY <1>1, <1>2, <1>3, <2>1, <2>3
<1>7. CASE NobodyLags
  <2>1. /\ p \in Present /\ UNCHANGED << player, syncCounter, lagScreen >> /\ ~lagScreen
        /\ ~Late(p) /\ Slack' = Slack
    BY <1>7 DEF NobodyLags, Present, Slack
  <2>2. Behind(p)' = Behind(p) /\ Behind(p) <= SyncLimit
    BY <1>1, <1>3, <2>1 DEF Behind, Late
  <2> QED BY <1>1, <1>2, <1>3, <2>1, <2>2
<1>8. CASE StartLagging
  <2>1. /\ p \in Present /\ SameProgress(p) /\ (player'[p].lagging <=> Late(p)) /\ lagScreen'
        /\ syncCounter' = syncCounter /\ Slack' = Slack
    BY <1>8, StartedLaggers DEF Slack
  <2>2. Behind(p)' = Behind(p)
    BY <2>1 DEF Behind, SameProgress
  <2>3. CASE Late(p)
    BY <1>1, <1>2, <1>3, <2>1, <2>2, <2>3
  <2>4. CASE ~Late(p)
    BY <1>1, <1>2, <1>3, <2>1, <2>2, <2>4 DEF Late
  <2> QED BY <2>3, <2>4
<1>9. CASE LagGoesOn \/ WaitTimeOver
  <2>1. /\ p \in Present /\ SameProgress(p) /\ lagScreen
        /\ (player'[p].lagging <=> player[p].lagging /\ ~CaughtUp(p))
        /\ syncCounter' = syncCounter /\ Slack' = Slack /\ (lagScreen' <=> Laggers' # {})
    BY <1>9, ReleasedLaggers DEF Slack, LagGoesOn, WaitTimeOver
  <2>2. Behind(p)' = Behind(p)
    BY <2>1 DEF Behind, SameProgress
  <2>3. CASE player'[p].lagging
    <3>1. p \in Laggers' /\ lagScreen'
      BY <2>1, <2>3 DEF Laggers
    <3> QED BY <1>1, <1>2, <1>3, <2>1, <2>2, <2>3, <3>1
  <2>4. CASE ~player'[p].lagging
    <3>1. CASE CaughtUp(p)
      <4>1. Behind(p) <= SyncLimit
        BY <1>1, <1>3, <2>1, <3>1 DEF CaughtUp
      <4> QED BY <1>1, <1>2, <1>3, <2>1, <2>2, <4>1
    <3>2. CASE ~CaughtUp(p)
      <4>1. Behind(p) <= SyncLimit + Slack
        BY <1>1, <1>2, <1>3, <2>1, <2>4, <3>2
      <4> QED BY <1>1, <1>2, <1>3, <2>1, <2>2, <4>1
    <3> QED BY <3>1, <3>2
  <2> QED BY <2>3, <2>4
<1>10. CASE QuietStep
  <2>1. /\ p \in Present /\ Same(p) /\ UNCHANGED << syncCounter, lagScreen >>
        /\ (phase' = "actions" => phase = "actions") /\ Slack' = Slack
    BY <1>10 DEF QuietStep, Slack
  <2>2. Behind(p)' = Behind(p)
    BY <2>1 DEF Behind, Same, SameProgress
  <2> QED BY <1>1, <1>2, <1>3, <2>1, <2>2 DEF Same
<1> QED BY <1>4, <1>5, <1>6, <1>7, <1>8, <1>9, <1>10, StepKinds

\* All players are within the bound in every reachable state.
LEMMA BoundInvariant == Spec => [](TypeOK /\ LoopOK /\ LagInv /\ BoundInv)
<1>1. Init => TypeOK /\ LoopOK /\ LagInv /\ BoundInv
  BY InitTyped, InitLag, InitBound
<1>2. TypeOK /\ LoopOK /\ LagInv /\ BoundInv /\ [Next]_vars
        => (TypeOK /\ LoopOK /\ LagInv /\ BoundInv)'
  BY StepTyped, StepLag, StepBound
<1> QED BY <1>1, <1>2, PTL DEF Spec

\* No player is ever more than one action beyond the sync limit behind, plus one for each
\* autosave, so the subtraction of the counters never wraps.
THEOREM LagIsBounded == Spec => []BoundedLag
<1>1. TypeOK /\ BoundInv => BoundedLag
  <2> SUFFICES ASSUME TypeOK, BoundInv, NEW p \in Present
               PROVE  Behind(p) <= SyncLimit + 1 + Slack
    BY DEF BoundedLag, Slack
  <2> QED BY BehindTyped, SlackTyped, LimitAssumption DEF BoundInv
<1> QED BY <1>1, BoundInvariant, PTL

\* Both together: the lag screens show exactly who lags, and whoever lags is held there
\* before the counters are so far apart that their difference wraps.
THEOREM LagScreenWorks == Spec => []LagOK
<1>1. LagScreenAccurate /\ BoundedLag => LagOK
  BY DEF LagOK
<1> QED BY <1>1, LagScreensAreAccurate, LagIsBounded, PTL

-----------------------------------------------------------------------------
(* Which checksums are compared.                                           *)

\* The queues of checksums that EventPlayerKeepAlive compares, and whom it removes
Sums == [p \in Present |-> IF p = next THEN Append(player[p].checkSums, player[p].world)
                           ELSE player[p].checkSums]
Kicked == IF AllReported(Sums) THEN Desynced(Sums) ELSE {}

\* The queues that are compared are the players', with the new checksum in its place.
LEMMA SumsTyped ==
    ASSUME TypeOK, NEW p \in Present
    PROVE  /\ Sums[p] \in Seq(Worlds)
           /\ Len(Sums[p]) = Len(player[p].checkSums) + (IF p = next THEN 1 ELSE 0)
<1>1. player[p].checkSums \in Seq(Worlds) /\ player[p].world \in Worlds
  BY PresentTyped DEF Player
<1>2. /\ Append(player[p].checkSums, player[p].world) \in Seq(Worlds)
      /\ Len(Append(player[p].checkSums, player[p].world)) = Len(player[p].checkSums) + 1
      /\ Len(player[p].checkSums) \in Nat
  BY <1>1, AppendProperties, LenProperties
<1>3. CASE p = next
  BY <1>2, <1>3 DEF Sums
<1>4. CASE p # next
  BY <1>1, <1>2, <1>4 DEF Sums
<1> QED BY <1>3, <1>4

\* What the comparison does to each player: its head is taken, or it is kicked, or
\* neither.
LEMMA ComparedSums ==
    ASSUME TypeOK, LoopOK, KeepAlive, NEW p \in Present
    PROVE  /\ player'[p].checkSums = IF AllReported(Sums) /\ p \in Staying \ Kicked
                                     THEN Tail(Sums[p]) ELSE Sums[p]
           /\ player'[p].leaving = IF p \in Kicked THEN "lost" ELSE player[p].leaving
           /\ player'[p].world = player[p].world
<1>1. player[p] \in Player /\ p \in Players /\ Sums[p] \in Seq(Worlds)
  BY PresentTyped, SumsTyped
<1> DEFINE compared == IF AllReported(Sums) THEN Compared(Kicked) ELSE {}
           sync == IF p = next THEN (player[p].sync + 1) % Width ELSE player[p].sync
           leaving == IF p \in Kicked THEN "lost" ELSE player[p].leaving
           checkSums == IF p \in compared /\ Sums[p] # << >> THEN Tail(Sums[p]) ELSE Sums[p]
<1>2. player'[p] = [player[p] EXCEPT !.sync = sync, !.leaving = leaving,
                                     !.checkSums = checkSums]
  BY <1>1 DEF KeepAlive, Sums, Kicked
<1>3. checkSums = IF AllReported(Sums) /\ p \in Staying \ Kicked
                  THEN Tail(Sums[p]) ELSE Sums[p]
  BY DEF Compared, AllReported
<1> HIDE DEF sync, leaving, checkSums
<1>4. /\ player'[p].checkSums = checkSums /\ player'[p].leaving = leaving
      /\ player'[p].world = player[p].world
  BY <1>1, <1>2 DEF Player
<1> QED BY <1>3, <1>4 DEF leaving

\* How many actions of a player have not been compared yet
Uncompared(p) == Behind(p) + Len(player[p].checkSums)

\* Each step takes as many of them from all the players who stay, or adds as many.
LEMMA StepAligned ==
    ASSUME TypeOK, LoopOK, LagInv, BoundInv, [Next]_vars
    PROVE  /\ Staying' \subseteq Staying
           /\ \E d \in Int : \A p \in Staying' : Uncompared(p)' = Uncompared(p) + d
<1>1. SyncLimit \in Nat /\ Width \in Nat /\ AutoSave \in BOOLEAN /\ Slack \in Nat
  BY LimitAssumption, OptionsAssumption, SlackTyped
<1>2. ASSUME NEW p \in Present
      PROVE  /\ Behind(p) \in Int /\ Len(player[p].checkSums) \in Int
             /\ (IF AutoSave THEN TRUE ELSE phase = "actions" /\ ~lagScreen)
                  => Behind(p) < Width - 1
  BY <1>1, BehindTyped, SlackTyped, PresentTyped DEF BoundInv, Player
<1>3. ASSUME Present' \subseteq Present,
             \A p \in Present' : SameProgress(p),
             \/ syncCounter' = syncCounter
             \/ /\ syncCounter' = NextCounter
                /\ AutoSave \/ (phase = "actions" /\ ~lagScreen)
      PROVE  /\ Staying' \subseteq Staying
             /\ \E d \in Int : \A p \in Staying' : Uncompared(p)' = Uncompared(p) + d
  <2>1. Staying' \subseteq Staying
    BY <1>3 DEF Staying, SameProgress
  <2>2. \A p \in Staying' : /\ p \in Present /\ player'[p].sync = player[p].sync
                            /\ player'[p].checkSums = player[p].checkSums
    BY <1>3 DEF Staying, SameProgress
  <2>3. CASE syncCounter' = syncCounter
    <3>1. \A p \in Staying' : Uncompared(p)' = Uncompared(p) + 0
      BY <1>2, <2>2, <2>3 DEF Uncompared, Behind
    <3> QED BY <2>1, <3>1
  <2>4. CASE syncCounter' = NextCounter /\ (AutoSave \/ (phase = "actions" /\ ~lagScreen))
    <3>1. ASSUME NEW p \in Staying' PROVE Uncompared(p)' = Uncompared(p) + 1
      <4>1. Behind(p)' = Behind(p) + 1
        BY <1>1, <1>2, <2>2, <2>4, SentAction
      <4> QED BY <1>2, <2>2, <4>1, SMTT(30) DEF Uncompared
    <3> QED BY <2>1, <3>1
  <2> QED BY <1>3, <2>3, <2>4
<1>4. CASE DeletePlayer
  <2>1. Present' \subseteq Present /\ \A p \in Present' : SameProgress(p)
    BY <1>4, DeletedPlayer DEF SameProgress
  <2> QED BY <1>3, <1>4, <2>1, DeletedPlayer
<1>5. CASE KeepAlive
  <2>1. Present' = Present /\ Staying' = Staying \ Kicked
    BY <1>5, AnsweredAction, ComparedSums DEF Staying
  <2> DEFINE d == IF AllReported(Sums) THEN -1 ELSE 0
  <2>2. d \in Int
    OBVIOUS
  <2>3. ASSUME NEW p \in Staying'
        PROVE  Uncompared(p)' = Uncompared(p) + d
    <3> DEFINE k == IF p = next THEN 1 ELSE 0
    <3>1. p \in Present /\ p \in Staying \ Kicked
      BY <2>1 DEF Staying
    <3>2. Behind(p)' = Behind(p) - k
      BY <1>2, <1>5, <3>1, AnsweredBehind
    <3>3. player'[p].checkSums = IF AllReported(Sums) THEN Tail(Sums[p]) ELSE Sums[p]
      BY <1>5, <3>1, ComparedSums
    <3>4. AllReported(Sums) => Sums[p] # << >>
      BY <3>1 DEF AllReported
    <3>5. /\ Len(player[p].checkSums) \in Int /\ Behind(p) \in Int /\ k \in Int
          /\ Len(Sums[p]) = Len(player[p].checkSums) + k
      <4>1. k \in Int
        OBVIOUS
      <4>2. Len(Sums[p]) = Len(player[p].checkSums) + k
        BY <3>1, SumsTyped
      <4> QED BY <1>2, <3>1, <4>1, <4>2
    <3> HIDE DEF k
    <3>6. Len(player'[p].checkSums) = Len(Sums[p]) + d
      <4>1. Len(Tail(Sums[p])) = Len(Sums[p]) - 1 \/ Sums[p] = << >>
        BY <3>1, SumsTyped, HeadTailProperties
      <4>2. Len(Sums[p]) \in Int
        BY <3>5
      <4>3. CASE AllReported(Sums)
        BY <3>3, <3>4, <4>1, <4>2, <4>3
      <4>4. CASE ~AllReported(Sums)
        <5>1. player'[p].checkSums = Sums[p] /\ d = 0
          BY <3>3, <4>4
        <5> HIDE DEF d
        <5> QED BY <4>2, <5>1
      <4> QED BY <4>3, <4>4
    <3> HIDE DEF d
    <3>7. Uncompared(p)' = Behind(p)' + Len(player'[p].checkSums)
      BY DEF Uncompared
    <3>8. Uncompared(p)' = (Behind(p) - k) + ((Len(player[p].checkSums) + k) + d)
      BY <3>2, <3>5, <3>6, <3>7
    <3> QED BY <2>2, <3>5, <3>8 DEF Uncompared
  <2> HIDE DEF d
  <2> QED BY <2>1, <2>2, <2>3
<1>6. CASE SendAllActions
  BY <1>3, <1>6 DEF SendAllActions, Present, SameProgress
<1>7. CASE NobodyLags
  BY <1>3, <1>7 DEF NobodyLags, Present, SameProgress
<1>8. CASE StartLagging \/ LagGoesOn \/ WaitTimeOver
  BY <1>3, <1>8, StartedLaggers, ReleasedLaggers
<1>9. CASE QuietStep
  BY <1>3, <1>9 DEF QuietStep, Same
<1> QED BY <1>4, <1>5, <1>6, <1>7, <1>8, <1>9, StepKinds

\* The compared checksums belong to the same action in every reachable state.
LEMMA AlignedInvariant ==
    Spec => [](TypeOK /\ LoopOK /\ LagInv /\ BoundInv /\ FramesAligned)
<1>1. Init => TypeOK /\ LoopOK /\ LagInv /\ BoundInv /\ FramesAligned
  <2>1. ASSUME Init PROVE FramesAligned
    BY <2>1 DEF Init, FramesAligned, Staying, Present, Behind
  <2> QED BY <2>1, InitTyped, InitLag, InitBound
<1>2. TypeOK /\ LoopOK /\ LagInv /\ BoundInv /\ FramesAligned /\ [Next]_vars
        => (TypeOK /\ LoopOK /\ LagInv /\ BoundInv /\ FramesAligned)'
  <2> SUFFICES ASSUME TypeOK, LoopOK, LagInv, BoundInv, FramesAligned, [Next]_vars
               PROVE  FramesAligned'
    BY StepTyped, StepLag, StepBound
  <2>1. PICK d \in Int : \A p \in Staying' : p \in Staying /\ Uncompared(p)' = Uncompared(p) + d
    BY StepAligned
  <2>2. \A p, q \in Staying' : Uncompared(p) = Uncompared(q)
    BY <2>1 DEF FramesAligned, Uncompared
  <2>3. \A p, q \in Staying' : Uncompared(p)' = Uncompared(q)'
    BY <2>1, <2>2
  <2> QED BY <2>3 DEF FramesAligned, Uncompared
<1> QED BY <1>1, <1>2, PTL DEF Spec

\* The first checksums of all players who stay belong to the same action.
THEOREM ChecksumsAreAligned == Spec => []FramesAligned
BY AlignedInvariant, PTL

-----------------------------------------------------------------------------
(* Who wins the comparison.                                                *)

\* The checksums waiting of a player who has never diverged are those of the true world.
LoyalInv == \A p \in Present : player[p].world = 0 =>
                \A i \in 1 .. Len(player[p].checkSums) : player[p].checkSums[i] = 0

\* The checksums of a player who has not diverged are those of the common game.
LEMMA LoyalSums ==
    ASSUME TypeOK, LoyalInv, NEW p \in Present, player[p].world = 0
    PROVE  \A i \in 1 .. Len(Sums[p]) : Sums[p][i] = 0
<1>1. /\ player[p].checkSums \in Seq(Worlds) /\ player[p].world \in Worlds
      /\ Len(player[p].checkSums) \in Nat
  BY PresentTyped, LenProperties DEF Player
<1>2. \A i \in 1 .. Len(player[p].checkSums) : player[p].checkSums[i] = 0
  BY DEF LoyalInv
<1>3. CASE p = next
  <2>1. Sums[p] = Append(player[p].checkSums, 0)
    BY <1>3 DEF Sums
  <2> QED BY <1>1, <1>2, <2>1, AppendProperties
<1>4. CASE p # next
  BY <1>2, <1>4 DEF Sums
<1> QED BY <1>3, <1>4

\* Every action keeps it so.
LEMMA StepLoyal ==
    ASSUME TypeOK, LoopOK, LagInv, LoyalInv, [Next]_vars
    PROVE  LoyalInv'
<1>1. ASSUME Present' \subseteq Present, \A p \in Present' : SameProgress(p)
      PROVE  LoyalInv'
  BY <1>1 DEF LoyalInv, SameProgress
<1>2. CASE KeepAlive
  <2> SUFFICES ASSUME NEW p \in Present', player'[p].world = 0,
                      NEW i \in 1 .. Len(player'[p].checkSums)
               PROVE  player'[p].checkSums[i] = 0
    BY DEF LoyalInv
  <2>1. p \in Present /\ player[p].world = 0
    BY <1>2, AnsweredAction, ComparedSums
  <2>2. /\ Sums[p] \in Seq(Worlds) /\ Len(Sums[p]) \in Nat
        /\ \A j \in 1 .. Len(Sums[p]) : Sums[p][j] = 0
    BY <2>1, SumsTyped, LoyalSums, LenProperties
  <2>3. CASE player'[p].checkSums = Sums[p]
    BY <2>2, <2>3
  <2>4. CASE Sums[p] # << >> /\ player'[p].checkSums = Tail(Sums[p])
    BY <2>2, <2>4, HeadTailProperties
  <2>5. AllReported(Sums) /\ p \in Staying => Sums[p] # << >>
    BY DEF AllReported
  <2> QED BY <1>2, <2>1, <2>3, <2>4, <2>5, ComparedSums
<1>3. CASE DeletePlayer
  BY <1>1, <1>3, DeletedPlayer DEF SameProgress
<1>4. CASE SendAllActions \/ NobodyLags
  BY <1>1, <1>4 DEF SendAllActions, NobodyLags, Present, SameProgress
<1>5. CASE StartLagging \/ LagGoesOn \/ WaitTimeOver
  BY <1>1, <1>5, StartedLaggers, ReleasedLaggers
<1>6. CASE QuietStep
  BY <1>1, <1>6 DEF QuietStep, Same
<1> QED BY <1>2, <1>3, <1>4, <1>5, <1>6, StepKinds

\* It is so in every reachable state.
LEMMA LoyalInvariant == Spec => [](TypeOK /\ LoopOK /\ LagInv /\ LoyalInv)
<1>1. Init => TypeOK /\ LoopOK /\ LagInv /\ LoyalInv
  <2>1. ASSUME Init PROVE LoyalInv
    BY <2>1 DEF Init, LoyalInv, Present
  <2> QED BY <2>1, InitTyped, InitLag
<1>2. TypeOK /\ LoopOK /\ LagInv /\ LoyalInv /\ [Next]_vars
        => (TypeOK /\ LoopOK /\ LagInv /\ LoyalInv)'
  BY StepTyped, StepLag, StepLoyal
<1> QED BY <1>1, <1>2, PTL DEF Spec

\* A majority whose first checksums agree has the one largest bin.
LEMMA MajorityWins ==
    ASSUME NEW loyal \in SUBSET Staying, NEW sums, AllReported(sums),
           2 * Cardinality(loyal) > Cardinality(Staying),
           \A p \in loyal : Head(sums[p]) = 0
    PROVE  loyal \cap Desynced(sums) = {}
<1>1. IsFiniteSet(Staying)
  BY PresentFinite, FS_Subset DEF Staying
<1>2. /\ IsFiniteSet(loyal) /\ IsFiniteSet(Staying \ loyal)
      /\ Cardinality(loyal) \in Nat /\ Cardinality(Staying) \in Nat
      /\ Cardinality(Staying \ loyal) = Cardinality(Staying) - Cardinality(loyal)
  <2>1. IsFiniteSet(loyal) /\ Staying \cap loyal = loyal
    BY <1>1, FS_Subset
  <2> QED BY <1>1, <2>1, FS_Difference, FS_CardinalityType
<1>3. /\ Cardinality(Bin(sums, 0)) \in Nat
      /\ Cardinality(loyal) <= Cardinality(Bin(sums, 0))
  <2>1. loyal \subseteq Bin(sums, 0) /\ Bin(sums, 0) \subseteq Staying
    BY DEF Bin
  <2> QED BY <1>1, <2>1, FS_Subset, FS_CardinalityType
<1>4. ASSUME NEW w \in Worlds, w # 0
      PROVE  /\ LargerThan(sums, 0, w) /\ ~LargerThan(sums, w, 0)
  <2>1. Bin(sums, w) \subseteq Staying \ loyal
    BY <1>4 DEF Bin
  <2>2. /\ Cardinality(Bin(sums, w)) \in Nat
        /\ Cardinality(Bin(sums, w)) <= Cardinality(Staying \ loyal)
    BY <1>2, <2>1, FS_Subset, FS_CardinalityType
  <2> QED BY <1>2, <1>3, <2>2 DEF LargerThan
<1>5. 0 \in Worlds /\ ~LargerThan(sums, 0, 0)
  BY <1>3, WorldsAssumption DEF LargerThan
<1>6. LargestBins(sums) = {0}
  BY <1>4, <1>5 DEF LargestBins
<1>7. Cardinality(LargestBins(sums)) = 1
  BY <1>6, FS_Singleton
<1> QED BY <1>6, <1>7 DEF Desynced

\* However the others diverge, a majority that never did loses none of its players to the
\* comparison, whenever their keepalives arrive.
THEOREM MajorityPrevails == Spec => MajorityStays
<1>1. ASSUME TypeOK, LoopOK, LoyalInv, KeepAlive,
             2 * Cardinality({p \in Staying : player[p].world = 0}) > Cardinality(Staying)
      PROVE  \A p \in {q \in Staying : player[q].world = 0} : player'[p].leaving = "no"
  <2> DEFINE loyal == {p \in Staying : player[p].world = 0}
  <2>1. ASSUME NEW p \in loyal
        PROVE  /\ p \in Present /\ player[p].leaving = "no"
               /\ AllReported(Sums) => Head(Sums[p]) = 0
    <3>1. p \in Present /\ p \in Staying /\ player[p].leaving = "no" /\ player[p].world = 0
      BY <2>1 DEF Staying
    <3>2. /\ Sums[p] \in Seq(Worlds) /\ Len(Sums[p]) \in Nat
          /\ \A i \in 1 .. Len(Sums[p]) : Sums[p][i] = 0
      BY <1>1, <3>1, SumsTyped, LoyalSums, LenProperties
    <3>3. AllReported(Sums) => Sums[p] # << >>
      BY <3>1 DEF AllReported
    <3> QED BY <3>1, <3>2, <3>3
  <2>2. loyal \cap Kicked = {}
    <3>1. CASE AllReported(Sums)
      <4>1. loyal \in SUBSET Staying /\ \A p \in loyal : Head(Sums[p]) = 0
        BY <2>1, <3>1
      <4>2. 2 * Cardinality(loyal) > Cardinality(Staying)
        BY <1>1
      <4> HIDE DEF loyal
      <4> QED BY <3>1, <4>1, <4>2, MajorityWins DEF Kicked
    <3> QED BY <3>1 DEF Kicked
  <2> QED BY <1>1, <2>1, <2>2, ComparedSums
<1>2. TypeOK /\ LoopOK /\ LoyalInv /\ [Next]_vars
        => [KeepAlive =>
              LET loyal == {p \in Staying : player[p].world = 0}
              IN  2 * Cardinality(loyal) > Cardinality(Staying)
                    => \A p \in loyal : player'[p].leaving = "no"]_vars
  BY <1>1
<1> QED BY <1>2, LoyalInvariant, PTL DEF Spec, MajorityStays

-----------------------------------------------------------------------------
(* The votekick, for any number of names, players, slots and any           *)
(* percentage of votes.                                                    *)

USE VoteKickAssumption

(* ceil( votes needed ), computed in integers, is enough.                   *)
LEMMA RoundedUp ==
  ASSUME NEW n \in Int
  PROVE  100 * ((n + 99) \div 100) >= n /\ (n + 99) \div 100 \in Int
BY SMT

\* Every set of players is finite.
LEMMA ObjectsFinite ==
  ASSUME NEW S, S \subseteq Objects
  PROVE  IsFiniteSet(S) /\ Cardinality(S) \in Nat
<1>1. IsFiniteSet(Objects)
  BY FS_Interval DEF Objects
<1> QED BY <1>1, FS_Subset, FS_CardinalityType

(* A newcomer takes the slot of the one who is displaced, or a free one.    *)
LEMMA NewcomerSeated ==
  ASSUME NEW S, NEW out, NEW p, S \subseteq Objects, out \subseteq S, p \in Objects,
         Cardinality(S) <= NumSlots,
         IF Cardinality(S) < NumSlots THEN out = {} ELSE Cardinality(out) = 1
  PROVE  Cardinality((S \ out) \cup {p}) <= NumSlots
<1>1. /\ IsFiniteSet(S) /\ Cardinality(S) \in Nat
      /\ IsFiniteSet(S \ out) /\ Cardinality(S \ out) \in Nat
  BY ObjectsFinite
<1>2. Cardinality((S \ out) \cup {p}) <= Cardinality(S \ out) + 1
  <2>1. Cardinality((S \ out) \cup {p}) =
          IF p \in S \ out THEN Cardinality(S \ out) ELSE Cardinality(S \ out) + 1
    BY <1>1, FS_AddElement
  <2> QED BY <1>1, <2>1
<1>3. Cardinality(S \ out) + 1 <= NumSlots
  <2>1. CASE Cardinality(S) < NumSlots
    <3>1. S \ out = S
      BY <2>1
    <3> QED BY <1>1, <2>1, <3>1
  <2>2. CASE ~(Cardinality(S) < NumSlots)
    <3>1. PICK q : out = {q}
      BY <2>2, ObjectsFinite, FS_Singleton
    <3>2. Cardinality(S \ {q}) = Cardinality(S) - 1
      BY <1>1, <3>1, FS_RemoveElement
    <3> QED BY <1>1, <3>1, <3>2
  <2> QED BY <2>1, <2>2
<1>4. Cardinality((S \ out) \cup {p}) \in Nat
  BY <1>1, ObjectsFinite
<1> QED BY <1>1, <1>2, <1>3, <1>4

\* Fewer players than slots stay fewer than slots.
LEMMA FewerSeated ==
  ASSUME NEW S, NEW T, S \subseteq Objects, T \subseteq S, Cardinality(S) <= NumSlots
  PROVE  Cardinality(T) <= NumSlots
<1>1. IsFiniteSet(S) /\ Cardinality(S) \in Nat /\ Cardinality(T) \in Nat
  BY ObjectsFinite
<1>2. Cardinality(T) <= Cardinality(S)
  BY <1>1, FS_Subset
<1> QED BY <1>1, <1>2

-----------------------------------------------------------------------------
(* The inductive invariant: while a vote runs, the flags that are counted  *)
(* are those of players who took part in it.                               *)

FlagsAreBallots == victim # None => kickVote \subseteq ballots
VoteInv == VotesOK /\ FlagsAreBallots

\* A lobby without players has no vote.
LEMMA InitVote == VoteKickInit => VoteInv
<1> SUFFICES ASSUME VoteKickInit PROVE VoteInv
  OBVIOUS
<1>1. Cardinality({}) = 0
  BY FS_EmptySet
<1>2. present = {p \in Objects : name[p] # None}
  BY DEF VoteKickInit
<1>3. Cardinality(seated) <= NumSlots
  BY <1>1 DEF VoteKickInit
<1> QED BY <1>2, <1>3 DEF VoteKickInit, VoteInv, VotesOK, VoteKickTypeOK, NobodyLeavesAVote, FlagsAreBallots

\* A player who joins has not voted.
LEMMA JoinStep ==
  ASSUME VoteInv, NEW p \in Objects, NEW n \in Names, Join(p, n)
  PROVE  VoteInv'
<1> USE DEF VoteInv, VotesOK, VoteKickTypeOK
<1>1. PICK out \in SUBSET {q \in seated : name[q] \notin ReservedNames} :
        /\ IF Cardinality(seated) < NumSlots THEN out = {}
           ELSE n \in ReservedNames /\ Cardinality(out) = 1
        /\ name' = [name EXCEPT ![p] = n]
        /\ present' = present \cup {p}
        /\ seated' = (seated \ out) \cup {p}
        /\ marked' = marked \cup out /\ announced' = announced \cup out
  BY DEF Join
<1>2. p \notin present /\ UNCHANGED << inGame, vote >>
  BY DEF Join
<1>3. Cardinality(seated') <= NumSlots
  <2>1. seated \subseteq Objects /\ out \subseteq seated
    OBVIOUS
  <2>2. IF Cardinality(seated) < NumSlots THEN out = {} ELSE Cardinality(out) = 1
    BY <1>1
  <2>3. Cardinality((seated \ out) \cup {p}) <= NumSlots
    BY <2>1, <2>2, NewcomerSeated
  <2> QED BY <1>1, <2>3
<1>4. VoteKickTypeOK'
  BY <1>1, <1>2, <1>3 DEF vote
<1> QED BY <1>2, <1>4 DEF vote, NobodyLeavesAVote, FlagsAreBallots

\* A player who is marked stays in m_Players but loses its slot.
LEMMA MarkStep ==
  ASSUME VoteInv, NEW p \in Objects, Mark(p)
  PROVE  VoteInv'
<1> USE DEF VoteInv, VotesOK, VoteKickTypeOK, Mark, SeatedWithout
<1>1. Cardinality(seated') <= NumSlots
  BY FewerSeated
<1> QED BY <1>1 DEF vote, NobodyLeavesAVote, FlagsAreBallots

\* A player who is deleted ends the vote, but if its departure was announced before.
LEMMA DeleteStep ==
  ASSUME VoteInv, NEW p \in Objects, EventPlayerDeleted(p)
  PROVE  VoteInv'
<1> USE DEF VoteInv, VotesOK, VoteKickTypeOK, EventPlayerDeleted, AbortVote
<1>1. Cardinality(seated') <= NumSlots
  BY FewerSeated
<1>2. VoteKickTypeOK'
  BY <1>1
<1>3. NobodyLeavesAVote' /\ FlagsAreBallots'
  BY DEF NobodyLeavesAVote, FlagsAreBallots
<1> QED BY <1>2, <1>3

\* A vote begins with the ballot of the one who asks for it.
LEMMA VoteStep ==
  ASSUME VoteInv, NEW p \in Objects, NEW q \in Objects, VoteKick(p, q)
  PROVE  VoteInv'
<1>1. VoteKickTypeOK'
  BY DEF VoteInv, VotesOK, VoteKickTypeOK, VoteKick, StartAfresh, Live, people
<1>2. NobodyLeavesAVote' /\ FlagsAreBallots'
  BY DEF VoteKick, StartAfresh, NobodyLeavesAVote, FlagsAreBallots
<1> QED BY <1>1, <1>2 DEF VoteInv, VotesOK

\* A ballot is counted once; the last one that is needed ends the vote.
LEMMA YesStep ==
  ASSUME VoteInv, NEW p \in Objects, YesToWait(p) \/ YesToKick(p)
  PROVE  VoteInv'
<1> USE DEF VoteInv, VotesOK, VoteKickTypeOK, MayVote
<1>1. CASE YesToWait(p)
  BY <1>1 DEF YesToWait, people, NobodyLeavesAVote, FlagsAreBallots
<1>2. CASE YesToKick(p)
  <2>1. Cardinality(seated') <= NumSlots
    BY <1>2, FewerSeated DEF YesToKick, SeatedWithout
  <2>2. Named(victim) \subseteq present
    BY DEF Named, Live
  <2>3. VoteKickTypeOK'
    BY <1>2, <2>1, <2>2 DEF YesToKick, NoVote, SeatedWithout
  <2> QED BY <1>2, <2>3 DEF YesToKick, NoVote, NobodyLeavesAVote, FlagsAreBallots
<1> QED BY <1>1, <1>2

\* Every action keeps the invariant.
LEMMA VoteInvStep ==
  ASSUME VoteInv, [VoteKickNext]_voteKickVars
  PROVE  VoteInv'
<1>1. ASSUME NEW p \in Objects, NEW n \in Names, Join(p, n) PROVE VoteInv'
  BY <1>1, JoinStep
<1>2. ASSUME NEW p \in Objects, Mark(p) PROVE VoteInv'
  BY <1>2, MarkStep
<1>3. ASSUME NEW p \in Objects, EventPlayerDeleted(p) PROVE VoteInv'
  BY <1>3, DeleteStep
<1>4. ASSUME NEW p \in Objects, YesToWait(p) \/ YesToKick(p) PROVE VoteInv'
  BY <1>4, YesStep
<1>5. ASSUME NEW p \in Objects, NEW q \in Objects, VoteKick(p, q) PROVE VoteInv'
  BY <1>5, VoteStep
<1>6. CASE EventGameStarted
  BY <1>6 DEF EventGameStarted, vote, VoteInv, VotesOK, VoteKickTypeOK, NobodyLeavesAVote, FlagsAreBallots
<1>7. CASE EndVote
  BY <1>7 DEF EndVote, NoVote, people, VoteInv, VotesOK, VoteKickTypeOK, NobodyLeavesAVote, FlagsAreBallots
<1>8. CASE UNCHANGED voteKickVars
  BY <1>8 DEF voteKickVars, people, vote, VoteInv, VotesOK, VoteKickTypeOK, NobodyLeavesAVote, FlagsAreBallots
<1> QED BY <1>1, <1>2, <1>3, <1>4, <1>5, <1>6, <1>7, <1>8 DEF VoteKickNext

(* Nobody who takes part leaves a running vote, except for the displaced:  *)
(* EventPlayerDeleted aborts it for everybody else.                        *)
THEOREM NobodyLeavesRunningVote == VoteKickSpec => []VotesOK
<1>1. VoteInv => VotesOK
  BY DEF VoteInv
<1> QED BY <1>1, InitVote, VoteInvStep, PTL DEF VoteKickSpec

-----------------------------------------------------------------------------
(* Enough flags of players who voted are enough votes.                     *)
LEMMA EnoughVotes ==
  ASSUME VoteInv, NEW p \in Objects, YesToKick(p)
  PROVE  100 * Cardinality(ballots \cup (kickVote' \ kickVote))
            >= Percentage * (NumHumanPlayers - 1)
<1> USE DEF VoteInv, VotesOK, VoteKickTypeOK
<1>1. kickVote' \ kickVote = {p} /\ kickVote \subseteq ballots
  BY DEF YesToKick, MayVote, FlagsAreBallots
<1>2. Live \subseteq Objects /\ ballots \cup {p} \subseteq Objects
  BY DEF Live
<1>3. NumHumanPlayers \in Nat
  BY <1>2, ObjectsFinite DEF NumHumanPlayers
<1>4. /\ IsFiniteSet(ballots \cup {p}) /\ Cardinality(ballots \cup {p}) \in Nat
      /\ Cardinality(kickVote \cup {p}) \in Nat
  BY <1>1, <1>2, ObjectsFinite
<1>5. Cardinality(kickVote \cup {p}) <= Cardinality(ballots \cup {p})
  BY <1>1, <1>4, FS_Subset
<1>6. Cardinality(kickVote \cup {p}) >= VotesNeeded
  BY DEF YesToKick
<1>7. (NumHumanPlayers - 1) * Percentage \in Int
  BY <1>3
<1>8. 100 * VotesNeeded >= (NumHumanPlayers - 1) * Percentage /\ VotesNeeded \in Int
  BY <1>7, RoundedUp DEF VotesNeeded
<1>9. 100 * Cardinality(ballots \cup {p}) >= (NumHumanPlayers - 1) * Percentage
  BY <1>4, <1>5, <1>6, <1>7, <1>8
<1>10. (NumHumanPlayers - 1) * Percentage = Percentage * (NumHumanPlayers - 1)
  BY <1>3
<1> QED BY <1>1, <1>9, <1>10

(* Whoever is voted out is voted out by the share of the votes that the    *)
(* configuration asks for, for every percentage and number of players.     *)
THEOREM ShareIsReached == VoteKickSpec => VotedOutByShare
<1> DEFINE A == victim # None /\ victim' = None /\ ~(marked' \subseteq marked) =>
                  100 * Cardinality(ballots \cup (kickVote' \ kickVote))
                      >= Percentage * (NumHumanPlayers - 1)
<1>1. ASSUME VoteInv, [VoteKickNext]_voteKickVars PROVE A
  <2> SUFFICES ASSUME victim # None, victim' = None, ~(marked' \subseteq marked)
               PROVE  \E p \in Objects : YesToKick(p)
    BY <1>1, EnoughVotes
  <2>1. ASSUME NEW p \in Objects, NEW n \in Names, Join(p, n) PROVE FALSE
    BY <2>1 DEF Join, vote
  <2>2. ASSUME NEW p \in Objects, Mark(p) PROVE FALSE
    BY <2>2 DEF Mark, vote
  <2>3. ASSUME NEW p \in Objects, EventPlayerDeleted(p) PROVE FALSE
    BY <2>3 DEF EventPlayerDeleted
  <2>4. ASSUME NEW p \in Objects, YesToWait(p) PROVE FALSE
    BY <2>4 DEF YesToWait, people
  <2>5. ASSUME NEW p \in Objects, NEW q \in Objects, VoteKick(p, q) PROVE FALSE
    BY <2>5 DEF VoteKick
  <2>6. CASE EventGameStarted
    BY <2>6 DEF EventGameStarted
  <2>7. CASE EndVote
    BY <2>7 DEF EndVote, people
  <2>8. CASE UNCHANGED voteKickVars
    BY <2>8 DEF voteKickVars, people
  <2> QED BY <1>1, <2>1, <2>2, <2>3, <2>4, <2>5, <2>6, <2>7, <2>8 DEF VoteKickNext
<1>2. [][VoteKickNext]_voteKickVars /\ []VoteInv => [][A]_voteKickVars
  <2>1. VoteInv /\ [VoteKickNext]_voteKickVars => [A]_voteKickVars
    BY <1>1
  <2> QED BY <2>1, PTL
<1>3. VoteKickSpec => []VoteInv
  BY InitVote, VoteInvStep, PTL DEF VoteKickSpec
<1> QED BY <1>2, <1>3 DEF VoteKickSpec, VotedOutByShare
===============================================================================
