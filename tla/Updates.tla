------------------------------- MODULE Updates -------------------------------
(***************************************************************************)
(* What the clients and the replay of one game are sent from the moment it *)
(* starts (CBaseGame::EventGameStarted): who has loaded the map, who has   *)
(* left, and the updates, which hold the players' actions.  With "load in  *)
(* game" those who have loaded wait behind a lag screen, while packets for *)
(* those who are still loading are kept for them.                          *)
(*                                                                         *)
(* Packets of a player are handled in its turn of the loop over m_Players, *)
(* timers may be due whenever they are looked at: each handler is a step,  *)
(* in any order.  The lag screen of a game that has loaded is RunningGame's*)
(* subject.                                                                *)
(***************************************************************************)
EXTENDS Integers, Sequences, FiniteSets, SequencesExt

CONSTANTS NumPlayers,
          GProxyPlayers, \* those who use GProxy++
          LoadInGames,   \* whether games may, or must not, load in game
          EmptyActions,  \* m_GProxyEmptyActions
          AutoSave,      \* m_AutoSave
          Lengths,       \* how long players' actions are
          MaxLength,     \* longer ones are refused; 1027 in the code
          SizeLimit,     \* of the actions in one packet; 1452 in the code
          \* bounds for TLC: actions, updates, and resets of the load-in-game screen
          MaxActions, MaxUpdates, MaxResets

Players == 1 .. NumPlayers
ASSUME UpdatesAssumption ==
    /\ NumPlayers \in Nat /\ GProxyPlayers \subseteq Players
    /\ LoadInGames \subseteq BOOLEAN /\ AutoSave \in BOOLEAN /\ EmptyActions \in 0 .. 9
    /\ Lengths \subseteq Nat /\ MaxLength \in Nat /\ SizeLimit \in Nat \ {0}
    /\ MaxLength <= SizeLimit
ASSUME BoundsAssumption == {MaxActions, MaxUpdates, MaxResets} \subseteq Nat

VARIABLES
    loadInGame,   \* m_LoadInGame
    gameLoading,  \* m_GameLoading; when it is FALSE, m_GameLoaded
    present,      \* the players in m_Players
    finished,     \* the players whose m_FinishedLoading is set
    buffer,       \* m_LoadInGameData of each player
    sent,         \* what each player's connection was given, in order
    leftLoading,  \* m_LoadingBlocks of the replay
    replay,       \* m_CompiledBlocks of the replay
    actions,      \* m_Actions
    accepted, updates, resets

recording == << leftLoading, replay >>
counts == << accepted, updates, resets >>
vars == << loadInGame, gameLoading, present, finished, buffer, sent, recording, actions, counts >>

-----------------------------------------------------------------------------
(* Packets.  An action is known by its number; `time` is FALSE in an       *)
(* update of 0 milliseconds.                                               *)

LoadedOthers(p) == [type |-> "loaded", who |-> p]
Leave(p) == [type |-> "leave", who |-> p]
StartLag(late) == [type |-> "startlag", who |-> late]
StopLag(p) == [type |-> "stoplag", who |-> p]
Incoming(batch, time) == [type |-> "update", actions |-> batch, time |-> time]
Overflow(batch) == [type |-> "overflow", actions |-> batch]

EmptyUpdate == << Incoming(<< >>, FALSE) >>
Empties == [i \in 1 .. EmptyActions |-> EmptyUpdate[1]]

Loading == present \ finished
UsingGProxy == present \cap GProxyPlayers # {}

\* Before an update come as many empty ones as GProxy++ may spend on a reconnection; it
\* inserts them itself for the players who use it.
EmptiesFor(p) == IF UsingGProxy /\ p \notin GProxyPlayers THEN Empties ELSE << >>
EmptiesInReplay == IF UsingGProxy THEN Empties ELSE << >>

\* How long the actions of a batch are together
Length(batch) ==
    LET upTo[n \in 0 .. Len(batch)] == IF n = 0 THEN 0 ELSE upTo[n - 1] + batch[n].length
    IN  upTo[Len(batch)]

\* (fault) the length of the action that is added does not count
FitsSoFar(batch, a) == Length(batch) <= SizeLimit
Fits(batch, a) == Length(batch) + a.length <= SizeLimit

\* An action goes into the last batch, or into a new one when that is full.
WithNext(batches, a) ==
    IF Last(batches) = << >> \/ Fits(Last(batches), a)
    THEN Front(batches) \o << Append(Last(batches), a) >>
    ELSE Append(batches, << a >>)

\* The actions are cut into batches, each as long as a packet allows.
Batches(queue) ==
    LET upTo[n \in 0 .. Len(queue)] ==
            IF n = 0 THEN << << >> >> ELSE WithNext(upTo[n - 1], queue[n])
    IN  upTo[Len(queue)]

\* The last batch makes the update, those before it go ahead of it.
UpdateOf(queue) ==
    LET batches == Batches(queue)
    IN  [i \in 1 .. Len(batches) |-> IF i = Len(batches) THEN Incoming(batches[i], TRUE)
                                     ELSE Overflow(batches[i])]

-----------------------------------------------------------------------------
\* EventGameStarted: with load in game everybody will be told that everybody has loaded.
Init ==
    /\ loadInGame \in LoadInGames /\ gameLoading = TRUE /\ present = Players /\ finished = {}
    /\ buffer = [p \in Players |-> IF loadInGame THEN [q \in Players |-> LoadedOthers(q)]
                                   ELSE << >>]
    /\ sent = [p \in Players |-> << >>]
    /\ leftLoading = << >> /\ replay = << >> /\ actions = << >>
    /\ accepted = 0 /\ updates = 0 /\ resets = 0

\* What was kept for the player is sent now, then the lag screen that shows who is loading.
CatchUp(p) ==
    buffer[p] \o (IF Loading # {p} THEN << StartLag(Loading \ {p}) >> ELSE << >>)

EventPlayerLoaded(p) ==
    /\ gameLoading /\ p \in Loading
    /\ finished' = finished \cup {p}
    /\ IF loadInGame
       THEN /\ sent' = [q \in Players |->
                          CASE q = p -> sent[q] \o CatchUp(p)
                            [] q \in present \cap finished -> Append(sent[q], StopLag(p))
                            [] OTHER -> sent[q]]
            /\ buffer' = [buffer EXCEPT ![p] = << >>]
       ELSE /\ sent' = [q \in Players |-> IF q \in present THEN Append(sent[q], LoadedOthers(p))
                                          ELSE sent[q]]
            /\ UNCHANGED buffer
    /\ UNCHANGED << loadInGame, gameLoading, present, recording, actions, counts >>

EventGameLoaded ==
    /\ gameLoading /\ Loading = {}
    /\ gameLoading' = FALSE
    /\ UNCHANGED << loadInGame, present, finished, buffer, sent, recording, actions, counts >>

Stops == SetToSeq({StopLag(q) : q \in Loading})

\* (fault) players who are loading are not kept the update
KeptNoUpdate(p) == << >>
\* What is kept of a reset for a player who is still loading
KeptUpdate(p) == EmptiesFor(p) \o EmptyUpdate

\* (fault) the empty update is sent behind the lag screen
ResetBehindScreen(p) == EmptiesFor(p) \o EmptyUpdate \o Stops \o << StartLag(Loading) >>
\* What a player who has loaded is sent in a reset
Reset(p) == Stops \o EmptiesFor(p) \o EmptyUpdate \o << StartLag(Loading) >>

\* The load-in-game screen is reset every 30 seconds.
ResetLagScreen ==
    /\ gameLoading /\ loadInGame /\ Loading # {} /\ resets < MaxResets
    /\ sent' = [p \in Players |-> IF p \in present \cap finished THEN sent[p] \o Reset(p)
                                  ELSE sent[p]]
    /\ buffer' = [p \in Players |-> IF p \in Loading THEN buffer[p] \o KeptUpdate(p)
                                    ELSE buffer[p]]
    /\ replay' = replay \o EmptiesInReplay \o EmptyUpdate
    /\ resets' = resets + 1
    /\ UNCHANGED << loadInGame, gameLoading, present, finished, leftLoading, actions, accepted,
                    updates >>

-----------------------------------------------------------------------------
(* Actions and departures.                                                 *)

\* EventPlayerAction
PlayerAction(p) ==
    /\ p \in present /\ accepted < MaxActions
    /\ \E l \in Lengths :
         /\ l <= MaxLength
         /\ actions' = Append(actions, [number |-> accepted + 1, length |-> l])
    /\ accepted' = accepted + 1
    /\ UNCHANGED << loadInGame, gameLoading, present, finished, buffer, sent, recording,
                    updates, resets >>

Recorded(queue) == UpdateOf(queue)

UpdateFor(p, queue) == IF p \in present THEN EmptiesFor(p) \o UpdateOf(queue) ELSE << >>

SendAllActions ==
    /\ ~gameLoading /\ updates < MaxUpdates /\ present # {}
    /\ sent' = [p \in Players |-> sent[p] \o UpdateFor(p, actions)]
    /\ replay' = replay \o EmptiesInReplay \o Recorded(actions)
    /\ actions' = << >> /\ updates' = updates + 1
    /\ UNCHANGED << loadInGame, gameLoading, present, finished, buffer, leftLoading, accepted,
                    resets >>

\* What q has been sent after p left while maps are loaded in game: those who have loaded
\* are told at once, and p disappears from their lag screens.
LeaveSeenBy(p, q) ==
    IF q \in finished
    THEN sent[q] \o (IF p \in Loading THEN << StopLag(p) >> ELSE << >>) \o << Leave(p) >>
    ELSE sent[q]

LeaveWhileLoadingInGame(p) ==
    /\ sent' = [q \in Players |-> IF q \in present THEN LeaveSeenBy(p, q) ELSE sent[q]]
    /\ buffer' = [q \in Players |-> IF q \in Loading THEN Append(buffer[q], Leave(p))
                                    ELSE buffer[q]]
    /\ replay' = Append(replay, Leave(p))
    /\ UNCHANGED << leftLoading, actions, accepted >>

LeaveWhileLoading(p) ==
    /\ sent' = [q \in Players |-> IF q \in present THEN Append(sent[q], Leave(p)) ELSE sent[q]]
    /\ leftLoading' = Append(leftLoading, Leave(p))
    /\ UNCHANGED << buffer, replay, actions, accepted >>

\* With autosave a disconnection makes everybody save the game: the last action of an
\* update that is sent at once.
LeaveGame(p, saving) ==
    LET queue == IF saving THEN Append(actions, [number |-> accepted + 1, length |-> 1])
                 ELSE << >>
    IN  /\ sent' = [q \in Players |->
                     IF q \in present
                     THEN sent[q] \o (IF saving THEN UpdateFor(q, queue) ELSE << >>)
                                  \o << Leave(p) >>
                     ELSE sent[q]]
        /\ replay' = replay \o (IF saving THEN EmptiesInReplay \o Recorded(queue) ELSE << >>)
                            \o << Leave(p) >>
        /\ IF saving THEN actions' = << >> /\ accepted' = accepted + 1
                     ELSE UNCHANGED << actions, accepted >>
        /\ UNCHANGED << buffer, leftLoading >>

\* EventPlayerDeleted: the player is still in m_Players.
EventPlayerDeleted(p) ==
    /\ p \in present
    /\ present' = present \ {p}
    /\ CASE gameLoading /\ loadInGame -> LeaveWhileLoadingInGame(p)
         [] gameLoading /\ ~loadInGame -> LeaveWhileLoading(p)
         [] OTHER -> \E saving \in {FALSE, AutoSave} : LeaveGame(p, saving)
    /\ UNCHANGED << loadInGame, gameLoading, finished, updates, resets >>

Next ==
    \/ \E p \in Players : EventPlayerLoaded(p) \/ PlayerAction(p) \/ EventPlayerDeleted(p)
    \/ EventGameLoaded \/ ResetLagScreen \/ SendAllActions

Spec == Init /\ [][Next]_vars

-----------------------------------------------------------------------------
(* Properties.                                                             *)

TypeOK ==
    /\ {loadInGame, gameLoading} \subseteq BOOLEAN
    /\ present \subseteq Players /\ finished \subseteq Players
    /\ \A p \in Players : \A i \in DOMAIN buffer[p] :
         buffer[p][i].type \in {"loaded", "leave", "update"}
    /\ \A i \in DOMAIN replay : replay[i].type \in {"leave", "update", "overflow"}
    /\ \A i \in DOMAIN leftLoading : leftLoading[i].type = "leave"
    /\ accepted \in 0 .. MaxActions + NumPlayers
    /\ updates \in 0 .. MaxUpdates /\ resets \in 0 .. MaxResets

\* GProxy++ inserts the empty updates before each update; the packets that overflow
\* belong to the update behind them.
BeginsUpdate(s, i) == s[i].type \in {"update", "overflow"} /\
                      (i = 1 \/ s[i - 1].type # "overflow")
Matters(m) == \/ m.type \in {"leave", "update", "overflow"}
              \/ loadInGame /\ m.type = "loaded"

\* What reaches p's client of what p was sent: the messages that desync the game when they
\* are lost, with the empty updates of GProxy++.
Reaching(p, s) ==
    FlattenSeq([i \in DOMAIN s |->
        IF ~Matters(s[i]) THEN << >>
        ELSE IF p \in GProxyPlayers /\ BeginsUpdate(s, i) THEN Append(Empties, s[i])
        ELSE << s[i] >>])
Received(p) == Reaching(p, sent[p])

Log == (IF loadInGame THEN [q \in Players |-> LoadedOthers(q)] ELSE << >>)
       \o leftLoading \o replay
Same == INSTANCE Broadcast WITH
            Clients <- Players, log <- Log, members <- present,
            waiting <- IF loadInGame /\ gameLoading THEN Loading ELSE {},
            received <- [p \in Players |-> Received(p)]

(* The comments of CBaseGame::Update ask for it: "we must make sure every  *)
(* player receives the exact same desyncable game data (updates and player *)
(* leaves) in the exact same order", whoever loads, leaves or reconnects   *)
(* when; and the replay tells the same game.                               *)
SameGame == Same!Spec

ActionsOf(m) == IF m.type = "leave" THEN << >> ELSE m.actions

\* Every action that was accepted is in exactly one packet of the game, in the order in which
\* the players sent them, or still in the queue; and no packet is too long.
ActionsInOrder ==
    LET told == FlattenSeq([i \in DOMAIN replay |-> ActionsOf(replay[i])]) \o actions
    IN  /\ Len(told) = accepted
        /\ \A i \in DOMAIN told : told[i].number = i
        /\ \A i \in DOMAIN replay : Length(ActionsOf(replay[i])) <= SizeLimit

\* Who is on the load-in-game screen after a player was sent s
Screen(s) ==
    {q \in Players : \E i \in DOMAIN s :
        /\ s[i].type = "startlag" /\ q \in s[i].who
        /\ \A j \in i + 1 .. Len(s) : s[j] # StopLag(q)}

\* A player who has loaded sees exactly who is still loading, until the game begins; and an
\* update reaches no client while its screen is up, as Warcraft III expects.
LoadScreenRight ==
    loadInGame => \A p \in present \cap finished :
        /\ Screen(sent[p]) = Loading
        /\ \A i \in DOMAIN sent[p] :
             sent[p][i].type \in {"update", "overflow"}
                => Screen(SubSeq(sent[p], 1, i - 1)) = {}
ScreensOK == TypeOK /\ LoadScreenRight
=============================================================================
