# A verification project for GHost++ / GHostXS

GHostXS (a fork of GHost++ 17.1) hosts Warcraft III custom games: it logs on to
battle.net, announces a game, runs the lobby in which up to twelve players take
slots, relays the players' actions while the game runs, and writes bans and
statistics to a database.  These modules model the parts of its C++ code in
`src/source/ghost/` that keep state, check the models with TLC on small instances
and prove theorems about them with TLAPS.  `PROJECT.json` maps every definition to
the lines of code it stands for.

## 1. The system

Everything but the database workers runs in one thread.  `CGHost::Update`
(`ghost.cpp:733`) is called in a loop: it updates the current game (the lobby),
the running games, the battle.net connections, the GProxy++ reconnection sockets
and the autohost timer, in that order.  Components talk by calls and by shared
objects; callbacks are the `Event...` methods that `CGHost`, `CBNET` and the
players call on the game.

| component | state it keeps | operations | what is hard | modules |
|---|---|---|---|---|
| lobby: `CBaseGame` until `EventGameStarted` (`game_base.cpp`) | players, potential players, slots, PIDs of virtual host and fake player, owner, reserved names, countdown | update, join, leave, map size, admin commands, start | commands, joins, time-outs and the countdown interleave at fixed points of one update; deletions are deferred; PIDs are reused | `Lobby` |
| slots (`gameslot.cpp`, `game_base.cpp:2999-3160`, 3978-4165) | team, colour and handicap of each slot, by three kinds of maps | change team, colour, handicap; open, close, swap, shuffle, computers; the HCL string | the same slot is rewritten by many commands in any order | `Slots` |
| matchmaking (`game_base.cpp:2367-2700`, 4262-4465) | scores asked for, players, teams | join with a score, displace, balance | who must go; a recursive search over combinations | `Balance`, `MatchMaking` |
| map downloads (`game_base.cpp:555-620`, 3247-3338) | parts sent and acknowledged, permissions, download status, the counter of parts | map size, send parts, `!download`, `!downloads` | a window and two limits shared by players who come and go; a slot's status that is asked once and decides about the start | `MapDownload` |
| votekick (`game.cpp:2347-2486`, `game_base.cpp:989-1004`) | a flag of each player, the name of the victim | ask, vote, expire, abort | players leave, are displaced and come back between votes | `VoteKick` |
| lag screen (`game_base.cpp:830`) | sync counters, lagging flags, drop votes | keep-alive, start lagging, stop lagging, drop request | uint32 arithmetic, thresholds, resets | `RunningGame` |
| desync detection (`game_base.cpp:2794`) | a queue of checksums per player | keep-alive | players with different progress, ties | `RunningGame` |
| end of a game (`game_base.cpp`, `game.cpp`) | gameover timer, autoend, saving | leave, `!end`, save | timers and commands that cancel or wait for each other | `RunningGame` |
| updates and load in game (`game_base.cpp:719-828`, 1244-1380, `replay.cpp`) | action queue, finished loading flags, kept packets, the replay | action, send, player loaded, player left | batching; order of packets for players at different stages | `Updates`, `Broadcast` |
| GProxy++ reconnection (`gameplayer.cpp:254-608`, `ghost.cpp:996`) | packet buffer, counters, keys | send, acknowledge, reconnect | exactly-once delivery over lost connections | `GProxy`, `ReliableStream`, `ResumedStream` |
| battle.net connection (`bnet.cpp`) | socket state, packet queue, cached bans, pending callables | connect, log on, chat, announce | reconnects with queued work, answers that name no game, stale caches | `Hosting`, `Database` |
| database callables and MySQL pool (`ghostdb.cpp`, `ghostdbmysql.cpp`) | idle connections, outstanding callables, worker threads | create, run, recover | threads, failures, owners that disappear | `Database` |
| main loop (`ghost.cpp`) | current game, games, autohost counters, exit flags | update, create game | objects deleted in loops, shutdown order | `Hosting`, `Database` |
| admin game, map, configuration, encodings, statistics, score calculation, Warden and BNLS client, sockets, language, vendored libraries | see the files | parse, encode, forward | little state that changes | section 15 |

For each component the properties that make it correct are:

* lobby: PIDs are unique; clients know exactly who is there; slots and players
  match; reserved players keep their place; a started countdown has fixed, spoof
  checked players; it ends; marked players are deleted;
* slots: every player has one slot; no colour is given twice; a fixed map's layout
  stands; the HCL string can be decoded;
* matchmaking: the worst player goes; the teams of a full game are the fairest;
* map downloads: parts arrive complete, in order and within the limits; nobody starts without the
  map; a download ends;
* votekick: nobody is voted out without the configured share of the votes;
* lag screen: whoever is shown as lagging is behind, whoever catches up is
  released, nobody falls further behind meanwhile, the arithmetic does not wrap;
* desync detection: players with the majority's checksum are never dropped,
  diverging ones eventually are;
* updates: every client and the replay get the same game, whoever loads when;
* GProxy++: what was sent since the game was loaded arrives, each direction once and in order;
* battle.net: no old name stays advertised, a public game gets to be shown, the
  bot gets back to its channel; the ban list becomes what the database has;
* database: no callable is leaked, the pool's books agree, a nice exit waits;
  a game's two writes belong together.

## 2. Plan

| step | modules | state |
|---|---|---|
| 1. lobby | `Lobby`, `Lobby_proofs` | done (section 3) |
| 2. lag, desync, end of a game | `RunningGame`, `RunningGame_proofs` (also about `VoteKick`) | done (section 7) |
| 3. reconnection, refining a stream in each direction | `GProxy`, `ReliableStream`, `ResumedStream`, `GProxy_proofs` | done, the refinements are proved (section 9) |
| 4. updates and load in game, refining a broadcast | `Updates`, `Broadcast`, `Updates_proofs` | done, the refinement is proved (section 8) |
| 5. teams, colours, HCL; matchmaking; votekick | `Slots`, `Slots_proofs`, `Balance`, `MatchMaking`, `MatchMaking_proofs`, `VoteKick` | done (sections 4 to 6) |
| 6. battle.net queues and hosting | `Hosting`, `Bnet_proofs` | done: checked for one server, proved for any number (section 10) |
| 7. callables, pool, ban list, nice exit | `Database`, `Bnet_proofs` | done (section 11) |
| 8. map downloads | `MapDownload`, `MapDownload_proofs` | done (section 12) |
| 9. left | the statistics (W3MMD), saved games, the admin game, a run with several servers in `Hosting` | - |

A component's module is composed with another where they share state: `RunningGame`
composes lag screen, desyncs and the end of a game, `Updates` the action queue, load
in game and the replay, `Hosting` the lobby with `CBNET`, `Database` the callables
with their three kinds of owners.  Elsewhere one module leaves to another what does
not influence it, and its head comment says so.

## 3. `Lobby`: the lobby of one game

The module follows one turn of the main loop through the variable `phase`:

| phase | code | actions |
|---|---|---|
| `enter`, `packets` | the loop over `m_Players` (`game_base.cpp:367-379`), `CGamePlayer::Update` | `DeletePlayer`, `ReadPackets`, `KeepPlayer`, `EndOfPlayers`; what packets do: `LeaveByPacket`, `MapSize`, `ChangeTeam`, `Command` |
| `potentials` | the loop over `m_Potentials`, then the virtual host (381-400) | `Join`, `EndOfPotentials` |
| `spoofkick` | 631-646 | `KickUnspoofed` |
| `autostart` | 648-654, `StartCountDownAuto` | `AutoStart`, `NoAutoStart` |
| `countdown` | 656-717, 1087-1091 | `CountDown`, `NoCountDown`, `EventGameStarted` |
| `post` | `UpdatePost`, then the battle.net connections (`ghost.cpp:930-994`) | `AddToSpoofed`, `Command`, `NextUpdate` |

State: `players` is the order of `m_Players`, `player` the `CGamePlayer` objects
(name, PID, reserved, spoofed, `m_DeleteMe`, `m_LeftMessageSent`), `slots` is
`m_Slots` (PID, status, computer, download status); the other variables bear the
members' names.  `settled` is how many players were there before this turn's
joins (the spoof kick only concerns players who joined a minute ago).  `shown`
is a history variable: the PIDs that clients were told of by PLAYERINFO and not
told have left by PLAYERLEAVE_OTHERS.

A command is typed by a spoof checked admin or owner whose packets are being read,
or comes from battle.net in `post`.  `Commands` is the set that a run uses.

Left out: clocks (a timer may be due or not whenever it is looked at), teams,
colours and handicaps (section 4), scores (section 5), votes (section 6), saved games,
`m_Locked` and autolock
(they only restrict who may command), the rejections of a joining player for
bans, countries or LAN keys (a rejected player changes nothing), the listening
socket's failure (it closes the lobby), the refusals of a start for ping,
recent leavers or the length of the host command letters (a start not taken),
who may take ownership, letter case of names.  `!startn` reads an uninitialised
variable (`game.cpp:2108`) when no player is there, which cannot be, because it is
typed by one; the variable is TRUE as soon as one player, the one who types, is
spoof checked.  A connection that times out and fails in one update opens its
slot twice; the second time finds no slot, so the action opens it once.

### Runs

| run | instance | shows |
|---|---|---|
| `lobby` | two connections, an owner and a player, two slots, reserved admins, spoof checks, autostart with two players, `start`, `abort`, `hold`, `owner`, `comp`, `FairSpec` | `ClientsViewOK`, `OnlySpoofCheckedStart`, `LobbyFrozen`, `OnlyOwnerDisplacesReserved`, `MarkedAreDeleted`, `CountDownEnds` |
| `commands` | three symmetric connections, two slots, all commands but `hold` and `owner`, nobody reserved, lobby time limit | `SlotsMatchPlayers` |

Both use six PIDs (three players, virtual host, fake player and one more), the first
free PID being given as in `GetNewPID`.  Two slots make the lobby full after two joins,
so displacements and the departure of the virtual host occur within a few steps.
`lobby` has two connections because its liveness properties allow no symmetry: one
player may leave, be displaced and come back while the other types, and a
`CGamePlayer` object that was deleted may be used again, so there is no bound on the
number of joins.  `commands` has three: a player, the one who takes its PID or slot and
a third who types a command between.  `CountDownFrom` is 1 instead of 10 and
`MaxPlayers`, Warcraft's 12, is 2.

`ClientsViewOK` is `TypeOK`, `PIDsUnique` (no two who are in the lobby share a PID) and
`ShownAccurate` (`shown` is who is there).  `SlotsMatchPlayers` says that PIDs are unique, that every player who is not marked has
exactly one slot, and every slot that names a PID belongs to a player or the fake player.
It is checked where nobody is displaced: with displacement it does not hold (section 13).

Fairness (`lobby`): `WF_vars(Loop)` says that `CGHost::Update` is called forever and
that one player's queue of packets is finite; `SF_vars(CountDown)` and
`SF_vars(EventGameStarted)` say that the timer of the countdown, due 500 ms after
its last tick, is due again in some later update as long as the countdown is on.
Nothing is assumed about players, connections and commands.

### Proofs: `Lobby_proofs`

For all values of the constants that satisfy the assumptions of `Lobby` (any
finite set of connections, up to 254 slots, fewer connections than PIDs):

| theorem | statement |
|---|---|
| `TypeCorrect` | `Spec => []TypeOK` |
| `ClientsKnowWhoIsThere` | `Spec => []ClientsViewOK` |
| `OnlyTheSpoofCheckedStart` | `Spec => []OnlySpoofCheckedStart` |
| `CountDownKeepsPlayers` | `Spec => LobbyFrozen` |
| `ReservedPlayersStay` | `Spec => OnlyOwnerDisplacesReserved` |
| `SlotsMatchUnlessDisplaced` | `Spec /\ []NobodyDisplaced => []SlotsMatchPlayers` |
| `SlotsMatchWithoutClaims` | `NobodyHasAClaim` implies `Spec => []SlotsMatchPlayers` |

`TypeOK` is not inductive: `DeletePlayer` needs to know that the cursor stands
before a player of `m_Players`, that those players exist and that none is there
twice (`LoopOK`), and the new PID is a PID only because fewer are in use than there
are (`NewPIDIsFresh`, from a bound on the cardinality of `UsedPIDs`).
`ShownAccurate` needs `PIDsUnique`, since withdrawing a PID must withdraw only one
player, and both need the fact that a displaced player no longer counts when its PID
is given away.  `OnlyOwnerDisplacesReserved` needs that a slot which is open or
closed holds nobody (`FreeSlotsEmpty`: its PID is 0), so a newcomer who takes
such a slot displaces nobody.  Each step lemma has one case for each action.

`SlotsMatchPlayers` counts slots; the invariant `Matched` says the same slot by slot: the slots of
humans, and no others, have a PID, it is the fake player's or that of a player who stays, nobody has
two slots and whoever stays has one.  It is an invariant only as long as nobody is displaced
(`NobodyDisplaced`): a displaced player keeps its PID, and when its connection is lost the slot that
is found by this PID, which may be the newcomer's, is opened (section 13).  The first theorem has this
as a hypothesis about the behaviour; the second one derives it from the configuration:
`NobodyHasAClaim` says that nobody is held, reserved as an admin or the owner, and that no command can make it so,
which is what the constants of the run `commands` satisfy.

Checked by TLC only: the liveness properties, which are beyond this prover.

## 4. `Slots`: teams, colours, handicaps

`m_Slots` in a lobby: each slot has who is in it (a PID, open, closed or a computer), a
team, a colour and a handicap.  What may change depends on the map: with fixed player
settings everything stays with the slot, with custom forces the team does, on a melee
map everything moves with the player.

Actions: `EventPlayerJoined`, `EventPlayerDeleted`, the players' requests
`EventPlayerChangeTeam`, `EventPlayerChangeColour` (`ColourSlot` exchanges the colour with
an unused slot) and `EventPlayerChangeHandicap`; the commands `SlotCommand` (open, close or
put a computer in a slot, whoever is there), `AllSlotsCommand`, `SwapCommand`, `ComputerCommand`
(`!compteam`, `!compcolour`, `!comphandicap`) and `ShuffleSlots`; and `EventGameStarted`,
which packs the HCL string into the handicaps by `EncodingMap`.

Left out: races (`!comprace` as well) and the download status, which move with the slot and which no code asks
for; the deferred deletion and the displacement of players (section 3): a player who loses
its slot is gone at once; saved games.

Run `slots`: three players in three slots of a melee map with an observers' slot, a map
with custom forces and a map with fixed player settings.  `Observer`, 12 in the code for
the observers' team and colour and the number of colours, is 3, so that colours run out.
Players, and `!comphandicap` for computers, ask for handicaps 50 and 100 and for 55, which nobody may have; the HCL string
is empty or has two letters, one of them the last.  Three slots are the fewest in which a
swap, a shuffle or a colour exchange concerns some players and not others.

* `SlotsOK`: every player has exactly one slot and no slot names somebody else
  (`SeatedApart`), and with fixed settings slots keep their teams and colours (`LayoutOK`).
* `ColoursApart`: no colour is given twice, also among unused slots.
* `ObserversApart`: on melee maps observers wear the observers' colour and players do
  not, and no more humans play than the map has places for.
* `HCLDecodes`: the map, which looks for handicaps that no player can have, finds as many as the
  string has letters, reads from them the letters in their order, and the handicap each slot had;
  the other slots' handicaps are untouched.

The run does not check for deadlock: a game that started is the end of the model.

### Proofs: `Slots_proofs`

For any maps, players, slots and HCL strings that satisfy the assumptions of `Slots`:

| theorem | statement |
|---|---|
| `EveryPlayerHasOneSlot` | `Spec => []SeatedApart` |
| `LayoutStands` | `Spec => []LayoutOK` |
| `SlotsStayRight` | `Spec => []SlotsOK`, both of the former |
| `NoColourTwice` | `MapColoursApart` implies `Spec => []ColoursApart` |
| `ObserversAreApart` | `Spec => []ObserversApart` |
| `LettersAreRead` | `Spec => HCLDecodes` |

`Inv` is `Typed /\ Loaded /\ OneSlotEach /\ LayoutFixed`: the handicaps keep to the six
values until the game is loading, and `OneSlotEach` states `SeatedApart` by functions
instead of cardinalities.  Swaps and shuffles are both permutations of the slots
(`Permuted`), and a permutation keeps what `OneSlotEach` says.  `MapColoursApart` says
that the map's own slots have different colours: the code reads them from the map or the
configuration and does not check.  `MinIsIn`, for `GetNewColour`, says that a nonempty set of
numbers has its `Min` as an element (`LeastExists`, by well-founded induction over its initial segments).

`ObserversApart` is kept together with `Inv`.  What a step must not do is run out of colours: a
newcomer is dressed as an observer first, and an observer who wants to play wears the observers'
colour, so that of at most twelve slots one has none of the twelve colours and one is left
(`ColourLeft`, by the pigeonhole principle).  That nobody plays beyond the map's places follows from
counting those who play without the one who joins or changes teams.

`LettersAreRead` has three parts.  `EncodingMapSkips` computes `EncodingMap` piece by piece, as it is
between two forbidden values; from it `EncodingMapNumbers` says that the entry with the number i is no
handicap and has i others below it, which is how the map decodes it.  `FirstOccupied`: the
occupied slots that carry a letter are the occupied ones up to some slot, so that the map, which
counts slots with strange handicaps, counts as the bot does, which counts occupied ones.
`EncodingMap` is written without the loop: entry i is moved on by one for every forbidden value
that j has reached; its last seven entries are never read.

## 5. `MatchMaking` and `Balance`: scores

`MatchMaking` is a lobby of `!autohostmm`.  State: the method, `checks` (`m_ScoreChecks`),
`players` as a sequence of `[name, pid, deleteMe, leftSent]` in the order of `m_Players`, and
`slots`.  Actions: `EventPlayerJoined` asks the database for the score,
`EventPlayerJoinedWithScore` seats the newcomer or displaces somebody by method 1 or 2 (or
the newcomer is the worst himself) and balances a complete game, `EventPlayerLeft`,
`UpdatePlayers` deletes who is marked.  `Balance` is `BalanceSlotsRecursive`: the set of
combinations that `next_combination` steps through and the recursion over the teams.
Scores are integers; closed slots, computers, the virtual host and LAN entry keys are left
out.

Run `matchmaking`: five players with scores 1, 4, 6, 11 and none, limits 0 and
20, default score 5, methods 0 to 2, slots in the teams 2, 1, 2, autostart with all three
slots taken.  The scores have different spreads for every choice of three players and
of two; the team sizes differ.  `MaxCost` 5 instead of 40000 makes the search affordable
here.  Bounds: one score asked for at a time, one player leaving at a time, and one score
arriving between two passes over `m_Players` (`MaxJoins`, see section 13).

* `SeatsOK`: `TypeOK`, and who is not marked has one slot of his own.
* `WorstGoes`: in a full game one without a score goes if there is any, else the furthest
  from the average (method 1) or the lowest (method 2), possibly the newcomer.
* `BalancedBest`: the newcomer who completes a game without displacing anybody leaves it with
  the fairest teams there are, compared with all permutations of the players over the
  slots that are taken, when the search is affordable.

The run does not check for deadlock because the pool of players is finite.

### Proofs: `MatchMaking_proofs`

`EverybodyHasASeat` (`Spec => []SeatsOK`) and `WorstPlayerGoes` (`Spec => WorstGoes`) hold for any
finite set of players, any scores, methods, teams, slots, cost limit and number of marked players, if
`MaxJoins = 1` (with two the code does not keep them, section 13).  The inductive invariant is `SeatInv`:

* `TypeOK`, and who was announced as left is marked;
* `Alone`: among those who are not announced as left, PIDs and names are unique, which `GetNewPID`
  and `Taken` rely on;
* `InSeats`: who is not marked has a slot, every slot that is taken is that of somebody who is not
  marked, and no PID is in two slots.  `Seated`, which counts, follows by a bijection between
  taken slots and players;
* `joins = 0 => Swept`: after a pass nobody announced as left is in `m_Players`, and if somebody is
  marked a slot is open.  So a full lobby has nobody who is marked, and the player with the worst score is
  never one who is already on his way out: without this a displaced player could be displaced again.

Balancing and shuffling are treated alike: whatever the search finds, `BalanceSlots` leaves a
permutation of the slots (`BalancedIsRearranged`), since it only ever swaps two of them, and a permutation keeps
`InSeats` (`SeatsRearranged`).  This needs an induction over the swaps and, for the sums of scores, over a
set of players: both are folds, and `FoldExists` and `FoldInduction` say that a fold has a value and that an invariant
of its step holds of it, from `NatInductionIn` (induction for a set of numbers instead of a predicate) and
`SmallestSubset`.  `WorseOrder` reduces both methods to one number per player, so that there is somebody worst
(`Minimal`, `ToKickIs`).  `BalancedBest` says what the recursive search computes and stays with TLC.

## 6. `VoteKick`

The vote is a flag `m_KickVote` of each `CGamePlayer` (`kickVote`) and the name of the victim.
Players are numbered objects with a name; a name may come back with another object.
`Join` (with displacement by a reserved player), `Mark` (leaves, kicks, lost connections),
`EventPlayerDeleted`, `EventGameStarted`, `VoteKick`, `YesToWait`, `YesToKick` (the last vote,
which kicks) and `EndVote` (`!votecancel` and the 60 seconds).  `ballots` and `departed` are
history variables: who has voted in this vote, and whether anybody but a displaced player
has been deleted since it began.

Run `votekick`: five names, one of them reserved, five objects, four slots, 70 percent.  With
four players a vote needs more than one `!yes`, so that players leave, are displaced and come
back in the middle of it and flags remain from the last one; 70 percent of three, and of
two, is no whole number, so that the rounding matters; the fifth object is a displaced
player that is not deleted yet.
Names without reserved status are symmetric.  No deadlock is checked: a game
without players stops.

* `VotesOK`: `VoteKickTypeOK`, and while a vote is on nobody but a displaced player has been
  deleted: `EventPlayerDeleted` returns before it aborts the vote for these.
* `VotedOutByShare`: whoever is voted out has the configured share of the ballots of this
  vote, counted among the players who are there.

### Proofs: in `RunningGame_proofs`

`VoteKick` names its parts `VoteKickInit`, `VoteKickNext`, `VoteKickSpec`, `voteKickVars` and `VoteKickTypeOK`, so
that one module can hold the proofs about a running game and its votes.
`NobodyLeavesRunningVote` (`VoteKickSpec => []VotesOK`) and `ShareIsReached`
(`VoteKickSpec => VotedOutByShare`), for any names, slots, objects and percentage.  The inductive
invariant is `VoteInv == VotesOK /\ FlagsAreBallots`: while a vote is on, only players who
cast a ballot in it have their flag set.  Flags of the last vote do remain after it;
`VoteKick` resets them all, and `FlagsAreBallots` fails without that.  `RoundedUp` is the
arithmetic of `ceil`.

## 7. `RunningGame`: lag, desyncs and the end of a game

The module follows the updates of a game that is loaded:

| phase | code | actions |
|---|---|---|
| `players`, `packets` | the loop over `m_Players` (`game_base.cpp:367-379`) | `ReadPackets`, `KeepPlayer`, `DeletePlayer`; what packets do: `LeaveGame`, `KeepAlive`, `DropRequest`, `ReportGameOver`, `Drop`, `End`, `EndNow`, `Abort` |
| `lag` | the countdown of `!end` (676-697), the lag screen (830-986) | `EndCountDownOver`, `NobodyLags`, `StartLagging`, `LagGoesOn`, `WaitTimeOver` |
| `actions` | 988-994 | `SendAllActions`, `NotYetDue` |
| `over` | gameover timer, autoend, the end (1006-1064) | `GameOverTimer`, `EndOfUpdate`, `GameDataSaved` |
| `post` | the battle.net connections, the next turn of the loop | `EndFromBattleNet`, `NextUpdate` |

State: `player` holds each `CGamePlayer` (sync counter, queue of checksums, lagging,
drop vote, `m_DeleteMe` with its leave code) and, as `world`, what its Warcraft III
computes; `NoPlayer` is a player that was deleted.  `syncCounter`, `lagScreen`
(`m_Lagging`), `endCountDown`, `autoEnd`, `autoEnded`, `gameOver` and `saving` are the
game's members.  `shown` is a history variable: who is on the clients' lag screens
according to START_LAG and STOP_LAG.

Warcraft III answers each action with one keepalive (`KeepAlive` is enabled as long
as an action is unanswered) whose checksum is its `world`; `Diverge` changes it for
good, at any time.  Counters are counted modulo `Width` as in `uint32_t`, and
`LimitAssumption` says that `Width` is greater than the largest lag: `BoundedLag` shows
that the lag is that small, so that no subtraction wraps.  A player's connection may be
lost whenever its packets are read; one who uses GProxy++ stays (its connection is
section 9's subject).  Timers are due or not whenever they are looked at.  `DropRequest`
keeps the comparison of a float with 0.49.

Left out: votekick (section 6), the contents of actions and their batches and the replay
(section 8), latency (the clock decides when actions are due), the fake player (a game that
has one has no gameover timer), `!synclimit`, the loading of the game, and the packets by
which the lag screen is reset every minute, which change no state.

### Runs

| run | instance | shows |
|---|---|---|
| `lag` | three players, one of them with GProxy++, two worlds, sync limit 2, autosave, autoend at 70 percent, `drop` and `abort` | `LagOK`, `FramesAligned`, `MajorityStays` |
| `ending` | two players, autosave, statistics, all commands, `FairSpec` | `LagEnds`, `WorldsConverge`, `GameEnds` |

`LagOK` is `LagScreenAccurate` and `BoundedLag`.  Three players are the fewest with a majority and somebody who keeps lagging when another
one is dropped; a sync limit of 2 is the smallest by which a player can be released
(`SyncLimit \div 2` must not be 0); with 70 percent, autoend begins when one of three left.
Both runs use the view `MCView`: states are the same when they differ only in the value
of the counters and not in their differences, in votes cast while nobody lags, which
`StartLagging` forgets, and in checksums of players who are marked, which
are never looked at again.  With autosave the departure of one player sends an action out of turn,
also while others keep the lag screen up, so `BoundedLag` allows for one action more for each player who
is gone, and `Width`, 7, is the least that `LimitAssumption` allows.  The
runs do not check for deadlock, since a game that is `closed` stops.

Fairness (`ending`): `WF_vars(Loop)`, the main loop goes on and queues of packets are
finite; `SF_vars(SendAllActions)`, `SF_vars(GameOverTimer)` and `SF_vars(GameDataSaved)`,
timers become due and the database answers although other updates come between; and a
lag screen that stays up is found to have lasted too long, again and again (the wait time
is only looked at while it is up).  Players need not answer, vote or leave.

### Proofs: `RunningGame_proofs`

For all values of the constants that satisfy the assumptions of `RunningGame`: any number
of players, any checksums, any sync limit and any width of the counters that is greater
than the largest lag (`LimitAssumption`; 2^32 in the code).

| theorem | statement |
|---|---|
| `TypeCorrect` | `Spec => []TypeOK` |
| `LagScreensAreAccurate` | `Spec => []LagScreenAccurate` |
| `LagIsBounded` | `Spec => []BoundedLag` |
| `LagScreenWorks` | `Spec => []LagOK`, both of the former |
| `ChecksumsAreAligned` | `Spec => []FramesAligned` |
| `MajorityPrevails` | `Spec => MajorityStays` |

The inductive invariant is a conjunction of parts, each proved from those before it:

* `TypeOK /\ LoopOK`: while packets are read, the player whose turn it is exists.
* `LagInv` adds to `LagScreenAccurate` that `m_Lagging` is set whenever somebody lags.
  The converse holds only when actions are about to be sent: the last lagger may leave
  earlier in an update than the lag screen is looked at.
* `BoundInv` is stronger than `BoundedLag`: the one action beyond the limit may be
  missing only for a player who is lagging, or between `SendAllActions` and the next look
  at the lag screen.  `Slack` is what autosaves have added; it grows when a player is
  deleted and never otherwise.  `CountersApart` is the arithmetic modulo `Width`: a
  difference that is less than `Width - 1` grows by exactly one with each action, and one
  that is not zero shrinks by exactly one with each answer.
* `FramesAligned` itself: every step changes `Behind(p) + Len(checkSums)` by the same
  amount for all players who stay (`StepAligned`), which needs `BoundInv`, since a counter
  that wraps would change it by `Width`.
* `LoyalInv`: the checksums waiting of a player who has not diverged are all 0.  From it
  `MajorityWins` counts the bins: all the others together are smaller than the majority's.

`StepKinds` reduces the actions to eight kinds, so that each of the later step lemmas has
one case for each kind; all the actions that touch nothing of what these invariants
look at are `QuietStep`.  Checked by TLC only: `LagEnds`, `WorldsConverge` and `GameEnds`,
which are liveness under fairness.

## 8. `Updates`: what clients and the replay receive

From `EventGameStarted` (`Init`) on, every client must be sent the same updates and
departures in the same order, or its copy of the game diverges.  State: `loadInGame`,
`gameLoading`, `present` and `finished` (`m_FinishedLoading`), `buffer` (the packets kept for a
player who is still loading), `sent` (what each connection was given), the replay's two
parts, and the queue `actions`.

Actions: `EventPlayerLoaded`, `EventGameLoaded`, `ResetLagScreen` (the load-in-game screen is
taken down, an empty update is sent and it is put up again), `PlayerAction`,
`SendAllActions` (batches of limited size; all but the last as overflow packets; with GProxy++
players the empty updates in front), and `EventPlayerDeleted` in its three variants: while
loading in game, while loading, and in the game, where an autosave may send an update at
once.  The handlers are steps in any order, since packets and timers come in any order.

Left out: who is told when who has loaded, the lag screen of the game itself (section 7),
byte formats, compression.

`Broadcast` is the abstract specification: one log, members, members who wait, and what each has
received; `Publish` extends the log for all who do not wait, `CatchUp` gives the log to one who
waited.  `SameGame` is `Same!Spec` with

| `Broadcast` | `Updates` |
|---|---|
| `log` | what the replay says: everybody loaded (load in game), who left while loading, then the blocks |
| `members`, `waiting` | `present`, and with load in game those who are loading |
| `received` | of what a client was sent, updates and departures; the empty updates that a GProxy++ client inserts itself are added |

Run `updates`: three players, one of them with GProxy++ (one empty update), with and
without load in game, autosave.  Lengths 1 to 3 with 2 allowed and 3 in a packet stand for
1027 and 1452 bytes, so that a packet is filled exactly, overflows, and an action is
refused; three actions make two batches.  One update besides those of autosaves and one reset
give every order of loads, leaves, resets and updates of three players.

* `ActionsInOrder`: every accepted action is in exactly one packet, or still in the queue, in
  the order in which they came, and no packet is too long.
* `ScreensOK`: `TypeOK`, and with load in game whoever has loaded sees on the screen exactly those
  who are still loading, and receives no update while a screen is up.
* `SameGame`: the refinement.

The bounds, and the departure of everybody, stop the model: deadlock is not checked.

`Length` and `Batches` follow the loops of `SendAllActions` as recursive functions: `WithNext` is one turn
of the second.

### Proofs: `Updates_proofs`

For any number of players, any lengths and limits and any bounds:

| theorem | statement |
|---|---|
| `ActionsAreInOrder` | `Spec => []ActionsInOrder` |
| `EverybodyHasTheSameGame` | `Spec => SameGame` |
| `ScreensAreRight` | `Spec => []ScreensOK` |

* `Typed`: what is sent, kept, recorded and queued are messages and actions.
* `Numbered`: the actions that the replay tells of, with the queue behind them, are all accepted ones
  by their numbers.  Cutting a queue into batches, put together again, gives the queue, and each batch
  keeps to the limit.
* `Game`: a player who waits was sent nothing, and what is kept for it is, as far as it reaches the client
  (`Reach`), the log; what the others were sent is the log as well.  An empty update and the
  packet that a GProxy++ client puts it before must not be torn apart by what is sent next: packets are cut
  only at their ends (`Whole`), so that what reaches a client of two packets is what reaches it of
  each.  Every step then `Publishes` something to those who do not wait while it is kept for the others,
  which is `Same!Publish`, or gives one player what was kept (`LoadedCatchesUp`), which is `Same!CatchUp`.
* `Screens`: the screen of who has loaded shows exactly those who are loading and was down before
  each update; kept packets never put one up.

What `FlattenSeq`, `Length` and `Batches` compute is proved by inductions of the module's own over numbers
and sequences, each for a set of numbers or sequences that is given by a formula: the library's
theorems about induction and recursive definitions take operators as parameters, which no
installed prover can instantiate.  `RecursionExists` is what the recursive functions rest on.

## 9. `GProxy`: reconnecting players

`GProxy` is the connection of one player who uses GProxy++ (`m_GProxy` is set
before the game is loaded).  `ReliableStream` and `ResumedStream` are what it should implement:

| abstract | from the game to Warcraft III (`Down`, a `ResumedStream`) | from Warcraft III to the game (`Up`, a `ReliableStream`) |
|---|---|---|
| `sent` | `totalPacketsSent` (`m_TotalPacketsSent`) | `clientSent` |
| `received` | `warcraft` | `game` |
| `unkept` | `unkept`, how many packets were sent before the game was loaded (a history variable) | - |

`Send`, `ReadSocket`, `SendAck`, `SocketLost`, `Accept`, `EventGProxyReconnect` and
`DropReconnectSocket` are the bot's code; `Client...` is the GProxy++ client, which is
not part of this repository: it is modelled from what the bot needs it to do, which is
the mirror image of the bot.  A connection is a FIFO queue in each direction that can
be cut at any moment, by either side, with everything in it; the client may open a
new one long before the bot has noticed.  `m_TotalPacketsReceived` begins at 1 in the
code, for the join request, and at 0 here.  The disconnect notices depend on
`m_GProxyDisconnectNoticeSent` and on a timer: `SocketLost` sends any number up to two.

The bot keeps packets from the moment the game is loaded.  `m_GameLoaded` is set in the update
that has just queued the last W3GS_GAMELOADED_OTHERS, so that packets are on the way then which are in
no buffer (the comment at `gameplayer.cpp:566` counts on it that they need not be).  A connection that
breaks before they have arrived loses them.  From then on the client's count of packets stands for
later packets than the bot's: the bot takes an old packet for the next one, and sends again one that
arrived after the lost ones.  What the direction then implements is `ResumedStream`: the next packet
is the one after the last that arrived, or the one that has as many before it as arrived.  While
nothing is lost both are the same, and `ResumedStream` is `ReliableStream`.

Run `gproxy`: three connections, one packet from the game and one from the player, one
acknowledgement per queue, one notice, `FairSpec`.  The bot's own notices of lost and restored connections are
packets of the game as well, so that up to five more follow the first one, which is sent before or after the load.

* `CountsAgree`: `TypeOK`, and what an acknowledgement or a reconnection takes out of a buffer has
  arrived on the other side, also when the counts no longer speak of the same packets.
* `ExactlyOnce`: Warcraft III has every packet once and in order on its first connection, and for
  ever if the packets of before the load arrived.
* `DownResumes` and `UpReliable` are the two refinements.
* `StableDelivery`: when a connection stays up at last, everything sent since the game was loaded
  arrives, and everything the player sent.

Three connections allow a reconnection during a reconnection, and the second repetition that a lost
packet leads to; one acknowledgement on the way per queue is enough for a stale one to be read after
newer packets were sent; several packets
can be in the buffer, in the queue and delivered in each combination.  The run does not check
for deadlock, since the bounds, or the deletion of the player, do stop the system.  Fairness: the
bot reads its sockets in each turn of its loop and the client reads its own; nothing obliges a
client to reconnect.

### Proofs: `GProxy_proofs`

For any numbers of packets, connections, acknowledgements and notices, and whatever is on the way
when the game is loaded:

| theorem | statement |
|---|---|
| `CountsAgreeCorrect` | `Spec => []CountsAgree` |
| `ExactlyOnceCorrect` | `Spec => []ExactlyOnce` |
| `DownResumesCorrect` | `Spec => DownResumes` |
| `UpReliableCorrect` | `Spec => UpReliable` |

The inductive invariant `Inv` says, besides the types:

* `Numbered`: the client's buffer is a run of consecutive numbers that ends with what was sent and
  begins at or before what the bot has (`Run(b, s)`); so is the bot's (`Keeps(b)`), but it begins at `unkept`
  at the earliest, and later only if the client has counted that many packets;
* `InOrder`: on the first connection, or once the first `unkept` packets have arrived, what arrived is a
  run of numbers from 1 (`ExactlyOnce`);
* `Truthful`: no acknowledgement and no reconnect message on the way tells of more than
  its sender has received;
* `Unopened`: nothing is on connections that were not opened;
* `Asking`: a reconnect request is alone on its connection, and the client waits for the answer;
* `Answered`: the answer is the first thing on the connection;
* `DownStream`, `UpStream`: the packets in the queue that will be read are consecutive,
  whatever acknowledgements are between them (`Holds(q, b, s)`), and on the connection that
  both sides use they end with what was sent.  Upwards they continue what was received; downwards they
  begin after the last packet that arrived, or where the counts say, and none that was kept is missing
  before them (`Continues(b)`).

`Holds` counts the packets of a queue by a function instead of a recursion, so that it can be
split and joined (`HoldsAdded`, `HoldsRest`).  Each action has a step lemma; what is lost is settled in
`LoadGameStep`, where keeping packets begins with an empty buffer after `unkept` packets, and in
`EventGProxyReconnectStep`, where the bot answers a count that may be smaller than `unkept`.  `DownStep` and
`UpStep` are the refinements' steps: only the client's reading extends `warcraft`,
and only `ReadSocket` extends `game`.

## 10. `Hosting`: how a lobby is advertised

`CGHost`, the lobby and one `CBNET` per server share a queue of packets that is sent with pauses.
State: `lobby` (its host counter stands for its name; public, refresh error, countdown, humans,
open slots, exiting), the number of running games, `hostCounter`, and per server the `link`,
`loggedIn`, `inChat`, `outPackets`; `answers` and `shown` are the server's: what it answered and which
game it shows.

Actions: `CreateGame` (on command or by autohosting), `PlayersChange`, `CountDown`, `RefreshGame` (every
3 seconds, if no more than one packet waits), `Rehost` (`!pub`, `!priv`), `AutoRehost` (after a refresh
error), `EventGameStarted`, `Unhost`, `DeleteLobby`, `EventGameDeleted`; `Connect`, `ConnectTimedOut`,
`Connected` (empties the queue), `LoggedIn`, `Disconnected`, `QueueChatCommand`, `Send`, `Read`.  What the
server does with a packet (`Accepts`) is the environment: it shows the game or refuses it.  Connections
end at any moment.  PvPGN servers differ in what is queued after a private game.

Left out: the logon's steps, friends and clans, the arithmetic of the pauses, games' contents.

Run `hosting`: one server of either kind, one game running at most, three host counters, one chat
packet in the queue, two answers on the way.  Three names suffice for an old name, its successor
and the next game; two answers for one that is about a game that is gone.

* `HostingOK`: `HostingTypeOK`, and when a server shows, or has queued, a game that is not the lobby's
  any more, a withdrawal waits behind it.
* `PublicGamesShown`: a public game that waits for players without a refresh error is shown in the
  end on every server that stays connected.
* `BackInChat`: when there is no lobby any more, the bot gets back to its channel.

Fairness: `SF` of `RefreshGame /\ some MayRefresh`: the main loop goes on, and chat does not keep the
queue longer than one packet for ever; `WF` of `Send` and `Read`: the pause between packets ends and
answers are read.  Deadlock is not checked: with three host counters the world ends.

### Proofs: `Bnet_proofs`

`OldGamesGo`: `HostingSpec => []HostingOK`, for any servers of either kind and any bounds; the module also
proves what concerns `Database`.  `HInv` is `HostingTypeOK` with

* `Room`: a lobby finds a place among the running games when it starts;
* `Sessions`: who is logged on is connected, and before the logon no game is shown and nothing is queued;
* `ServersSettled`: a server that goes on to read its queue ends with the lobby's game or none.
  `Settled(q, c, C)`: if the shown game c, or one announced in the queue q, is none of C, then a withdrawal
  stands behind it in q.

`Settled` is what the queue's discipline comes to: a packet is put at the end, and an announcement is always
of the current game (`SettledAppended`); a game ends, or changes its name, only when a withdrawal is put
behind everything (`SettledByWithdrawal`); the server takes the first packet, and what it shows then is what was
announced (`SettledSent`).  Rehosting takes earlier refreshes out of the queue, but never a withdrawal.

## 11. `Database`: callables, the pool, bans and the exit

A callable is a query with its owner: the battle.net connection (bans, the ban list), the
running game (bans, its row) or the list of orphans (its players' rows).  State: `callable` (stage,
connection, result), `orphans`, the pool (`idle`, `numConnections`, `outstanding`), `bans` (the
cached list), `bnet`, `game`, the exit flags, `phase` (where `CGHost::Update` is), and the database
itself.  `recounted`, `giveUps` and `quiet` are history and bounds.

`Thread(q)` is a `Threaded...` function: an idle connection or a new one, a thread, or, if none can
be created, a callable that is ready without result.  `Execute(q)` is the worker: it succeeds or
fails.  `Recover(done)` puts connections back or closes them above `MaxIdle`.  The main thread's
actions follow one turn: `ExitNicely`, `UpdateCallables`, `BanInGame`, `SaveGameData`, `DeleteGame`,
`RecoverGameAdd`, `UpdateBans`, `Refresh`, `UpdateBanList`, `BanCommand`, `EndOfUpdate`.  `GoQuiet`: from
then on nobody bans and nothing fails; the liveness properties are about what follows.

Left out: admin lists (handled as ban lists are), counts and statistics (callables without effect),
SQL, the SQLite database (it has no threads).

Run `database`: one name, two open callables when one is added, `MaxIdle` 0, so that one idle
connection is kept and a second is closed, and one thread that cannot be created.  The games' row,
its players' rows, a ban in the game, one on battle.net and a list are five queries that cross each
other in all orders; more names would only multiply independent entries of the list.

* `PoolOK`: `TypeOK`; outstanding callables are those that are open and connections are those
  that are idle or out (`PoolCounted`; an idle NULL is counted again in `recounted`, as the code does, section 13); and a nice exit
  that did not give up waiting leaves no callable open (`ExitWaits`).
* `AllRecovered`: once it is quiet every callable is recovered, whatever became of its owner.
* `BansSettle`: once it is quiet the cached list becomes the database's.
* `PlayersFollowGame`: a game whose row is written gets its players' rows.

Fairness is part of `Spec`: the main loop and the threads go on, and the list is refreshed every hour
(`SF_vars(Refresh)`).  Deadlock is not checked: the program ends.

### Proofs: `Bnet_proofs`

`PoolIsRight`: `Spec => []PoolOK`, for any names, pool size and bounds.  `DInv` is
`Typed /\ Counted /\ Owned`.  `Counted` needs the set of open callables to be finite, which it
stays since callables come one by one; `RecoverDoes` is the arithmetic of putting a whole set back
into a sequence that is cut off.  `Owned` says that a callable that is no orphan has an owner that
exists, so that when game and battle.net connection are gone the orphans are all there are: that is
why waiting for orphans is enough.

## 12. `MapDownload`: the map download window

In a lobby a player reports how much of the map it has (`EventPlayerMapSize`).  One who lacks it
is kicked, or, depending on the mode, sent the map: ten times a second a loop over `m_Players`
sends parts to each downloader, up to a window of parts ahead of its reports, within a speed
limit and for a number of downloaders.  A slot's download status is what the countdown looks at.

State: `players` (the order of `m_Players`), `marked`; per player `allowed`, `started`, `finished`,
`lastSent`, `lastAcked` and the slot's `status`; `downloadCounter`; `allowDownloads` (`CGHost`), which
`!downloads` sets; `cursor`, where the loop is.  `hadMap`, `got` and the queues `toClient`, `toBot`
are the clients and their connections.  `forced` is history.

Actions: `Join`, `Leave`, `EventPlayerDeleted`; `EventPlayerMapSize` (`ReportWhole`, `ReportKicks`,
`ReportPart`); `ResetDownloadCounter`; `SendMapParts`, one step per downloader, between which no
other handler runs; `DownloadCommand` (`!download`), `SetDownloads` (`!downloads` on battle.net);
`StartCountDown`, `AbortCommand`, `EventGameStarted`; `ReceivePart` is
the client, modelled from how the bot uses it: it takes parts in order and reports each.

Sizes are in parts of 1442 bytes, and the speed limit as well.  Left out: a bot without a copy of
the map (it kicks as in mode 0), when the clients are told of a new status, the times and the database row of a finished download, which
slot a player has (section 3), the other conditions of a start (a start not taken).

Run `download`: two players, a map of two parts, a window, a speed limit and a number of
downloaders of one, every mode.  The second player waits until the first has the map, leaves or is
kicked, and gets its place in the loop or its share of the limit in every order; the map is longer
than the window, so that a report opens it again and the last window is cut off by the end of
the map.  A player can be deleted and join again in any state of its download, so there is no bound
on the number of joins.  Longer maps, wider windows and more players are what the theorems are for.

* `FlowOK`: `TypeOK`; parts arrive in order without a gap; the bot never takes more for reported
  than arrived; the window and the speed limit are kept (the limit is compared before each part,
  so one part more is sent).
* `EveryoneHasTheMap`: a game that was not started by force has no player without the map,
  although the countdown asks the slots only once, at its start.
* `DownloadsEnd`: a download that started ends with the whole map, a departure or the game, if
  downloads are not made conditional in the middle of it (section 13).

The run does not check for deadlock: the game that starts is the end of the model.

Fairness (`FairSpec`): the loop over the sockets and players goes on for every player
(`SF` of reading a report or deleting the player), the timers are due again and again
(`SF_vars(ResetDownloadCounter)`), the loop that sends is in one handler (`WF`), and the client of
a player who stays receives what is sent (`SF_vars(ReceivePart(p))`, external).

### Proofs: `MapDownload_proofs`

For any players, size of the map, window and limits: `Flow` and `MapsComplete`, which state
`Spec => []` of `FlowOK` and `EveryoneHasTheMap`.  The inductive invariant `DInv` adds

* `PartsInOrder`: what is on the way to a client is what follows its last part;
* `ReportsTrue`: a report on its way says no more than is true, none says less than the one
  before it or than what was acknowledged, and only the last part makes the map whole;
* `StatusTrue`: a slot at 100 percent is right.  This needs `WholePercent`: the division rounds
  down, so that only the whole map is 100 percent of it;
* `Fresh`: nothing is left of a player who was deleted, which is why a join starts afresh.

Each action has a lemma.  `OneDownload` and `NoDownloadChanges` say that what happens to one player
does not touch the others' downloads, so that a lemma is about one player only.

## 13. Remarks on the code

No run is expected to be violated.  What the models show of the code besides the runs' properties,
each where a property is restricted to exclude it or where the comment of a definition says so:

* Lobby
  * A displaced player keeps its PID until it is deleted, although the PID is already the
    newcomer's.  If its connection is lost in the next update, or the spoof-check kick comes first,
    `OpenSlot( GetSIDFromPID( ) )` opens the newcomer's slot (`game_base.cpp:2034`).  Therefore
    `SlotsMatchPlayers` is checked where nobody is displaced.
  * Opening, closing or giving away the fake player's slot leaves the fake player in the game
    without a slot (`game_base.cpp:4013`).
  * `!unhost` followed by `!startn` in one update starts the game, and the main loop then
    deletes the lobby's place, which is NULL (`game_base.cpp:1091`).
  * A kick opens the slot at once and frees the PID only in the next update; a join in
    between needs one PID more than the twelve that the comment at `game_base.cpp:440`
    counts on (`game_base.cpp:2085` counts players, not PIDs).
  * The countdown may end in the update in which a player is kicked; the game then starts
    with a player who is about to be deleted (`game_base.cpp:670`).
* Slots
  * `!compteam s 0` wraps to team 255, which no slot has (`game.cpp:1231`).
  * On a map with custom forces but without fixed settings a player who moves into an
    observers' slot keeps a playing colour: `ObserversApart` is about melee maps.
  * A shuffle on a map with custom forces resets the handicaps; computers may be more
    than the map has places for.
  * `!balance`, `!rate` and `!teamratio` (`game.cpp:484-534`) are commented out.
* MatchMaking
  * When a newcomer displaces a player in a full game, `BalanceSlots` runs while the displaced
    `CGamePlayer` is still in `m_Players` with the PID that the newcomer was given
    (`game_base.cpp:2695`).  A team then counts one player more than it has slots, and the players
    are shuffled at random ("this shouldn't happen", `game_base.cpp:4428`), whereas
    `docs/readme.txt:504` says "The teams will be automatically rebalanced."  `BalancedBest` is about
    newcomers who displace nobody.
  * Two scores that arrive in one update can displace the same slot's player and newcomer: the
    PID of the first is given twice and `Seated` fails; hence `MaxJoins` is 1.
  * `BalanceSlotsRecursive` skips the first combination at each level; in explorations with two to
    four teams its result was optimal nevertheless, since the complement is tried.
* VoteKick
  * A displaced victim leaves the vote running (`game_base.cpp:1537`; `VotesOK` is about all other departures); the one who starts a vote may name himself; a
    displaced player's vote counts; a vote in a lobby of one only expires.
* Map downloads
  * `!downloads` in the lobby sets `m_Downloads` (`game.cpp:642`), "Allow download in lobby or not"
    (`game_base.h:140`), and answers "Map downloads disabled." (`language.cfg:183`), but nothing reads
    that variable: `EventPlayerMapSize` asks `m_GHost->m_AllowDownloads`, and a player who joins without
    the map downloads it.
  * If `!downloads 2` comes in the middle of a download, the reports of a player without
    permission are passed over: the window stays closed, the download stands still and keeps its place
    among the downloaders (`game_base.cpp:3266`).  `DownloadsEnd` is about behaviours without this.
  * A size of a million parts is taken for 100 percent (`game_base.cpp:3319`); the clients are taken to
    report what they have.
* Running game
  * A lagging player that is dropped makes the game save itself (autosave), which sends an action
    although others still keep the lag screen up (`game_base.cpp:1562`), whereas the comment at
    `game_base.cpp:979` wants "the game to stop running while the lag screen is up".  `BoundedLag` says how far players fall behind by this.
  * `!synclimit 10` and `!synclimit 10000` set 10000, because the bounds of the range are
    compared with `<=` and `>=`; `docs/readme.txt:730` says the range is 10 to 10000.
  * `CGame::EventPlayerAction` returns before its last block, which was meant to cancel
    the end of the game when a player acts (`game.cpp:349`).
* GProxy: a packet that is on the way when the game is loaded is in no buffer
  (`gameplayer.cpp:566`); when the connection breaks then it is lost, and by a later reconnection Warcraft III may
  receive another packet twice.  The comment at `gameplayer.cpp:566` sees that the packets' count must start with the
  connection, and that their buffering need not.  `ExactlyOnce` is about connections on which those
  packets arrived, `DownResumes` says what happens on all.
* Hosting
  * An answer about an old name is taken for one about the new game: a late failure stops the
    refreshes of a game that has been renamed, or closes it when nobody is in it; the comments at `game.cpp:1837`
    and 1879 know of this race but name "a potential false positive" as its only downside.  `PublicGamesShown` is
    about games without a refresh error.
  * When a lobby is deleted, its refreshes are not taken out of the queue (the withdrawal
    behind them makes up for it).
  * A private game is lost if the connection drops while its creation is queued.
  * `AutoRehost` does not check that the new name has 31 characters at most.
* Database
  * A NULL connection of a thread that could not be created is counted once more by the query that
    takes it from the idle connections (`ghostdbmysql.cpp:127`).  `recounted` is how far `m_NumConnections` has drifted by
    this: `PoolOK` allows for it.
  * A failed list query replaces the list by an empty one until the next refresh
    (`docs/readme.txt:456`), a list read before a ban and consumed after it drops the ban until
    then.  The admin list behaves the same.

## 14. What is proved and what is only checked

Eight modules hold proofs: `Lobby_proofs`, `RunningGame_proofs` (about `RunningGame` and `VoteKick`),
`Slots_proofs`, `MatchMaking_proofs`, `Updates_proofs`, `GProxy_proofs`, `Bnet_proofs` (about `Hosting` and
`Database`) and `MapDownload_proofs`.  They use the named assumptions on the constants of the modules they
extend, besides these:

* `NoColourTwice` needs `MapColoursApart`;
* `SlotsMatchUnlessDisplaced` needs that nobody is ever displaced, and `SlotsMatchWithoutClaims`
  `NobodyHasAClaim`;
* `EverybodyHasASeat` and `WorstPlayerGoes` need `MaxJoins = 1`.

Every invariant and every action property that a run checks is proved, with the exception of
`BalancedBest`.  Checked by TLC only:

* liveness, which is beyond this prover: `MarkedAreDeleted`, `CountDownEnds`, `StableDelivery`, `LagEnds`,
  `WorldsConverge`, `GameEnds`, `AllRecovered`, `BansSettle`, `PlayersFollowGame`, `PublicGamesShown`,
  `BackInChat`, `DownloadsEnd`;
* `BalancedBest`: it says what the recursive search of `Balance` returns, which is an induction over the
  teams and over all combinations of players.

## 15. Not modelled

* Statistics (`stats.cpp`, `statsdota.cpp`, `statsw3mmd.cpp`) and the score calculation (`update_w3mmd_elo`,
  `update_dota_elo`): they interpret a finished game, or recorded actions, into rows and floating-point
  scores and do not influence the game.
* The admin game: its commands forward to the other components.
* Saved games: a saved game fixes slots and names beforehand.
* Warden and BNLS client: a relay of opaque packets.
* Map, configuration, packet formats, compression, language, sockets: parsed once, or pure I/O and
  encoding.
* Clocks: everywhere a timer may be due or not when it is looked at.
* SQLite, StormLib, bncsutil, zlib and the MySQL headers are third-party code, and the larger part
  of the repository's lines.
