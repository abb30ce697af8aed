---------------------------- MODULE MatchMaking ----------------------------
(***************************************************************************)
(* A lobby of !autohostmm: newcomers wait for their score, in a full game  *)
(* the score decides who goes, and once the game has the players it starts *)
(* with the teams are rebalanced.                                          *)
(*                                                                         *)
(* CBaseGame::Update first seats those whose score has arrived, then       *)
(* passes over m_Players and deletes who is marked: a displaced player is  *)
(* still in m_Players when the teams are balanced.  Matchmaking needs a    *)
(* map with fixed player settings; closed slots, computers and the virtual *)
(* host are left out.                                                      *)
(***************************************************************************)
EXTENDS Balance, Combinatorics

CONSTANTS
  Names,
  Score,                 \* the database's answers: [Names -> Int]
  NoScore,               \* -100000 in the code
  MinimumScore, MaximumScore,
  DefaultScore,          \* map_defaultplayerscore
  Methods,               \* values of bot_matchmakingmethod
  MapTeams,              \* the team of every slot, from 1
  AutoStartPlayers,      \* m_AutoStartPlayers
  MaxCost,               \* 40000 in the code
  MaxChecks,             \* bound: scores asked for at a time
  MaxLeaving,            \* bound: players leave while so many are marked
  MaxJoins               \* bound: scores that arrive between two passes

ASSUME ScoresAssumption == IsFiniteSet(Names) /\ Score \in [Names -> Int] /\ NoScore \in Int
ASSUME MapTeamsAssumption == MapTeams \in Seq(Nat \ {0}) /\ MapTeams # <<>>
ASSUME BoundsAssumption == {MaxChecks, MaxLeaving, MaxJoins} \subseteq Nat \ {0}

VARIABLES
  method,                \* m_MatchMakingMethod
  checks,                \* m_ScoreChecks: who waits for a score
  players,               \* m_Players: a sequence of [name, pid, deleteMe, leftSent]
  slots,                 \* m_Slots: the PID, 0 when open
  joins                  \* scores that arrived since the last pass

vars == <<method, checks, players, slots, joins>>

SIDs == DOMAIN MapTeams
Indices == DOMAIN players
PIDBound == Len(MapTeams) + Cardinality(Names)
Player == [name : Names, pid : 1 .. PIDBound, deleteMe : BOOLEAN, leftSent : BOOLEAN]

TypeOK ==
  /\ method \in Methods
  /\ checks \subseteq Names
  /\ players \in Seq(Player)
  /\ slots \in [SIDs -> 0 .. PIDBound]
  /\ joins \in 0 .. MaxJoins

Init ==
  /\ method \in Methods
  /\ checks = {}
  /\ players = <<>>
  /\ slots = [s \in SIDs |-> 0]
  /\ joins = 0

-----------------------------------------------------------------------------
NamesIn == {players[i].name : i \in Indices}
Taken(n) == \E i \in Indices : players[i].name = n /\ ~players[i].leftSent
NoSID == 0
GetSIDFromPID(pid) ==
  LET held == {s \in SIDs : slots[s] = pid} IN IF held = {} THEN NoSID ELSE Min(held)

\* GetNewPID, once the players at the indices in gone are announced as left.
GetNewPID(gone) ==
  Min({pid \in 1 .. PIDBound :
         \A i \in Indices \ gone : players[i].pid = pid => players[i].leftSent})

\* EventPlayerJoined when matchmaking is on: nothing but the query.
EventPlayerJoined(n) ==
  /\ n \notin checks /\ ~Taken(n)
  /\ Cardinality(checks) < MaxChecks
  /\ checks' = checks \cup {n}
  /\ UNCHANGED <<method, players, slots, joins>>

Scored(names) == {n \in names : Score[n] # NoScore}

\* (fault) The newcomer's score does not count for the average.
DistanceOfOthers(n, names) ==
  LET others == Scored(names) \cap NamesIn
      d == Cardinality(others) * Score[n] - SumFunctionOnSet(Score, others)
  IN  IF d < 0 THEN -d ELSE d

\* How far n is from the average score of all, times their number.
Distance(n, names) ==
  LET d == Cardinality(Scored(names)) * Score[n] - SumFunctionOnSet(Score, Scored(names))
  IN  IF d < 0 THEN -d ELSE d

\* How much a player is to be kicked: the distance, or the lowest score.
Worse(n, m, names) ==
  IF method = 1 THEN Distance(n, names) > Distance(m, names) ELSE Score[n] < Score[m]

\* FurthestPlayer and LowestPlayer: the last without a score, else the first
\* of the worst.
ToKick(n) ==
  LET names == NamesIn \cup {n}
      unscored == {i \in Indices : Score[players[i].name] = NoScore}
      worst == {i \in Indices : \A j \in Indices : ~Worse(players[j].name, players[i].name, names)}
  IN  IF unscored # {} THEN Max(unscored) ELSE Min(worst)

\* The index of the player that n replaces in a full game, if any.
Displaced(n) ==
  LET i == ToKick(n)
      rejected == \/ method = 0
                  \/ Score[n] = NoScore
                  \/ /\ Score[players[i].name] # NoScore
                     /\ Worse(n, players[i].name, NamesIn \cup {n})
  IN  IF rejected THEN {} ELSE {i}

-----------------------------------------------------------------------------
\* PlayerIDs and TeamSizes: everybody in m_Players whose PID is in a slot.
Teams == 1 .. Max(Range(MapTeams))
SlotsOf(t) == {s \in SIDs : MapTeams[s] = t}
Counted(ps, ss, t) == {i \in DOMAIN ps : \E s \in SlotsOf(t) : ss[s] = ps[i].pid}
TeamSizes(ps, ss) == [t \in Teams |-> Cardinality(Counted(ps, ss, t))]

GetScore(n) == IF Score[n] = NoScore THEN DefaultScore ELSE Score[n]
PlayerScores(ps) ==
  [pid \in {ps[i].pid : i \in DOMAIN ps} |->
     GetScore(ps[Max({i \in DOMAIN ps : ps[i].pid = pid})].name)]

\* AlgorithmCost: the number of distributions over the teams.
AlgorithmCost(sizes) ==
  LET Left(t) == FoldLeft(+, 0, SubSeq(sizes, t, Len(sizes)))
  IN  FoldLeft(LAMBDA a, b : a * b, 1, [t \in Teams |-> choose(Left(t), sizes[t])])

\* The slots that the teams are to fill: the first ones of each, team after team
Targets(sizes) ==
  {s \in SIDs : Cardinality({r \in SlotsOf(MapTeams[s]) : r <= s}) <= sizes[MapTeams[s]]}
Target(sizes, n) ==
  LET UpTo(s) == {r \in Targets(sizes) : \/ MapTeams[r] < MapTeams[s]
                                         \/ (MapTeams[r] = MapTeams[s] /\ r <= s)}
  IN  {s \in Targets(sizes) : Cardinality(UpTo(s)) = n}

\* The player moves into the slot sid1, who is there to where the player comes from.
Swapped(now, sid1, pid) ==
  {[now EXCEPT ![sid1] = now[sid2], ![sid2] = now[sid1]] : sid2 \in {s \in SIDs : now[s] = pid}}

\* The players are swapped one after the other into their slots.  There is no result if
\* somebody is in no slot.
Arranged(ordering, sizes, ss) ==
  LET Into(nows, n) ==
        UNION {Swapped(now, sid1, ordering[n]) : now \in nows, sid1 \in Target(sizes, n)}
  IN  FoldLeft(Into, {ss}, [n \in 1 .. Cardinality(Targets(sizes)) |-> n])

\* ShuffleSlots
Shuffled(ss) ==
  LET taken == {s \in SIDs : ss[s] # 0}
  IN  {[s \in SIDs |-> IF s \in taken THEN ss[f[s]] ELSE 0] : f \in Bijection(taken, taken)}

\* BalanceSlots: when it costs too much, or a swap is invalid because a team counts more
\* players than it has slots or somebody has none ("this shouldn't happen"), the slots are
\* shuffled.
BalanceSlots(ps, ss) ==
  LET sizes == TeamSizes(ps, ss)
      ids == SetToSortSeq({ps[i].pid : i \in UNION {Counted(ps, ss, t) : t \in Teams}}, <)
      arranged == Arranged(BalanceSlotsRecursive(ids, sizes, PlayerScores(ps), 1), sizes, ss)
  IN  IF \/ AlgorithmCost(sizes) > MaxCost
         \/ \E t \in Teams : sizes[t] > Cardinality(SlotsOf(t))
         \/ arranged = {}
      THEN slots' \in Shuffled(ss) ELSE slots' \in arranged

\* GetNumHumanPlayers
NumHumans(ps) == Cardinality({i \in DOMAIN ps : ~ps[i].leftSent})

\* (fault) The displaced are announced as left but never marked.
SeatUnmarked(n, s, gone) ==
  LET pid == GetNewPID(gone)
      said == [i \in Indices |-> [players[i] EXCEPT !.leftSent = @ \/ i \in gone]]
  IN  /\ players' = Append(said, [name |-> n, pid |-> pid, deleteMe |-> FALSE, leftSent |-> FALSE])
      /\ slots' = [slots EXCEPT ![s] = pid]

\* The newcomer takes the slot; the displaced are announced as left.
Seat(n, s, gone) ==
  LET pid == GetNewPID(gone)
      marked == [i \in Indices |-> IF i \in gone
                   THEN [players[i] EXCEPT !.deleteMe = TRUE, !.leftSent = TRUE] ELSE players[i]]
      ps == Append(marked, [name |-> n, pid |-> pid, deleteMe |-> FALSE, leftSent |-> FALSE])
      ss == [slots EXCEPT ![s] = pid]
  IN  /\ players' = ps
      /\ IF NumHumans(ps) = AutoStartPlayers THEN BalanceSlots(ps, ss) ELSE slots' = ss

\* Who is turned away only loses the connection.
Rejected == UNCHANGED <<players, slots>>

OutsideLimits(n) == Score[n] # NoScore /\ Score[n] \notin MinimumScore .. MaximumScore

EventPlayerJoinedWithScore(n) ==
  /\ joins < MaxJoins
  /\ n \in checks
  /\ checks' = checks \ {n}
  /\ joins' = joins + 1
  /\ LET free == {s \in SIDs : slots[s] = 0}
     IN  \/ (Taken(n) \/ OutsideLimits(n)) /\ Rejected
         \/ /\ ~Taken(n) /\ ~OutsideLimits(n)
            /\ free # {} /\ Seat(n, Min(free), {})
         \/ /\ ~Taken(n) /\ ~OutsideLimits(n)
            /\ free = {} /\ Displaced(n) = {} /\ Rejected
         \/ /\ ~Taken(n) /\ ~OutsideLimits(n) /\ free = {}
            /\ \E i \in Displaced(n) :
                 LET s == GetSIDFromPID(players[i].pid)
                     mark(p) == [p EXCEPT !.deleteMe = TRUE, !.leftSent = TRUE]
                 IN  IF s = NoSID
                     THEN players' = [players EXCEPT ![i] = mark(@)] /\ UNCHANGED slots
                     ELSE Seat(n, s, {i})
  /\ UNCHANGED method

\* EventPlayerLeft or !kick: marked, and the slot is open.
EventPlayerLeft(i) ==
  /\ ~players[i].deleteMe
  /\ Cardinality({j \in Indices : players[j].deleteMe}) < MaxLeaving
  /\ players' = [players EXCEPT ![i].deleteMe = TRUE]
  /\ slots' = [s \in SIDs |-> IF s = GetSIDFromPID(players[i].pid) THEN 0 ELSE slots[s]]
  /\ UNCHANGED <<method, checks, joins>>

\* The pass over m_Players deletes who is marked.
UpdatePlayers ==
  /\ LET left == {i \in Indices : ~players[i].deleteMe}
         place(i) == Cardinality({j \in left : j <= i})
     IN  players' = [k \in 1 .. Cardinality(left) |-> players[CHOOSE i \in left : place(i) = k]]
  /\ joins' = 0
  /\ UNCHANGED <<method, checks, slots>>

Next ==
  \/ \E n \in Names : EventPlayerJoined(n) \/ EventPlayerJoinedWithScore(n)
  \/ \E i \in Indices : EventPlayerLeft(i)
  \/ UpdatePlayers

Spec == Init /\ [][Next]_vars

-----------------------------------------------------------------------------
Staying == {players[i].name : i \in {j \in Indices : ~players[j].deleteMe}}
StayingNext == {players'[i].name : i \in {j \in DOMAIN players' : ~players'[j].deleteMe}}

\* Who is not marked has a slot of his own, and no slot is anybody else's.
Seated ==
  /\ \A i \in Indices : ~players[i].deleteMe =>
       Cardinality({s \in SIDs : slots[s] = players[i].pid}) = 1
  /\ Cardinality({s \in SIDs : slots[s] # 0}) = Cardinality(Staying)
SeatsOK == TypeOK /\ Seated

\* In a full game somebody worst of all goes: one without a score if there
\* is any, else the one furthest from the average of all (method 1) or the
\* one with the lowest score (method 2).  It can be the newcomer.
WorstIsOut(n) ==
  LET all == Staying \cup {n}
      scored == {m \in all : Score[m] # NoScore}
      sum == SumFunctionOnSet(Score, scored)
      Far(m) == LET d == Cardinality(scored) * Score[m] - sum IN IF d < 0 THEN -d ELSE d
  IN  \E out \in all :
        /\ StayingNext = all \ {out}
        /\ \/ out \notin scored
           \/ /\ scored = all
              /\ IF method = 1 THEN \A m \in all : Far(m) <= Far(out)
                 ELSE \A m \in all : Score[out] <= Score[m]
WorstGoes ==
  [][\A n \in Names :
       EventPlayerJoinedWithScore(n) /\ method # 0 /\ ~Taken(n) /\ ~OutsideLimits(n)
         /\ (\A s \in SIDs : slots[s] # 0) => WorstIsOut(n)]_vars

\* The teams of the players that stay, after the step.
TotalOf(t, ss, ps) ==
  SumFunctionOnSet([i \in DOMAIN ps |-> GetScore(ps[i].name)],
                   {i \in DOMAIN ps : ~ps[i].deleteMe /\ \E s \in SlotsOf(t) : ss[s] = ps[i].pid})
SpreadOf(ss, ps) ==
  LET used == {t \in Teams : \E s \in SlotsOf(t) : ss[s] # 0}
  IN  Max({TotalOf(t, ss, ps) - TotalOf(u, ss, ps) : t, u \in used})
Fair(ss, ps) == \A other \in Shuffled(ss) : SpreadOf(ss, ps) <= SpreadOf(other, ps)

\* The newcomer that completes the game leaves it with the fairest teams
\* there are, when nobody had to go for him and the search is affordable.
BalancedBest ==
  [][Cardinality(StayingNext) = AutoStartPlayers /\ Cardinality(StayingNext \ Staying) = 1
       /\ (\A i \in DOMAIN players' : ~players'[i].deleteMe)
       /\ AlgorithmCost(TeamSizes(players', slots')) <= MaxCost =>
     Fair(slots', players')]_vars
=============================================================================
