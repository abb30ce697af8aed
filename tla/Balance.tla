------------------------------ MODULE Balance ------------------------------
(***************************************************************************)
(* The brute force search of CBaseGame::BalanceSlots for the fairest       *)
(* distribution of the players over the teams.  Teams are 1 .. Len(sizes)  *)
(* in the order of the array TeamSizes; an ordering lists the players of   *)
(* the first team, then those of the second, and so on.                    *)
(***************************************************************************)
EXTENDS Integers, Sequences, FiniteSets, FiniteSetsExt, SequencesExt, Functions

\* The players of S in the order of ids.
Ordered(ids, S) == SelectSeq(ids, LAMBDA p : p \in S)

\* (fault) The last choice is left out as well as the first.
CombinationsLess(ids, mid) ==
  IF mid \in 1 .. Len(ids) - 1
  THEN {Ordered(ids, S) : S \in kSubset(mid, Range(ids))}
         \ {SubSeq(ids, 1, mid), SubSeq(ids, Len(ids) - mid + 1, Len(ids))}
  ELSE {}

\* What next_combination steps through: every choice of mid players but the
\* first, for it moves before its first use; it ends when it is back there.
Combinations(ids, mid) ==
  IF mid \in 1 .. Len(ids) - 1
  THEN {Ordered(ids, S) : S \in kSubset(mid, Range(ids))} \ {SubSeq(ids, 1, mid)}
  ELSE {}

\* TeamScores: what the players of one team add up to.
TeamScore(ordering, sizes, score, start, team) ==
  LET before == FoldLeft(+, 0, SubSeq(sizes, start, team - 1))
  IN  FoldFunction(+, 0, [n \in 1 .. sizes[team] |-> score[ordering[before + n]]])

\* LargestDifference: between any two teams that have players.
LargestDifference(ordering, sizes, score, start) ==
  LET Total(t) == TeamScore(ordering, sizes, score, start, t)
      teams == {t \in start .. Len(sizes) : sizes[t] > 0}
  IN  Max({0} \cup {Total(t) - Total(u) : t, u \in teams})

\* The order in which the two nested loops try their choices.
Sooner(c, d) ==
  \/ c.team < d.team
  \/ /\ c.team = d.team
     /\ \E n \in DOMAIN c.left : /\ c.left[n] < d.left[n]
                                 /\ \A m \in 1 .. n - 1 : c.left[m] = d.left[m]

\* The best ordering of the players on the teams from StartTeam on, where the rest of the
\* players is distributed over the teams behind the one that is being tried.
BalanceSlotsRecursive(players, sizes, score, StartTeam) ==
  LET Best[ids \in Seq(Range(players)), start \in 1 .. Len(sizes) + 1] ==
        LET lefts(team) == Combinations(ids, sizes[team])
            Right(c) == Ordered(ids, Range(ids) \ Range(c.left))
            tries == UNION {{[team |-> t, left |-> l] : l \in lefts(t)} : t \in start .. Len(sizes)}
            test == [c \in tries |-> c.left \o Best[Right(c), c.team + 1]]
            diff == [c \in tries |-> LargestDifference(test[c], sizes, score, start)]
            best == CHOOSE c \in tries : \A d \in tries \ {c} :
                      diff[c] < diff[d] \/ (diff[c] = diff[d] /\ Sooner(c, d))
        IN  IF tries = {} THEN ids ELSE test[best]
  IN  Best[players, StartTeam]
=============================================================================
