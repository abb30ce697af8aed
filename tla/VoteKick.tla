------------------------------- MODULE VoteKick -------------------------------
(***************************************************************************)
(* The votekick of one game (!votekick, !yes and !votecancel, game.cpp;    *)
(* its expiry and its abort, game_base.cpp).  The vote is kept as a flag   *)
(* of each CGamePlayer and the name of the victim, while players join,     *)
(* are displaced by reserved players, leave and are deleted one update     *)
(* later.                                                                  *)
(*                                                                         *)
(* A CGamePlayer has a number while it exists, the least free one (which   *)
(* one makes no difference); its name may come back with another.          *)
(* Slots are Lobby's subject: here they are counted.  Each handler is a    *)
(* step; they interleave as packets arrive.                                *)
(***************************************************************************)
EXTENDS Integers, FiniteSets

CONSTANTS Names, None,
          ReservedNames, \* names of players who join with reserved status
          NumSlots,
          Percentage,    \* m_VoteKickPercentage
          NumObjects     \* bound: how many CGamePlayers exist at once

Objects == 1 .. NumObjects
ASSUME VoteKickAssumption ==
    /\ None \notin Names /\ ReservedNames \subseteq Names /\ Percentage \in 0 .. 100 /\ NumSlots \in Nat /\ NumObjects \in Nat

VARIABLES
    inGame,    \* m_GameLoading or m_GameLoaded
    name,      \* GetName
    present,   \* m_Players
    seated,    \* those who have a slot
    marked,    \* m_DeleteMe
    announced, \* m_LeftMessageSent: those who were displaced
    kickVote,  \* those whose m_KickVote is set
    victim,    \* m_KickVotePlayer
    \* history of the vote that runs
    ballots,   \* who asked for it or said yes to it
    departed   \* whether somebody else than a displaced player has been deleted since

people == << inGame, name, present, seated, marked, announced >>
vote == << kickVote, victim, ballots, departed >>
voteKickVars == << people, vote >>

-----------------------------------------------------------------------------
Live == present \ announced

\* GetPlayerFromName: names are unique among players not announced as gone.
Named(n) == {p \in Live : name[p] = n}

NumHumanPlayers == Cardinality(Live)

VotesNeeded == ((NumHumanPlayers - 1) * Percentage + 99) \div 100

\* OpenSlot, in a lobby
SeatedWithout(out) == IF inGame THEN seated ELSE seated \ out

NoVote == victim' = None /\ ballots' = {} /\ departed' = FALSE

VoteKickInit ==
    /\ inGame = FALSE /\ name = [p \in Objects |-> None]
    /\ present = {} /\ seated = {} /\ marked = {} /\ announced = {}
    /\ kickVote = {} /\ victim = None /\ ballots = {} /\ departed = FALSE

-----------------------------------------------------------------------------
(* Players come and go.                                                    *)

\* EventPlayerJoined: into an open slot or, with reserved status, into the slot of
\* a player without it, who is marked and announced as gone at once.
Join(p, n) ==
    /\ ~inGame /\ Named(n) = {}
    /\ p \notin present /\ 1 .. (p - 1) \subseteq present
    /\ \E out \in SUBSET {q \in seated : name[q] \notin ReservedNames} :
        /\ IF Cardinality(seated) < NumSlots THEN out = {}
           ELSE n \in ReservedNames /\ Cardinality(out) = 1
        /\ name' = [name EXCEPT ![p] = n]
        /\ present' = present \cup {p}
        /\ seated' = (seated \ out) \cup {p}
        /\ marked' = marked \cup out /\ announced' = announced \cup out
    /\ UNCHANGED << inGame, vote >>

\* A player leaves, loses its connection or is kicked by an admin.
Mark(p) ==
    /\ p \in present \ marked
    /\ marked' = marked \cup {p}
    /\ seated' = SeatedWithout({p})
    /\ UNCHANGED << inGame, name, present, announced, vote >>

\* (fault) the vote goes on
LeavesVoteRunning(p) == UNCHANGED << victim, ballots >>
\* The departure of a player aborts the vote; EventPlayerDeleted does not come
\* this far for one that was announced early.
AbortVote(p) ==
    IF p \in announced THEN UNCHANGED << victim, ballots >> ELSE victim' = None /\ ballots' = {}

\* The next update deletes it.
EventPlayerDeleted(p) ==
    /\ p \in present \cap marked
    /\ present' = present \ {p} /\ marked' = marked \ {p} /\ seated' = seated \ {p}
    /\ announced' = announced \ {p} /\ kickVote' = kickVote \ {p}
    /\ name' = [name EXCEPT ![p] = None]
    /\ AbortVote(p)
    /\ departed' = (victim' # None /\ (departed \/ p \notin announced))
    /\ UNCHANGED inGame

\* By then players who were displaced have been deleted: a join aborts the countdown.
EventGameStarted ==
    /\ ~inGame /\ Live # {} /\ present \cap announced = {}
    /\ inGame' = TRUE
    /\ UNCHANGED << name, present, seated, marked, announced, vote >>

-----------------------------------------------------------------------------
(* The vote.  A marked player's packets are still processed, in the update *)
(* that deletes it.                                                        *)

\* (fault) who voted in the last vote need not vote again
StartWith(p) == kickVote' = kickVote \cup {p}
StartAfresh(p) == kickVote' = {p}

\* !votekick: the pattern matches one player.
VoteKick(p, q) ==
    /\ victim = None /\ p \in present /\ q \in Live
    /\ Cardinality(present) # 2
    /\ name[q] \notin ReservedNames
    /\ victim' = name[q] /\ StartAfresh(p)
    /\ ballots' = {p} /\ departed' = FALSE
    /\ UNCHANGED people

MayVote(p) == p \in present \ kickVote /\ victim # None /\ name[p] # victim

\* !yes, and it is not enough yet
YesToWait(p) ==
    /\ MayVote(p)
    /\ Cardinality(kickVote \cup {p}) < VotesNeeded
    /\ kickVote' = kickVote \cup {p} /\ ballots' = ballots \cup {p}
    /\ UNCHANGED << people, victim, departed >>

\* !yes with enough votes: whoever has the victim's name now is kicked, if anybody.
YesToKick(p) ==
    /\ MayVote(p)
    /\ Cardinality(kickVote \cup {p}) >= VotesNeeded
    /\ kickVote' = kickVote \cup {p} /\ NoVote
    /\ marked' = marked \cup Named(victim)
    /\ seated' = SeatedWithout(Named(victim))
    /\ UNCHANGED << inGame, name, present, announced >>

\* !votecancel, or a minute has passed
EndVote == victim # None /\ NoVote /\ UNCHANGED << people, kickVote >>

VoteKickNext ==
    \/ \E p \in Objects, n \in Names : Join(p, n)
    \/ \E p \in Objects : Mark(p) \/ EventPlayerDeleted(p) \/ YesToWait(p) \/ YesToKick(p)
    \/ \E p, q \in Objects : VoteKick(p, q)
    \/ EventGameStarted \/ EndVote

VoteKickSpec == VoteKickInit /\ [][VoteKickNext]_voteKickVars

-----------------------------------------------------------------------------
(* Correctness.                                                            *)

VoteKickTypeOK ==
    /\ inGame \in BOOLEAN
    /\ name \in [Objects -> Names \cup {None}] /\ victim \in Names \cup {None}
    /\ present = {p \in Objects : name[p] # None}
    /\ seated \cup marked \cup kickVote \subseteq present
    /\ announced \subseteq marked /\ ballots \subseteq Objects /\ departed \in BOOLEAN
    /\ (inGame \/ seated \cap marked = {}) /\ Cardinality(seated) <= NumSlots

\* A vote counts the players who were there when it started and those who joined
\* since: when any of them is deleted the vote is over, except for the displaced,
\* whose departure was announced early (EventPlayerDeleted returns before it aborts
\* the vote).
NobodyLeavesAVote == victim # None => ~departed
VotesOK == VoteKickTypeOK /\ NobodyLeavesAVote

\* Whoever is voted out has been voted out by the share of the players that the
\* configuration asks for, in votes of this vote: flags left over from an earlier
\* vote or rounding do not help.
VotedOutByShare ==
    [][victim # None /\ victim' = None /\ ~(marked' \subseteq marked) =>
            100 * Cardinality(ballots \cup (kickVote' \ kickVote))
                >= Percentage * (NumHumanPlayers - 1)]_voteKickVars
=============================================================================
