------------------------------- MODULE Slots -------------------------------
(***************************************************************************)
(* The slots of a lobby: m_Slots, the commands and the players' requests   *)
(* that rewrite it, and the string that is hidden in it when the game      *)
(* starts.                                                                 *)
(*                                                                         *)
(* A map keeps teams, colours and races in its slots (fixed player         *)
(* settings, which imply custom forces), keeps only the teams there        *)
(* (custom forces) or lets everything move with the player (melee).  The   *)
(* race is treated like the colour wherever a slot moves, and no other     *)
(* code asks for it: it is left out, as is the download status.            *)
(*                                                                         *)
(* Lobby models who may join, whom a newcomer displaces and the deferred   *)
(* deletion of players; here a player that loses its slot is gone at once. *)
(***************************************************************************)
EXTENDS Integers, Sequences, FiniteSets, FiniteSetsExt, Functions

CONSTANTS
  PIDs,              \* players, numbered as the host numbers them
  Open, Closed, Computer,
  Maps,              \* [slots, custom, fixed, observers, numPlayers]
  Observer,          \* 12 in the code: the observers' team and their colour
  Asked,             \* the handicaps that are asked for
  HCLCommands        \* HCL command strings, characters as indices 0 .. 40

ASSUME PIDsAssumption == PIDs \subseteq Nat \ {0}
ASSUME MarksAssumption == PIDs \cap {Open, Closed, Computer} = {} /\ Open # Closed
ASSUME ObserverAssumption == Observer \in Nat \ {0}
ASSUME HCLAssumption == HCLCommands \subseteq Seq(0 .. 40)
ASSUME MapsAssumption ==
  \A m \in Maps : /\ m.slots \in Seq([team : 0 .. Observer, colour : 0 .. Observer])
                  /\ Len(m.slots) <= Observer
                  /\ m.fixed => m.custom
                  /\ m.numPlayers \in 1 .. Len(m.slots)

VARIABLES
  map,               \* m_Map
  slots,             \* m_Slots
  players,           \* m_Players
  loading,           \* m_GameLoading
  hcl                \* m_HCLCommandString, chosen when the game starts

vars == <<map, slots, players, loading, hcl>>

Handicaps == {50, 60, 70, 80, 90, 100}
SIDs == DOMAIN slots
Human(s) == slots[s].who \in PIDs
Occupied(s) == slots[s].who \notin {Open, Closed}
Playing(s) == slots[s].team # Observer
GetSIDFromPID(p) == CHOOSE s \in SIDs : slots[s].who = p

TypeOK ==
  /\ map \in Maps
  /\ players \subseteq PIDs
  /\ loading \in BOOLEAN
  /\ DOMAIN slots = DOMAIN map.slots
  /\ \A s \in SIDs : /\ slots[s].who \in PIDs \cup {Open, Closed, Computer}
                     /\ slots[s].team \in 0 .. Observer \cup {255}
                     /\ slots[s].colour \in 0 .. Observer
                     /\ loading \/ slots[s].handicap \in Handicaps

Init ==
  /\ map \in Maps
  /\ slots = [s \in DOMAIN map.slots |->
                [who |-> Open, team |-> map.slots[s].team,
                 colour |-> map.slots[s].colour, handicap |-> 100]]
  /\ players = {}
  /\ loading = FALSE
  /\ hcl = <<>>

-----------------------------------------------------------------------------
\* GetNewColour: Observer stands for the 12 that "should never happen".
GetNewColour(ss) ==
  Min({Observer} \cup {c \in 0 .. Observer - 1 : \A s \in DOMAIN ss : ss[s].colour # c})

\* The playing slots that others than the occupant of s have.
OtherPlaying(s) == {t \in SIDs \ {s} : Occupied(t) /\ Playing(t)}

\* The slots when who gets slot s; the team and the colour stay.
Given(s, who) == [slots EXCEPT ![s].who = who, ![s].handicap = 100]
Seat(s, p, team, colour) ==
  [slots EXCEPT ![s] = [who |-> p, team |-> team, colour |-> colour, handicap |-> 100]]
TeamOfSlot(s) == IF s <= map.numPlayers THEN s - 1 ELSE 0

\* (fault) Nobody counts who plays already.
PlayingNewcomer(s, p) ==
  IF map.custom THEN Given(s, p) ELSE Seat(s, p, TeamOfSlot(s), GetNewColour(slots))

\* The slots after p joins in slot s; without custom forces it is an observer
\* unless there is room to play.
Newcomer(s, p) ==
  LET observing == Seat(s, p, Observer, Observer)
  IN  IF map.custom THEN Given(s, p)
      ELSE IF Cardinality(OtherPlaying(s)) < map.numPlayers
      THEN Seat(s, p, TeamOfSlot(s), GetNewColour(observing))
      ELSE observing

EventPlayerJoined(p) ==
  /\ ~loading
  /\ p \notin players
  /\ \E s \in SIDs : /\ slots[s].who = Open
                     /\ \A t \in 1 .. s - 1 : slots[t].who # Open
                     /\ slots' = Newcomer(s, p)
  /\ players' = players \cup {p}
  /\ UNCHANGED <<map, loading, hcl>>

\* (fault) Whoever had the slot is not evicted.
OverwriteQuietly(s, who) ==
  /\ slots' = Given(s, who)
  /\ UNCHANGED <<map, players, loading, hcl>>

\* OpenSlot, CloseSlot and ComputerSlot: the team and the colour stay.
Overwrite(s, who) ==
  /\ slots' = Given(s, who)
  /\ players' = players \ {slots[s].who}
  /\ UNCHANGED <<map, loading, hcl>>

EventPlayerDeleted(p) ==
  /\ ~loading
  /\ p \in players
  /\ Overwrite(GetSIDFromPID(p), Open)

\* !open, !close and !comp.
SlotCommand(s, who) == ~loading /\ Overwrite(s, who)

\* OpenAllSlots and CloseAllSlots.
AllSlotsCommand(from, to) ==
  /\ ~loading
  /\ slots' = [s \in SIDs |-> IF slots[s].who = from THEN [slots[s] EXCEPT !.who = to]
                              ELSE slots[s]]
  /\ UNCHANGED <<map, players, loading, hcl>>

-----------------------------------------------------------------------------
\* (fault) The unused slot keeps the colour that is taken from it.
ColourTaken(s, c) ==
  /\ \A t \in SIDs : slots[t].colour = c => ~Occupied(t)
  /\ slots' = [slots EXCEPT ![s].colour = c]

\* ColourSlot: the colour of an unused slot is exchanged for the own one, so
\* that a newcomer to that slot does not bring a second one of the colour.
ColourSlot(s, c) ==
  LET holders == {t \in SIDs : slots[t].colour = c}
  IN  \/ holders = {} /\ slots' = [slots EXCEPT ![s].colour = c]
      \/ \E t \in holders :
           /\ t = Max(holders)
           /\ ~Occupied(t)
           /\ slots' = [slots EXCEPT ![t].colour = slots[s].colour, ![s].colour = c]

SwapSlots(s, t) ==
  LET Moved(from, at) ==
        IF map.fixed THEN [slots[from] EXCEPT !.team = slots[at].team, !.colour = slots[at].colour,
                                              !.handicap = slots[at].handicap]
        ELSE IF map.custom THEN [slots[from] EXCEPT !.team = slots[at].team]
        ELSE slots[from]
  IN  slots' = [slots EXCEPT ![s] = Moved(t, s), ![t] = Moved(s, t)]

\* The command !swap.
SwapCommand(s, t) ==
  /\ ~loading
  /\ s # t
  /\ SwapSlots(s, t)
  /\ UNCHANGED <<map, players, loading, hcl>>

\* GetEmptySlot(team, PID): the next open slot of the team after the own one
\* if that is of the team, else the first.
EmptySlots(s, team) ==
  LET open == {t \in SIDs : slots[t].who = Open /\ slots[t].team = team}
      ahead == {t \in open : slots[s].team = team /\ t > s}
  IN  IF ahead # {} THEN {Min(ahead)} ELSE IF open # {} THEN {Min(open)} ELSE {}

EventPlayerChangeTeam(p, team) ==
  /\ ~loading
  /\ p \in players
  /\ LET s == GetSIDFromPID(p)
         moved == [slots EXCEPT ![s].team = team]
     IN  \/ map.custom /\ \E t \in EmptySlots(s, team) : SwapSlots(s, t)
         \/ /\ ~map.custom
            /\ team = Observer /\ map.observers
            /\ slots' = [moved EXCEPT ![s].colour = Observer]
         \/ /\ ~map.custom
            /\ team < map.numPlayers
            /\ Cardinality(OtherPlaying(s)) < map.numPlayers
            /\ slots' = IF slots[s].colour = Observer
                        THEN [moved EXCEPT ![s].colour = GetNewColour(moved)] ELSE moved
  /\ UNCHANGED <<map, players, loading, hcl>>

EventPlayerChangeColour(p, c) ==
  /\ ~loading
  /\ p \in players
  /\ ~map.fixed
  /\ c < Observer
  /\ Playing(GetSIDFromPID(p))
  /\ ColourSlot(GetSIDFromPID(p), c)
  /\ UNCHANGED <<map, players, loading, hcl>>

EventPlayerChangeHandicap(p, h) ==
  /\ ~loading
  /\ p \in players
  /\ ~map.fixed
  /\ h \in Handicaps
  /\ slots' = [slots EXCEPT ![GetSIDFromPID(p)].handicap = h]
  /\ UNCHANGED <<map, players, loading, hcl>>

\* !compcolour, !comphandicap and !compteam; the last counts teams from 1 and
\* wraps at 0.
ComputerCommand(s) ==
  /\ ~loading
  /\ ~map.fixed
  /\ slots[s].who = Computer
  /\ \/ \E c \in 0 .. Observer - 1 : ColourSlot(s, c)
     \/ \E h \in Asked \cap Handicaps : slots' = [slots EXCEPT ![s].handicap = h]
     \/ \E n \in 0 .. Observer - 1 : slots' = [slots EXCEPT ![s].team = (n - 1) % 256]
  /\ UNCHANGED <<map, players, loading, hcl>>

\* ShuffleSlots, the command !sp: the playing humans trade slots at random.
ShuffleSlots ==
  /\ ~loading
  /\ LET humans == {s \in SIDs : Human(s) /\ Playing(s)}
         Dealt(from, at) ==
           IF map.custom THEN [slots[at] EXCEPT !.who = slots[from].who, !.handicap = 100]
           ELSE slots[from]
     IN  \E f \in Bijection(humans, humans) :
           slots' = [s \in SIDs |-> IF s \in humans THEN Dealt(f[s], s) ELSE slots[s]]
  /\ UNCHANGED <<map, players, loading, hcl>>

-----------------------------------------------------------------------------
\* (fault) Only 0 is left out.
EncodingEverything == [i \in 0 .. 248 |-> i + 1]

\* EncodingMap: byte after byte, but j moves on by one whenever it reaches a
\* forbidden value.  The last entries wrap round and are never read.
Forbidden == <<0, 50, 60, 70, 80, 90, 100>>
EncodingMap ==
  [i \in 0 .. 248 |-> i + Cardinality({k \in DOMAIN Forbidden : i + k - 1 >= Forbidden[k]})]

\* The nth occupied slot carries the nth character next to its handicap.
Encoded(string) ==
  [s \in SIDs |->
     LET n == Cardinality({t \in 1 .. s : Occupied(t)})
         index == (slots[s].handicap - 50) \div 10
     IN  IF Occupied(s) /\ n <= Len(string)
         THEN [slots[s] EXCEPT !.handicap = EncodingMap[index + string[n] * 6]]
         ELSE slots[s]]

EventGameStarted(string) ==
  /\ ~loading
  /\ players # {}
  /\ hcl' = string
  /\ slots' = IF Len(string) <= Cardinality({s \in SIDs : Occupied(s)})
              THEN Encoded(string) ELSE slots
  /\ loading' = TRUE
  /\ UNCHANGED <<map, players>>

Next ==
  \/ \E p \in PIDs :
       \/ EventPlayerJoined(p)
       \/ EventPlayerDeleted(p)
       \/ \E t \in 0 .. Observer : EventPlayerChangeTeam(p, t)
       \/ \E c \in 0 .. Observer : EventPlayerChangeColour(p, c)
       \/ \E h \in Asked : EventPlayerChangeHandicap(p, h)
  \/ \E s \in SIDs :
       \/ \E who \in {Open, Closed, Computer} : SlotCommand(s, who)
       \/ \E t \in SIDs : SwapCommand(s, t)
       \/ ComputerCommand(s)
  \/ AllSlotsCommand(Open, Closed)
  \/ AllSlotsCommand(Closed, Open)
  \/ ShuffleSlots
  \/ \E string \in HCLCommands : EventGameStarted(string)

Spec == Init /\ [][Next]_vars

-----------------------------------------------------------------------------
\* Whatever rewrites the slots, every player has exactly one, and no slot
\* names somebody who is not there.
SeatedApart ==
  /\ \A p \in players : Cardinality({s \in SIDs : slots[s].who = p}) = 1
  /\ \A s \in SIDs : Human(s) => slots[s].who \in players

\* No colour is given twice, neither to players nor to the unused slots a
\* newcomer may get, by any order of joins, requests, swaps and commands.
ColoursApart ==
  \A s, t \in SIDs : slots[s].colour = slots[t].colour /\ s # t => slots[s].colour = Observer

\* Where players choose their teams, who observes wears the observers'
\* colour, who plays has a colour of his own, and not more humans play than
\* the map has places for.
ObserversApart ==
  ~map.custom =>
    /\ \A s \in SIDs : Human(s) => (slots[s].colour = Observer <=> ~Playing(s))
    /\ Cardinality({s \in SIDs : Human(s) /\ Playing(s)}) <= map.numPlayers

\* Fixed player settings: whoever moves, a slot keeps its team and colour.
LayoutFixed ==
  map.fixed => \A s \in SIDs : /\ slots[s].team = map.slots[s].team
                               /\ slots[s].colour = map.slots[s].colour
LayoutOK == TypeOK /\ LayoutFixed

\* Joins, departures, requests and commands rewrite the same slots in any order:
\* every player keeps exactly one, and none loses what its map fixes.
SlotsOK == SeatedApart /\ LayoutOK

\* A map that supports the HCL standard looks for handicaps that are none of
\* the six, which are numbered in order: it finds as many as the string has
\* letters, in this order, and the handicap each of those slots had.
HCLDecodes ==
  [][LET carrying == {s \in SIDs : slots'[s].handicap \notin Handicaps}
         Decoded(s) == Cardinality(1 .. slots'[s].handicap - 1 \ Handicaps)
     IN  loading' /\ ~loading /\ Len(hcl') <= Cardinality({s \in SIDs : Occupied(s)}) =>
           /\ Cardinality(carrying) = Len(hcl')
           /\ \A s \in SIDs \ carrying : slots'[s].handicap = slots[s].handicap
           /\ \A s \in carrying :
                /\ Occupied(s)
                /\ slots'[s].handicap \in 1 .. 255
                /\ Decoded(s) \div 6 = hcl'[Cardinality(carrying \cap 1 .. s)]
                /\ (Decoded(s) % 6) * 10 + 50 = slots[s].handicap]_vars
=============================================================================
