---------------------------- MODULE Slots_proofs ----------------------------
(***************************************************************************)
(* Proofs about the slots, for any set of maps, any number of slots and    *)
(* players: every player has one slot, no colour is given twice, observers *)
(* and players are told apart, the layout of a map with fixed player       *)
(* settings stands, and the map reads the host command letters.            *)
(***************************************************************************)
EXTENDS Slots, FiniteSetTheorems, SequenceTheorems, WellFoundedInduction, TLAPS

USE PIDsAssumption, MarksAssumption, ObserverAssumption

Slot == [who : PIDs \cup {Open, Closed, Computer}, team : 0 .. Observer \cup {255},
         colour : 0 .. Observer, handicap : Handicaps]

(* A nonempty set of natural numbers has a least element.                  *)
LEMMA LeastExists ==
  ASSUME NEW T \in SUBSET Nat, T # {}
  PROVE  \E x \in T : \A y \in T : x <= y
<1> DEFINE I == {0 .. x : x \in T}
<1>1. IsWellFoundedOn(StrictSubsetOrdering(Nat), FiniteSubsetsOf(Nat))
  BY FS_StrictSubsetOrderingWellFounded
<1>2. I \subseteq FiniteSubsetsOf(Nat) /\ I # {}
  <2>1. ASSUME NEW x \in T PROVE 0 .. x \in FiniteSubsetsOf(Nat)
    <3>1. x \in Int /\ 0 \in Int /\ 0 .. x \subseteq Nat
      OBVIOUS
    <3>2. IsFiniteSet(0 .. x)
      BY <3>1, FS_Interval
    <3> QED BY <3>1, <3>2 DEF FiniteSubsetsOf
  <2> QED BY <2>1
<1>3. PICK m \in I : \A i \in I : ~ (<<i, m>> \in StrictSubsetOrdering(Nat))
  <2> HIDE DEF I
  <2> QED BY <1>1, <1>2, WFMin, Zenon
<1>4. PICK x \in T : m = 0 .. x
  OBVIOUS
<1>5. ASSUME NEW y \in T, y < x PROVE FALSE
  <2>1. 0 .. y \in I /\ 0 .. y \subseteq m /\ x \in m /\ x \notin 0 .. y
    BY <1>4, <1>5
  <2>2. <<0 .. y, m>> \in StrictSubsetOrdering(Nat)
    BY <2>1, <1>2, <1>3 DEF StrictSubsetOrdering, FiniteSubsetsOf
  <2> QED BY <2>1, <2>2, <1>3
<1> QED BY <1>5

(* Min is in the set.                                                     *)
LEMMA MinIsIn ==
  ASSUME NEW T \in SUBSET Nat, T # {}
  PROVE  Min(T) \in T
BY LeastExists DEF Min

(* The new colour is nobody's, unless it is the observers'.                *)
LEMMA NewColourIsFree ==
  ASSUME NEW ss
  PROVE  /\ GetNewColour(ss) \in 0 .. Observer
         /\ \/ GetNewColour(ss) = Observer
            \/ \A s \in DOMAIN ss : ss[s].colour # GetNewColour(ss)
<1> DEFINE T == {Observer} \cup {c \in 0 .. Observer - 1 : \A s \in DOMAIN ss : ss[s].colour # c}
<1>1. T \in SUBSET Nat /\ T # {}
  OBVIOUS
<1>2. Min(T) \in T
  <2> HIDE DEF T
  <2> QED BY <1>1, MinIsIn
<1>3. GetNewColour(ss) = Min(T)
  BY DEF GetNewColour
<1>4. GetNewColour(ss) \in T
  BY <1>2, <1>3
<1> HIDE DEF T
<1>5. ASSUME NEW c \in T PROVE c \in 0 .. Observer /\ (c = Observer \/ \A s \in DOMAIN ss : ss[s].colour # c)
  BY <1>5 DEF T
<1> QED BY <1>4, <1>5

-----------------------------------------------------------------------------
(* The inductive invariant.  While the lobby is open the slots are typed;  *)
(* when the game starts only handicaps change.                             *)

Typed ==
  /\ map \in Maps /\ players \subseteq PIDs /\ loading \in BOOLEAN
  /\ DOMAIN slots = DOMAIN map.slots
  /\ ~loading => slots \in [DOMAIN map.slots -> Slot]

Loaded == loading => \A s \in SIDs : /\ slots[s].who \in PIDs \cup {Open, Closed, Computer}
                                     /\ slots[s].team \in 0 .. Observer \cup {255}
                                     /\ slots[s].colour \in 0 .. Observer

(* SeatedApart, without counting.                                           *)
OneSlotEach ==
  /\ \A p \in players : \E s \in SIDs : slots[s].who = p
  /\ \A s, t \in SIDs : Human(s) /\ slots[s].who = slots[t].who => s = t
  /\ \A s \in SIDs : Human(s) => slots[s].who \in players

Inv == Typed /\ Loaded /\ OneSlotEach /\ LayoutFixed

(* The map's own colours are apart, which nothing in the code asks of it.   *)
MapColoursApart ==
  \A m \in Maps : \A s, t \in DOMAIN m.slots :
    m.slots[s].colour = m.slots[t].colour /\ s # t => m.slots[s].colour = Observer

\* The elements of a sequence are in its range.
LEMMA ElementTyped ==
  ASSUME NEW D, NEW q \in Seq(D), NEW i \in DOMAIN q
  PROVE  q[i] \in D
OBVIOUS

\* Slots are numbered from 1.
LEMMA SIDsAreNumbers ==
  ASSUME Typed
  PROVE  SIDs = 1 .. Len(map.slots) /\ SIDs \subseteq Nat
BY MapsAssumption DEF Typed, SIDs

\* GetSIDFromPID finds the slot of a player who is there.
LEMMA PlayerHasSlot ==
  ASSUME OneSlotEach, NEW p \in players
  PROVE  GetSIDFromPID(p) \in SIDs /\ slots[GetSIDFromPID(p)].who = p
BY DEF OneSlotEach, GetSIDFromPID

\* The map's slots keep the invariant.
LEMMA InitInv == Init => Inv
<1> SUFFICES ASSUME Init PROVE Inv
  OBVIOUS
<1> USE DEF Init
<1>1. map.slots \in Seq([team : 0 .. Observer, colour : 0 .. Observer])
  BY MapsAssumption
<1>2. slots \in [DOMAIN map.slots -> Slot]
  <2>1. ASSUME NEW s \in DOMAIN map.slots
        PROVE  map.slots[s].team \in 0 .. Observer /\ map.slots[s].colour \in 0 .. Observer
    <3>1. map.slots[s] \in [team : 0 .. Observer, colour : 0 .. Observer]
      BY <1>1, ElementTyped
    <3> QED BY <3>1
  <2>2. 100 \in Handicaps
    BY DEF Handicaps
  <2>3. slots = [s \in DOMAIN map.slots |->
                   [who |-> Open, team |-> map.slots[s].team,
                    colour |-> map.slots[s].colour, handicap |-> 100]]
    OBVIOUS
  <2>4. ASSUME NEW s \in DOMAIN map.slots
        PROVE  [who |-> Open, team |-> map.slots[s].team,
                colour |-> map.slots[s].colour, handicap |-> 100] \in Slot
    BY <2>1, <2>2 DEF Slot
  <2> QED BY <2>3, <2>4
<1>3. Typed /\ Loaded
  BY <1>2 DEF Typed, Loaded, Handicaps
<1>4. OneSlotEach /\ LayoutFixed
  BY DEF OneSlotEach, LayoutFixed, SIDs, Human
<1> QED BY <1>3, <1>4 DEF Inv

-----------------------------------------------------------------------------
(* What each way of rewriting the slots does.                              *)

(* The table after a step of an open lobby, in which everybody who had a    *)
(* slot still has it or another one.                                        *)
Kept(table) ==
  /\ table \in [SIDs -> Slot]
  /\ map.fixed => \A s \in SIDs : /\ table[s].team = slots[s].team
                                 /\ table[s].colour = slots[s].colour

\* Whatever keeps each slot's types, and on a fixed map team and colour, keeps types and
\* layout.
LEMMA KeptTyped ==
  ASSUME Inv, ~loading, UNCHANGED <<map, loading, hcl>>, players' \subseteq PIDs, Kept(slots')
  PROVE  Typed' /\ Loaded' /\ LayoutFixed' /\ SIDs' = SIDs
<1>1. SIDs = DOMAIN map.slots /\ SIDs' = SIDs
  BY DEF Inv, Typed, SIDs, Kept
<1>2. Typed' /\ Loaded'
  BY <1>1 DEF Inv, Typed, Loaded, Kept
<1>3. LayoutFixed'
  BY <1>1 DEF Inv, LayoutFixed, Kept
<1> QED BY <1>1, <1>2, <1>3

(* Only the slot that is given away changes, and only its occupant does.   *)
LEMMA GivenAway ==
  ASSUME slots \in [SIDs -> Slot], NEW s \in SIDs, NEW who \in PIDs \cup {Open, Closed, Computer}
  PROVE  /\ Given(s, who) \in [SIDs -> Slot] /\ Given(s, who)[s].who = who
         /\ \A t \in SIDs \ {s} : Given(s, who)[t] = slots[t]
         /\ \A t \in SIDs : /\ Given(s, who)[t].team = slots[t].team
                             /\ Given(s, who)[t].colour = slots[t].colour
<1> DEFINE W == PIDs \cup {Open, Closed, Computer}
           T == 0 .. Observer \cup {255}
           C == 0 .. Observer
           new == [slots EXCEPT ![s].who = who, ![s].handicap = 100]
<1>1. 100 \in Handicaps
  BY DEF Handicaps
<1>2. slots \in [SIDs -> [who : W, team : T, colour : C, handicap : Handicaps]] /\ who \in W
  BY DEF Slot
<1>3. /\ new \in [SIDs -> [who : W, team : T, colour : C, handicap : Handicaps]]
      /\ new[s].who = who
      /\ \A t \in SIDs \ {s} : new[t] = slots[t]
      /\ \A t \in SIDs : new[t].team = slots[t].team /\ new[t].colour = slots[t].colour
  <2> HIDE DEF W, T, C
  <2> QED BY <1>1, <1>2
<1> QED BY <1>3 DEF Given, Slot

\* A player who is given a slot changes no other slot.
LEMMA Seated ==
  ASSUME slots \in [SIDs -> Slot], NEW s \in SIDs, NEW p \in PIDs,
         NEW team \in 0 .. Observer, NEW colour \in 0 .. Observer
  PROVE  /\ Seat(s, p, team, colour) \in [SIDs -> Slot]
         /\ Seat(s, p, team, colour)[s].who = p /\ Seat(s, p, team, colour)[s].colour = colour
         /\ \A t \in SIDs \ {s} : Seat(s, p, team, colour)[t] = slots[t]
<1>1. [who |-> p, team |-> team, colour |-> colour, handicap |-> 100] \in Slot
  BY DEF Slot, Handicaps
<1> QED BY <1>1 DEF Seat

\* A join keeps the invariant.
LEMMA JoinStep ==
  ASSUME Inv, NEW p \in PIDs, EventPlayerJoined(p)
  PROVE  Inv'
<1>1. PICK s \in SIDs : slots[s].who = Open /\ slots' = Newcomer(s, p)
  BY DEF EventPlayerJoined
<1>2. ~loading /\ p \notin players /\ players' = players \cup {p} /\ UNCHANGED <<map, loading, hcl>>
  BY DEF EventPlayerJoined
<1>3. slots \in [SIDs -> Slot] /\ SIDs \subseteq Nat /\ s \in 1 .. Observer
  <2>1. Typed /\ ~loading
    BY <1>2 DEF Inv
  <2>2. SIDs = 1 .. Len(map.slots) /\ SIDs \subseteq Nat /\ map \in Maps
    BY <2>1, SIDsAreNumbers DEF Typed
  <2>3. Len(map.slots) <= Observer /\ Len(map.slots) \in Nat /\ Observer \in Nat
    BY <2>2, MapsAssumption, LenProperties
  <2>4. slots \in [SIDs -> Slot]
    BY <2>1 DEF Typed, SIDs
  <2> QED BY <2>2, <2>3, <2>4
<1> DEFINE observing == Seat(s, p, Observer, Observer)
<1>5. GetNewColour(observing) \in 0 .. Observer /\ TeamOfSlot(s) \in 0 .. Observer
  BY <1>3, NewColourIsFree DEF TeamOfSlot
<1>6. \/ slots' = Given(s, p)
      \/ ~map.custom /\ slots' = Seat(s, p, TeamOfSlot(s), GetNewColour(observing))
      \/ ~map.custom /\ slots' = observing
  BY <1>1 DEF Newcomer
<1>9. /\ slots' \in [SIDs -> Slot] /\ slots'[s].who = p
      /\ \A t \in SIDs \ {s} : slots'[t] = slots[t]
  BY <1>3, <1>5, <1>6, GivenAway, Seated
<1>11. Kept(slots')
  <2>1. map.fixed => slots' = Given(s, p)
    BY <1>6, MapsAssumption DEF Inv, Typed
  <2> QED BY <1>3, <1>9, <2>1, GivenAway DEF Kept
<1>12. OneSlotEach'
  <2>1. SIDs' = SIDs
    BY <1>3, <1>9 DEF SIDs
  <2>2. ASSUME NEW q \in players' PROVE \E t \in SIDs : slots'[t].who = q
    <3>1. CASE q = p
      BY <3>1, <1>9
    <3>2. CASE q \in players
      <4>1. PICK t \in SIDs : slots[t].who = q
        BY <3>2 DEF Inv, OneSlotEach
      <4>2. t # s
        BY <1>1, <4>1, <3>2 DEF Inv, Typed
      <4> QED BY <4>1, <4>2, <1>9
    <3> QED BY <2>2, <3>1, <3>2, <1>2
  <2>3. ASSUME NEW t \in SIDs, slots[t].who = p PROVE FALSE
    BY <1>2, <2>3 DEF Inv, OneSlotEach, Human
  <2>4. \A t, u \in SIDs : slots'[t].who \in PIDs /\ slots'[t].who = slots'[u].who => t = u
    BY <1>9, <2>3 DEF Inv, OneSlotEach, Human
  <2>5. \A t \in SIDs : slots'[t].who \in PIDs => slots'[t].who \in players'
    BY <1>2, <1>9 DEF Inv, OneSlotEach, Human
  <2> QED BY <2>1, <2>2, <2>4, <2>5 DEF OneSlotEach, Human
<1> QED BY <1>2, <1>11, <1>12, KeptTyped DEF Inv, Typed

\* So does overwriting a slot, whoever is in it.
LEMMA OverwriteStep ==
  ASSUME Inv, ~loading, NEW s \in SIDs, NEW who \in {Open, Closed, Computer}, Overwrite(s, who)
  PROVE  Inv'
<1>1. slots \in [SIDs -> Slot] /\ 100 \in Handicaps
  BY DEF Inv, Typed, SIDs, Handicaps
<1>2. slots' = Given(s, who) /\ who \in PIDs \cup {Open, Closed, Computer}
  BY DEF Overwrite
<1>5. /\ slots' \in [SIDs -> Slot] /\ slots'[s].who = who
      /\ \A t \in SIDs \ {s} : slots'[t] = slots[t]
  BY <1>1, <1>2, GivenAway
<1>3. Kept(slots')
  BY <1>1, <1>2, GivenAway DEF Kept
<1>4. OneSlotEach'
  <2>1. SIDs' = SIDs
    BY <1>1, <1>5 DEF SIDs
  <2> QED BY <1>1, <1>5, <2>1 DEF Inv, OneSlotEach, Human, Overwrite
<1> QED BY <1>3, <1>4, KeptTyped DEF Inv, Typed, Overwrite

(* The occupants trade slots, or stay where they are.                      *)
LEMMA OccupantsTrade ==
  ASSUME OneSlotEach, players' = players, SIDs' = SIDs, NEW f \in [SIDs -> SIDs],
         \A s, t \in SIDs : f[s] = f[t] => s = t,
         \A t \in SIDs : \E s \in SIDs : f[s] = t,
         \A s \in SIDs : slots'[s].who = slots[f[s]].who
  PROVE  OneSlotEach'
<1>1. ASSUME NEW p \in players PROVE \E s \in SIDs : slots'[s].who = p
  BY DEF OneSlotEach
<1>2. ASSUME NEW s \in SIDs, NEW t \in SIDs, slots'[s].who \in PIDs, slots'[s].who = slots'[t].who
      PROVE  s = t
  BY <1>2 DEF OneSlotEach, Human
<1>3. ASSUME NEW s \in SIDs, slots'[s].who \in PIDs PROVE slots'[s].who \in players
  BY <1>3 DEF OneSlotEach, Human
<1> QED BY <1>1, <1>2, <1>3 DEF OneSlotEach, Human

\* Where nobody moves everybody keeps its one slot.
LEMMA OccupantsStay ==
  ASSUME OneSlotEach, players' = players, SIDs' = SIDs,
         \A s \in SIDs : slots'[s].who = slots[s].who
  PROVE  OneSlotEach'
BY DEF OneSlotEach, Human

(* A step of an open lobby that keeps the table typed and the occupants.    *)
LEMMA RewrittenInv ==
  ASSUME Inv, ~loading, UNCHANGED <<map, players, loading, hcl>>, Kept(slots'),
         \A s \in SIDs : slots'[s].who = slots[s].who
  PROVE  Inv'
<1>1. Typed' /\ Loaded' /\ LayoutFixed' /\ SIDs' = SIDs
  BY KeptTyped DEF Inv, Typed
<1> QED BY <1>1, OccupantsStay DEF Inv

Swap(s, t) == [i \in SIDs |-> IF i = s THEN t ELSE IF i = t THEN s ELSE i]

Permutes(f) ==
  /\ f \in [SIDs -> SIDs]
  /\ \A i, j \in SIDs : f[i] = f[j] => i = j
  /\ \A j \in SIDs : \E i \in SIDs : f[i] = j

\* A swap exchanges two players, and their colours or none.
LEMMA SwapSlotsDoes ==
  ASSUME slots \in [SIDs -> Slot], NEW s \in SIDs, NEW t \in SIDs, SwapSlots(s, t)
  PROVE  /\ Kept(slots')
         /\ \A i \in SIDs : slots'[i].who = slots[Swap(s, t)[i]].who
         /\ \/ \A i \in SIDs : slots'[i].colour = slots[i].colour
            \/ \A i \in SIDs : slots'[i].colour = slots[Swap(s, t)[i]].colour
<1> DEFINE Moved(from, at) ==
        IF map.fixed THEN [slots[from] EXCEPT !.team = slots[at].team, !.colour = slots[at].colour,
                                              !.handicap = slots[at].handicap]
        ELSE IF map.custom THEN [slots[from] EXCEPT !.team = slots[at].team]
        ELSE slots[from]
<1>1. ASSUME NEW from \in SIDs, NEW at \in SIDs
      PROVE  /\ Moved(from, at) \in Slot /\ Moved(from, at).who = slots[from].who
             /\ IF map.fixed THEN /\ Moved(from, at).team = slots[at].team
                                  /\ Moved(from, at).colour = slots[at].colour
                ELSE Moved(from, at).colour = slots[from].colour
  <2>1. slots[from] \in Slot /\ slots[at] \in Slot
    OBVIOUS
  <2> DEFINE W == PIDs \cup {Open, Closed, Computer}
             T == 0 .. Observer \cup {255}
             C == 0 .. Observer
  <2>2. /\ slots[from] \in [who : W, team : T, colour : C, handicap : Handicaps]
        /\ slots[at] \in [who : W, team : T, colour : C, handicap : Handicaps]
    BY <2>1 DEF Slot
  <2>3. /\ Moved(from, at) \in [who : W, team : T, colour : C, handicap : Handicaps]
        /\ Moved(from, at).who = slots[from].who
        /\ IF map.fixed THEN /\ Moved(from, at).team = slots[at].team
                             /\ Moved(from, at).colour = slots[at].colour
           ELSE Moved(from, at).colour = slots[from].colour
    <3> HIDE DEF W, T, C
    <3>1. CASE map.fixed
      BY <2>2, <3>1
    <3>2. CASE ~map.fixed
      BY <2>2, <3>2
    <3> QED BY <3>1, <3>2
  <2> QED BY <2>3 DEF Slot
<1>2. slots' = [slots EXCEPT ![s] = Moved(t, s), ![t] = Moved(s, t)]
  BY DEF SwapSlots
<1> HIDE DEF Moved
<1>3. slots' \in [SIDs -> Slot] /\ \A i \in SIDs : slots'[i] = IF i = t THEN Moved(s, t)
                                                        ELSE IF i = s THEN Moved(t, s) ELSE slots[i]
  BY <1>1, <1>2
<1>4. \A i \in SIDs : slots'[i].who = slots[Swap(s, t)[i]].who
  BY <1>1, <1>3 DEF Swap
<1>5. CASE map.fixed
  <2>1. ASSUME NEW i \in SIDs
        PROVE  slots'[i].team = slots[i].team /\ slots'[i].colour = slots[i].colour
    <3>1. CASE i = t
      BY <1>1, <1>3, <1>5, <3>1
    <3>2. CASE i # t /\ i = s
      BY <1>1, <1>3, <1>5, <3>2
    <3>3. CASE i # t /\ i # s
      BY <1>3, <3>3
    <3> QED BY <3>1, <3>2, <3>3
  <2> QED BY <1>3, <1>4, <2>1 DEF Kept
<1>6. CASE ~map.fixed
  <2>1. \A i \in SIDs : slots'[i].colour = slots[Swap(s, t)[i]].colour
    BY <1>1, <1>3, <1>6 DEF Swap
  <2> QED BY <1>3, <1>4, <1>6, <2>1 DEF Kept
<1> QED BY <1>5, <1>6

\* A swap is a permutation of the slots.
LEMMA SwapIsBijection ==
  ASSUME NEW s \in SIDs, NEW t \in SIDs
  PROVE  Permutes(Swap(s, t))
<1>1. Swap(s, t) \in [SIDs -> SIDs] /\ \A i \in SIDs : Swap(s, t)[Swap(s, t)[i]] = i
  BY DEF Swap
<1> QED BY <1>1 DEF Permutes

\* A swap keeps the invariant.
LEMMA SwapInv ==
  ASSUME Inv, ~loading, NEW s \in SIDs, NEW t \in SIDs, SwapSlots(s, t),
         UNCHANGED <<map, players, loading, hcl>>
  PROVE  Inv'
<1>1. slots \in [SIDs -> Slot]
  BY DEF Inv, Typed, SIDs
<1>2. Typed' /\ Loaded' /\ LayoutFixed' /\ SIDs' = SIDs
  BY <1>1, SwapSlotsDoes, KeptTyped DEF Inv, Typed
<1>3. OneSlotEach'
  <2>1. \A i \in SIDs : slots'[i].who = slots[Swap(s, t)[i]].who
    BY <1>1, SwapSlotsDoes
  <2>2. OneSlotEach /\ players' = players /\ SIDs' = SIDs
    BY <1>2 DEF Inv
  <2> DEFINE f == Swap(s, t)
  <2>3. Permutes(f)
    BY SwapIsBijection
  <2>4. \A i \in SIDs : slots'[i].who = slots[f[i]].who
    BY <2>1
  <2> HIDE DEF f
  <2> QED BY <2>2, <2>3, <2>4, OccupantsTrade DEF Permutes
<1> QED BY <1>2, <1>3 DEF Inv

(* One slot gets another team, another colour or another handicap.          *)
LEMMA RestyledKept ==
  ASSUME slots \in [SIDs -> Slot], NEW s \in SIDs, ~map.fixed,
         NEW team \in 0 .. Observer \cup {255}, NEW colour \in 0 .. Observer,
         slots' \in {[slots EXCEPT ![s].team = team], [slots EXCEPT ![s].colour = colour],
                    [[slots EXCEPT ![s].team = team] EXCEPT ![s].colour = colour]}
  PROVE  /\ Kept(slots') /\ \A i \in SIDs : slots'[i].who = slots[i].who
         /\ \A i \in SIDs \ {s} : slots'[i].colour = slots[i].colour
         /\ slots'[s].colour \in {slots[s].colour, colour}
         /\ slots' # [slots EXCEPT ![s].team = team] => slots'[s].colour = colour
<1> DEFINE W == PIDs \cup {Open, Closed, Computer}
           T == 0 .. Observer \cup {255}
           C == 0 .. Observer
<1>1. /\ slots \in [SIDs -> [who : W, team : T, colour : C, handicap : Handicaps]]
      /\ team \in T /\ colour \in C
  BY DEF Slot
<1>2. /\ slots' \in [SIDs -> [who : W, team : T, colour : C, handicap : Handicaps]]
      /\ \A i \in SIDs : slots'[i].who = slots[i].who
      /\ \A i \in SIDs \ {s} : slots'[i].colour = slots[i].colour
      /\ slots'[s].colour \in {slots[s].colour, colour}
      /\ slots' # [slots EXCEPT ![s].team = team] => slots'[s].colour = colour
  <2> DEFINE mid == [slots EXCEPT ![s].team = team]
             D == [who : W, team : T, colour : C, handicap : Handicaps]
  <2> HIDE DEF W, T, C
  <2>1. CASE slots' = [slots EXCEPT ![s].team = team]
    BY <1>1, <2>1
  <2>2. CASE slots' = [slots EXCEPT ![s].colour = colour]
    BY <1>1, <2>2
  <2>3. CASE slots' = [[slots EXCEPT ![s].team = team] EXCEPT ![s].colour = colour]
    <3>1. slots' = [mid EXCEPT ![s].colour = colour]
      BY <2>3
    <3>2. /\ mid \in [SIDs -> D]
          /\ \A i \in SIDs : mid[i].who = slots[i].who /\ mid[i].colour = slots[i].colour
      BY <1>1
    <3> HIDE DEF mid
    <3>3. /\ slots' \in [SIDs -> D]
          /\ \A i \in SIDs : /\ slots'[i].who = mid[i].who
                             /\ slots'[i].colour = IF i = s THEN colour ELSE mid[i].colour
      BY <1>1, <3>1, <3>2
    <3> HIDE DEF D
    <3> QED BY <3>2, <3>3 DEF D
  <2> QED BY <2>1, <2>2, <2>3
<1> QED BY <1>2 DEF Kept, Slot

\* A slot gets a colour that nobody has, or exchanges its colour with another.
LEMMA ColourSlotDoes ==
  ASSUME slots \in [SIDs -> Slot], ~map.fixed, NEW s \in SIDs, NEW c \in 0 .. Observer, ColourSlot(s, c)
  PROVE  /\ Kept(slots') /\ \A i \in SIDs : slots'[i].who = slots[i].who
         /\ \/ /\ \A i \in SIDs : slots[i].colour # c
               /\ slots'[s].colour = c
               /\ \A i \in SIDs \ {s} : slots'[i].colour = slots[i].colour
            \/ \E t \in SIDs : /\ slots[t].colour = c
                               /\ \A i \in SIDs : slots'[i].colour = slots[Swap(s, t)[i]].colour
<1> DEFINE W == PIDs \cup {Open, Closed, Computer}
           T == 0 .. Observer \cup {255}
           C == 0 .. Observer
           holders == {t \in SIDs : slots[t].colour = c}
<1>1. slots \in [SIDs -> [who : W, team : T, colour : C, handicap : Handicaps]] /\ c \in C
  BY DEF Slot
<1>2. CASE holders = {} /\ slots' = [slots EXCEPT ![s].colour = c]
  <2>1. /\ slots' \in [SIDs -> [who : W, team : T, colour : C, handicap : Handicaps]]
        /\ \A i \in SIDs : slots'[i].who = slots[i].who
        /\ slots'[s].colour = c /\ \A i \in SIDs \ {s} : slots'[i].colour = slots[i].colour
    <3> HIDE DEF W, T, C
    <3> QED BY <1>1, <1>2
  <2> QED BY <1>2, <2>1 DEF Kept, Slot
<1>3. ASSUME NEW t \in holders,
             slots' = [slots EXCEPT ![t].colour = slots[s].colour, ![s].colour = c]
      PROVE  /\ Kept(slots') /\ \A i \in SIDs : slots'[i].who = slots[i].who
             /\ \A i \in SIDs : slots'[i].colour = slots[Swap(s, t)[i]].colour
  <2>1. t \in SIDs /\ slots[t].colour = c
    OBVIOUS
  <2>2. /\ slots' \in [SIDs -> [who : W, team : T, colour : C, handicap : Handicaps]]
        /\ \A i \in SIDs : slots'[i].who = slots[i].who
        /\ \A i \in SIDs : slots'[i].colour = IF i = s THEN c ELSE IF i = t THEN slots[s].colour
                                              ELSE slots[i].colour
    <3> DEFINE mid == [slots EXCEPT ![t].colour = slots[s].colour]
               D == [who : W, team : T, colour : C, handicap : Handicaps]
    <3>1. slots' = [mid EXCEPT ![s].colour = c]
      BY <1>3
    <3> HIDE DEF W, T, C, holders
    <3>2. /\ mid \in [SIDs -> D]
          /\ \A i \in SIDs : /\ mid[i].who = slots[i].who
                             /\ mid[i].colour = IF i = t THEN slots[s].colour ELSE slots[i].colour
      BY <1>1, <2>1
    <3> HIDE DEF mid
    <3>3. /\ slots' \in [SIDs -> D]
          /\ \A i \in SIDs : /\ slots'[i].who = mid[i].who
                             /\ slots'[i].colour = IF i = s THEN c ELSE mid[i].colour
      BY <1>1, <3>1, <3>2
    <3> HIDE DEF D
    <3> QED BY <3>2, <3>3 DEF D
  <2> QED BY <2>1, <2>2 DEF Kept, Slot, Swap
<1> QED BY <1>2, <1>3 DEF ColourSlot

-----------------------------------------------------------------------------
(* Every step keeps the invariant.                                         *)

\* GetEmptySlot finds slots only.
LEMMA EmptySlotIsSlot ==
  ASSUME Inv, NEW s, NEW team
  PROVE  EmptySlots(s, team) \subseteq SIDs
<1> DEFINE open == {u \in SIDs : slots[u].who = Open /\ slots[u].team = team}
           ahead == {u \in open : slots[s].team = team /\ u > s}
<1>1. open \in SUBSET Nat /\ ahead \in SUBSET Nat
  BY SIDsAreNumbers DEF Inv
<1>2. (ahead # {} => Min(ahead) \in ahead) /\ (open # {} => Min(open) \in open)
  <2> HIDE DEF open, ahead
  <2> QED BY <1>1, MinIsIn
<1> QED BY <1>2 DEF EmptySlots

\* A player who asks for a team moves to a free slot, or only changes its own slot's
\* team.
LEMMA ChangeTeamStep ==
  ASSUME Inv, NEW p \in PIDs, NEW team \in 0 .. Observer, EventPlayerChangeTeam(p, team)
  PROVE  Inv'
<1> DEFINE s == GetSIDFromPID(p)
           moved == [slots EXCEPT ![s].team = team]
<1>1. ~loading /\ p \in players /\ UNCHANGED <<map, players, loading, hcl>>
  BY DEF EventPlayerChangeTeam
<1>2. s \in SIDs /\ slots \in [SIDs -> Slot]
  BY <1>1, PlayerHasSlot DEF Inv, Typed, SIDs
<1>3. \/ \E t \in EmptySlots(s, team) : SwapSlots(s, t)
      \/ ~map.custom /\ slots' = [moved EXCEPT ![s].colour = Observer]
      \/ /\ ~map.custom
         /\ slots' \in {[moved EXCEPT ![s].colour = GetNewColour(moved)], moved}
  BY DEF EventPlayerChangeTeam
<1> HIDE DEF s
<1>4. ASSUME NEW t \in EmptySlots(s, team), SwapSlots(s, t) PROVE Inv'
  BY <1>1, <1>2, <1>4, EmptySlotIsSlot, SwapInv
<1>5. ASSUME ~map.custom, NEW colour \in 0 .. Observer,
             slots' \in {moved, [moved EXCEPT ![s].colour = colour]}
      PROVE  Inv'
  <2>1. ~map.fixed
    BY <1>5, MapsAssumption DEF Inv, Typed
  <2>2. Kept(slots') /\ \A i \in SIDs : slots'[i].who = slots[i].who
    <3>1. slots' \in {[slots EXCEPT ![s].team = team], [slots EXCEPT ![s].colour = colour],
                      [[slots EXCEPT ![s].team = team] EXCEPT ![s].colour = colour]}
      BY <1>5
    <3>2. team \in 0 .. Observer \cup {255}
      OBVIOUS
    <3> HIDE DEF moved
    <3> QED BY <1>2, <2>1, <3>1, <3>2, RestyledKept
  <2> QED BY <1>1, <2>2, RewrittenInv
<1>6. GetNewColour(moved) \in 0 .. Observer /\ Observer \in 0 .. Observer
  BY NewColourIsFree
<1> HIDE DEF moved
<1> QED BY <1>3, <1>4, <1>5, <1>6

\* A colour that is granted keeps the invariant.
LEMMA ColourStep ==
  ASSUME Inv, NEW s \in SIDs, ~loading, ~map.fixed, NEW c \in 0 .. Observer, ColourSlot(s, c),
         UNCHANGED <<map, players, loading, hcl>>
  PROVE  Inv'
<1>1. slots \in [SIDs -> Slot]
  BY DEF Inv, Typed, SIDs
<1>2. Kept(slots') /\ \A i \in SIDs : slots'[i].who = slots[i].who
  BY <1>1, ColourSlotDoes
<1> QED BY <1>2, RewrittenInv

\* A handicap that is granted is one of the six, and changes nothing else.
LEMMA HandicapStep ==
  ASSUME Inv, NEW s \in SIDs, ~loading, NEW h \in Handicaps,
         slots' = [slots EXCEPT ![s].handicap = h], UNCHANGED <<map, players, loading, hcl>>
  PROVE  /\ Inv' /\ SIDs' = SIDs
         /\ \A i \in SIDs : slots'[i].colour = slots[i].colour
<1> DEFINE W == PIDs \cup {Open, Closed, Computer}
           T == 0 .. Observer \cup {255}
           C == 0 .. Observer
<1>1. slots \in [SIDs -> [who : W, team : T, colour : C, handicap : Handicaps]]
  BY DEF Inv, Typed, SIDs, Slot
<1>2. /\ slots' \in [SIDs -> [who : W, team : T, colour : C, handicap : Handicaps]]
      /\ \A i \in SIDs : /\ slots'[i].who = slots[i].who /\ slots'[i].team = slots[i].team
                          /\ slots'[i].colour = slots[i].colour
  <2> HIDE DEF W, T, C
  <2> QED BY <1>1
<1>3. Kept(slots')
  BY <1>2 DEF Kept, Slot
<1>4. SIDs' = SIDs
  BY <1>3, KeptTyped DEF Inv, Typed
<1> QED BY <1>2, <1>3, <1>4, RewrittenInv

\* !openall and !closeall touch unused slots only.
LEMMA AllSlotsStep ==
  ASSUME Inv, NEW from \in {Open, Closed}, NEW to \in {Open, Closed}, AllSlotsCommand(from, to)
  PROVE  /\ Inv' /\ SIDs' = SIDs
         /\ \A i \in SIDs : slots'[i].colour = slots[i].colour
<1> DEFINE W == PIDs \cup {Open, Closed, Computer}
           T == 0 .. Observer \cup {255}
           C == 0 .. Observer
<1>1. /\ ~loading /\ UNCHANGED <<map, players, loading, hcl>>
      /\ slots' = [s \in SIDs |-> IF slots[s].who = from THEN [slots[s] EXCEPT !.who = to]
                                 ELSE slots[s]]
  BY DEF AllSlotsCommand
<1>2. slots \in [SIDs -> [who : W, team : T, colour : C, handicap : Handicaps]] /\ to \in W
  BY <1>1 DEF Inv, Typed, SIDs, Slot
<1>3. /\ slots' \in [SIDs -> [who : W, team : T, colour : C, handicap : Handicaps]]
      /\ \A i \in SIDs : /\ slots'[i].team = slots[i].team /\ slots'[i].colour = slots[i].colour
                         /\ slots'[i].who = IF slots[i].who = from THEN to ELSE slots[i].who
  <2> HIDE DEF W, T, C
  <2> QED BY <1>1, <1>2
<1>4. Kept(slots')
  BY <1>3 DEF Kept, Slot
<1>5. Typed' /\ Loaded' /\ LayoutFixed' /\ SIDs' = SIDs
  BY <1>1, <1>4, KeptTyped DEF Inv, Typed
<1>6. from \notin PIDs /\ to \notin PIDs
  OBVIOUS
<1>7. OneSlotEach'
  <2>1. \A i \in SIDs : slots'[i].who \in PIDs => slots'[i].who = slots[i].who
    BY <1>3, <1>6
  <2>2. \A i \in SIDs, p \in players : slots[i].who = p => slots'[i].who = p
    BY <1>3, <1>6 DEF Inv, Typed
  <2> QED BY <1>1, <1>5, <2>1, <2>2 DEF Inv, OneSlotEach, Human
<1> QED BY <1>3, <1>5, <1>7 DEF Inv

(* The deal of ShuffleSlots, where nobody else moves.                      *)
LEMMA DealtOut ==
  ASSUME NEW H \in SUBSET SIDs, NEW f \in Bijection(H, H)
  PROVE  LET g == [s \in SIDs |-> IF s \in H THEN f[s] ELSE s]
         IN  /\ g \in [SIDs -> SIDs]
             /\ \A s, t \in SIDs : g[s] = g[t] => s = t
             /\ \A t \in SIDs : \E s \in SIDs : g[s] = t
<1> DEFINE g == [s \in SIDs |-> IF s \in H THEN f[s] ELSE s]
<1>1. /\ f \in [H -> H]
      /\ \A s, t \in H : f[s] = f[t] => s = t
      /\ \A t \in H : \E s \in H : f[s] = t
  BY DEF Bijection, Injection, Surjection, IsInjective
<1>2. g \in [SIDs -> SIDs]
  BY <1>1
<1>3. ASSUME NEW s \in SIDs, NEW t \in SIDs, g[s] = g[t] PROVE s = t
  BY <1>1, <1>3
<1>4. ASSUME NEW t \in SIDs PROVE \E s \in SIDs : g[s] = t
  BY <1>1
<1> QED BY <1>2, <1>3, <1>4

\* A shuffle is a permutation of the slots, with their colours or without.
LEMMA ShuffleStep ==
  ASSUME Inv, ShuffleSlots
  PROVE  /\ Inv' /\ SIDs' = SIDs
         /\ \/ \A i \in SIDs : slots'[i].colour = slots[i].colour
            \/ \E g \in [SIDs -> SIDs] : /\ \A s, t \in SIDs : g[s] = g[t] => s = t
                                       /\ \A i \in SIDs : slots'[i].colour = slots[g[i]].colour
<1> DEFINE H == {s \in SIDs : Human(s) /\ Playing(s)}
           Dealt(from, at) ==
             IF map.custom THEN [slots[at] EXCEPT !.who = slots[from].who, !.handicap = 100]
             ELSE slots[from]
           W == PIDs \cup {Open, Closed, Computer}
           T == 0 .. Observer \cup {255}
           C == 0 .. Observer
<1>1. PICK f \in Bijection(H, H) :
        slots' = [s \in SIDs |-> IF s \in H THEN Dealt(f[s], s) ELSE slots[s]]
  BY DEF ShuffleSlots
<1>2. ~loading /\ UNCHANGED <<map, players, loading, hcl>>
  BY DEF ShuffleSlots
<1> DEFINE g == [s \in SIDs |-> IF s \in H THEN f[s] ELSE s]
<1>3. /\ g \in [SIDs -> SIDs]
      /\ \A s, t \in SIDs : g[s] = g[t] => s = t
      /\ \A t \in SIDs : \E s \in SIDs : g[s] = t
  <2>1. H \in SUBSET SIDs
    OBVIOUS
  <2> HIDE DEF H
  <2> QED BY <2>1, DealtOut
<1>4. slots \in [SIDs -> [who : W, team : T, colour : C, handicap : Handicaps]] /\ 100 \in Handicaps
  BY <1>2 DEF Inv, Typed, SIDs, Slot, Handicaps
<1>5. ASSUME NEW from \in SIDs, NEW at \in SIDs
      PROVE  /\ Dealt(from, at) \in [who : W, team : T, colour : C, handicap : Handicaps]
             /\ Dealt(from, at).who = slots[from].who
             /\ IF map.custom THEN /\ Dealt(from, at).team = slots[at].team
                                   /\ Dealt(from, at).colour = slots[at].colour
                ELSE Dealt(from, at) = slots[from]
  <2> HIDE DEF W, T, C
  <2> QED BY <1>4
<1>6. \A s \in H : g[s] = f[s] /\ f[s] \in SIDs
  BY <1>3
<1>7. \A s \in SIDs \ H : g[s] = s
  OBVIOUS
<1>8. H \subseteq SIDs
  OBVIOUS
<1> HIDE DEF Dealt, H, g
<1>9. /\ slots' \in [SIDs -> [who : W, team : T, colour : C, handicap : Handicaps]]
      /\ \A i \in SIDs : slots'[i].who = slots[g[i]].who
      /\ map.custom => \A i \in SIDs : /\ slots'[i].team = slots[i].team
                                       /\ slots'[i].colour = slots[i].colour
      /\ ~map.custom => \A i \in SIDs : slots'[i].colour = slots[g[i]].colour
  <2>1. ASSUME NEW i \in SIDs
        PROVE  /\ slots'[i] \in [who : W, team : T, colour : C, handicap : Handicaps]
               /\ slots'[i].who = slots[g[i]].who
               /\ map.custom => slots'[i].team = slots[i].team /\ slots'[i].colour = slots[i].colour
               /\ ~map.custom => slots'[i].colour = slots[g[i]].colour
    <3> HIDE DEF W, T, C
    <3>1. CASE i \in H
      BY <1>1, <1>5, <1>6, <3>1
    <3>2. CASE i \notin H
      BY <1>1, <1>4, <1>7, <3>2
    <3> QED BY <3>1, <3>2
  <2>2. slots' = [i \in SIDs |-> slots'[i]]
    BY <1>1
  <2> HIDE DEF W, T, C
  <2> QED BY <2>1, <2>2
<1>10. Kept(slots')
  <2>1. map.fixed => map.custom
    BY MapsAssumption DEF Inv, Typed
  <2> QED BY <1>9, <2>1 DEF Kept, Slot
<1>11. Typed' /\ Loaded' /\ LayoutFixed' /\ SIDs' = SIDs
  BY <1>2, <1>10, KeptTyped DEF Inv, Typed
<1>12. OneSlotEach'
  BY <1>2, <1>3, <1>9, <1>11, OccupantsTrade DEF Inv
<1> QED BY <1>3, <1>9, <1>11, <1>12 DEF Inv

(* The HCL string changes handicaps only.                                  *)
LEMMA StartStep ==
  ASSUME Inv, NEW string, EventGameStarted(string)
  PROVE  /\ Inv' /\ SIDs' = SIDs
         /\ \A i \in SIDs : /\ slots'[i].who = slots[i].who
                            /\ slots'[i].team = slots[i].team
                            /\ slots'[i].colour = slots[i].colour
<1>1. ~loading /\ loading' /\ UNCHANGED <<map, players>> /\ slots' \in {Encoded(string), slots}
  BY DEF EventGameStarted
<1>2. slots \in [SIDs -> Slot]
  BY <1>1 DEF Inv, Typed, SIDs
<1>3. ASSUME NEW r \in Slot, NEW x
      PROVE  LET new == [r EXCEPT !.handicap = x]
             IN  new.who = r.who /\ new.team = r.team /\ new.colour = r.colour
  BY DEF Slot
<1>4. DOMAIN slots' = SIDs /\ SIDs' = SIDs
  BY <1>1, <1>2 DEF Encoded, SIDs
<1>5. ASSUME NEW i \in SIDs
      PROVE  slots'[i].who = slots[i].who /\ slots'[i].team = slots[i].team
                /\ slots'[i].colour = slots[i].colour
  <2>1. slots[i] \in Slot
    BY <1>2
  <2>2. \/ slots'[i] = slots[i]
        \/ \E x : slots'[i] = [slots[i] EXCEPT !.handicap = x]
    <3>1. CASE slots' = slots
      BY <3>1
    <3>2. CASE slots' = Encoded(string)
      <4> DEFINE n == Cardinality({t \in 1 .. i : Occupied(t)})
                 index == (slots[i].handicap - 50) \div 10
                 x == EncodingMap[index + string[n] * 6]
      <4>1. slots'[i] = IF Occupied(i) /\ n <= Len(string) THEN [slots[i] EXCEPT !.handicap = x]
                        ELSE slots[i]
        BY <3>2 DEF Encoded
      <4> HIDE DEF x
      <4> QED BY <4>1
    <3> QED BY <1>1, <3>1, <3>2
  <2>3. ASSUME NEW x, slots'[i] = [slots[i] EXCEPT !.handicap = x]
        PROVE  slots'[i].who = slots[i].who /\ slots'[i].team = slots[i].team
                  /\ slots'[i].colour = slots[i].colour
    BY <1>3, <2>1, <2>3
  <2> QED BY <2>2, <2>3
<1>6. \A i \in SIDs : /\ slots[i].who \in PIDs \cup {Open, Closed, Computer}
                     /\ slots[i].team \in 0 .. Observer \cup {255}
                     /\ slots[i].colour \in 0 .. Observer
  BY <1>2 DEF Slot
<1>7. Typed' /\ Loaded' /\ LayoutFixed'
  BY <1>1, <1>4, <1>5, <1>6 DEF Inv, Typed, Loaded, LayoutFixed, SIDs
<1>8. OneSlotEach'
  BY <1>1, <1>4, <1>5, OccupantsStay DEF Inv
<1> QED BY <1>4, <1>5, <1>7, <1>8 DEF Inv

\* !compteam gives a team, or 255 (section 13 of the README).
LEMMA ComputerTeam ==
  ASSUME NEW n \in 0 .. Observer - 1
  PROVE  (n - 1) % 256 \in 0 .. Observer \cup {255}
<1>1. CASE n = 0
  <2>1. \A a, q, r \in Int : a = 256 * q + r /\ r \in 0 .. 255 => a % 256 = r
    OBVIOUS
  <2>2. n - 1 = 256 * (0 - 1) + 255 /\ n - 1 \in Int /\ 0 - 1 \in Int /\ 255 \in 0 .. 255 /\ 255 \in Int
    BY <1>1
  <2>3. (n - 1) % 256 = 255
    BY <2>1, <2>2, ZenonT(40)
  <2> QED BY <2>3
<1>2. CASE n > 0
  BY <1>2
<1> QED BY <1>1, <1>2

\* !compteam keeps the invariant.
LEMMA TeamStep ==
  ASSUME Inv, NEW s \in SIDs, ~loading, ~map.fixed, NEW n \in 0 .. Observer - 1,
         slots' = [slots EXCEPT ![s].team = (n - 1) % 256], UNCHANGED <<map, players, loading, hcl>>
  PROVE  /\ Inv' /\ SIDs' = SIDs
         /\ \A i \in SIDs : slots'[i].colour = slots[i].colour
<1> DEFINE W == PIDs \cup {Open, Closed, Computer}
           T == 0 .. Observer \cup {255}
           C == 0 .. Observer
           team == (n - 1) % 256
<1>1. slots \in [SIDs -> [who : W, team : T, colour : C, handicap : Handicaps]] /\ team \in T
  BY ComputerTeam DEF Inv, Typed, SIDs, Slot
<1>2. /\ slots' \in [SIDs -> [who : W, team : T, colour : C, handicap : Handicaps]]
      /\ \A i \in SIDs : slots'[i].who = slots[i].who /\ slots'[i].colour = slots[i].colour
  <2> HIDE DEF W, T, C, team
  <2>1. slots' = [slots EXCEPT ![s].team = team]
    BY DEF team
  <2> QED BY <1>1, <2>1
<1>3. Kept(slots')
  BY <1>2 DEF Kept, Slot
<1>4. SIDs' = SIDs
  BY <1>3, KeptTyped DEF Inv, Typed
<1> QED BY <1>2, <1>3, <1>4, RewrittenInv

\* Every action keeps the invariant.
LEMMA StepInv == Inv /\ [Next]_vars => Inv'
<1> SUFFICES ASSUME Inv, [Next]_vars PROVE Inv'
  OBVIOUS
<1>1. ASSUME NEW p \in PIDs, EventPlayerJoined(p) PROVE Inv'
  BY <1>1, JoinStep
<1>2. ASSUME NEW p \in PIDs, EventPlayerDeleted(p) PROVE Inv'
  BY <1>2, PlayerHasSlot, OverwriteStep DEF EventPlayerDeleted, Inv
<1>3. ASSUME NEW p \in PIDs, NEW t \in 0 .. Observer, EventPlayerChangeTeam(p, t) PROVE Inv'
  BY <1>3, ChangeTeamStep
<1>4. ASSUME NEW p \in PIDs, NEW c \in 0 .. Observer, EventPlayerChangeColour(p, c) PROVE Inv'
  BY <1>4, PlayerHasSlot, ColourStep DEF EventPlayerChangeColour, Inv
<1>5. ASSUME NEW p \in PIDs, NEW h \in Asked, EventPlayerChangeHandicap(p, h) PROVE Inv'
  BY <1>5, PlayerHasSlot, HandicapStep DEF EventPlayerChangeHandicap, Inv
<1>6. ASSUME NEW s \in SIDs, NEW who \in {Open, Closed, Computer}, SlotCommand(s, who) PROVE Inv'
  BY <1>6, OverwriteStep DEF SlotCommand
<1>7. ASSUME NEW s \in SIDs, NEW t \in SIDs, SwapCommand(s, t) PROVE Inv'
  BY <1>7, SwapInv DEF SwapCommand
<1>8. ASSUME NEW s \in SIDs, ComputerCommand(s) PROVE Inv'
  <2>1. ~loading /\ ~map.fixed /\ UNCHANGED <<map, players, loading, hcl>>
    BY <1>8 DEF ComputerCommand
  <2>2. ASSUME NEW c \in 0 .. Observer - 1, ColourSlot(s, c) PROVE Inv'
    <3>1. c \in 0 .. Observer
      OBVIOUS
    <3> QED BY <2>1, <2>2, <3>1, ColourStep
  <2>3. ASSUME NEW n \in 0 .. Observer - 1, slots' = [slots EXCEPT ![s].team = (n - 1) % 256]
        PROVE  Inv'
    BY <2>1, <2>3, TeamStep
  <2>4. ASSUME NEW h \in Handicaps, slots' = [slots EXCEPT ![s].handicap = h] PROVE Inv'
    BY <2>1, <2>4, HandicapStep
  <2> QED BY <1>8, <2>2, <2>3, <2>4 DEF ComputerCommand
<1>9. CASE AllSlotsCommand(Open, Closed) \/ AllSlotsCommand(Closed, Open)
  BY <1>9, AllSlotsStep
<1>10. CASE ShuffleSlots
  BY <1>10, ShuffleStep
<1>11. ASSUME NEW string \in HCLCommands, EventGameStarted(string) PROVE Inv'
  BY <1>11, StartStep
<1>12. CASE UNCHANGED vars
  BY <1>12 DEF vars, Inv, Typed, Loaded, OneSlotEach, LayoutFixed, SIDs, Human
<1> QED
  BY <1>1, <1>2, <1>3, <1>4, <1>5, <1>6, <1>7, <1>8, <1>9, <1>10, <1>11, <1>12 DEF Next

\* The invariant holds in every reachable state.
LEMMA SlotsInvariant == Spec => []Inv
BY InitInv, StepInv, PTL DEF Spec

(* Every player has exactly one slot and no slot names somebody who is     *)
(* gone: joins, departures, the commands that open, close, swap and        *)
(* shuffle slots and the players' own requests keep it so.                 *)
THEOREM EveryPlayerHasOneSlot == Spec => []SeatedApart
<1>1. Inv => SeatedApart
  <2> SUFFICES ASSUME Inv PROVE SeatedApart
    OBVIOUS
  <2>1. ASSUME NEW p \in players PROVE Cardinality({s \in SIDs : slots[s].who = p}) = 1
    <3>1. PICK s \in SIDs : slots[s].who = p
      BY DEF Inv, OneSlotEach
    <3>2. {t \in SIDs : slots[t].who = p} = {s}
      BY <3>1 DEF Inv, Typed, OneSlotEach, Human
    <3> QED BY <3>2, FS_Singleton
  <2> QED BY <2>1 DEF Inv, OneSlotEach, SeatedApart
<1> QED BY <1>1, SlotsInvariant, PTL

(* On a map with fixed player settings whoever moves takes the team and    *)
(* the colour of the new slot (SwapSlots, ShuffleSlots, EventPlayerJoined). *)
THEOREM LayoutStands == Spec => []LayoutOK
<1>1. Inv => LayoutOK
  <2> SUFFICES ASSUME Inv PROVE LayoutOK
    OBVIOUS
  <2>1. ASSUME NEW s \in SIDs
        PROVE  /\ slots[s].who \in PIDs \cup {Open, Closed, Computer}
               /\ slots[s].team \in 0 .. Observer \cup {255}
               /\ slots[s].colour \in 0 .. Observer
               /\ loading \/ slots[s].handicap \in Handicaps
    <3>1. CASE loading
      BY <3>1 DEF Inv, Loaded
    <3>2. CASE ~loading
      BY <3>2 DEF Inv, Typed, Slot, SIDs
    <3> QED BY <3>1, <3>2 DEF Inv, Typed
  <2> QED BY <2>1 DEF Inv, Typed, LayoutOK, TypeOK
<1> QED BY <1>1, SlotsInvariant, PTL

(* Both together: what CGHost's commands and the players' requests do to   *)
(* m_Slots never takes a player's slot from him or gives him a second one, *)
(* and moves players between slots but not what the map fixes.             *)
THEOREM SlotsStayRight == Spec => []SlotsOK
<1>1. SeatedApart /\ LayoutOK => SlotsOK
  BY DEF SlotsOK
<1> QED BY <1>1, EveryPlayerHasOneSlot, LayoutStands, PTL

-----------------------------------------------------------------------------
(* Colours.                                                                *)

\* Colours that trade places stay apart.
LEMMA ColoursTrade ==
  ASSUME ColoursApart, SIDs' = SIDs, NEW g \in [SIDs -> SIDs],
         \A s, t \in SIDs : g[s] = g[t] => s = t,
         \A i \in SIDs : slots'[i].colour = slots[g[i]].colour
  PROVE  ColoursApart'
<1>1. ASSUME NEW s \in SIDs, NEW t \in SIDs, slots'[s].colour = slots'[t].colour, s # t
      PROVE  slots'[s].colour = Observer
  BY <1>1 DEF ColoursApart
<1> QED BY <1>1 DEF ColoursApart

\* So do colours that do not change.
LEMMA ColoursStay ==
  ASSUME ColoursApart, SIDs' = SIDs, \A i \in SIDs : slots'[i].colour = slots[i].colour
  PROVE  ColoursApart'
BY DEF ColoursApart

(* One slot gets the observers' colour, or one that nobody has.             *)
LEMMA OneColourNew ==
  ASSUME ColoursApart, SIDs' = SIDs, NEW s \in SIDs,
         \A i \in SIDs \ {s} : slots'[i].colour = slots[i].colour,
         slots'[s].colour = Observer \/ \A i \in SIDs \ {s} : slots[i].colour # slots'[s].colour
  PROVE  ColoursApart'
BY DEF ColoursApart

\* A newcomer on a melee map gets a colour that nobody has.
LEMMA JoinColours ==
  ASSUME Inv, ColoursApart, NEW p \in PIDs, EventPlayerJoined(p), SIDs' = SIDs
  PROVE  ColoursApart'
<1>1. PICK s \in SIDs : slots' = Newcomer(s, p)
  BY DEF EventPlayerJoined
<1>2. slots \in [SIDs -> Slot] /\ s \in 1 .. Observer
  <2>1. Typed /\ ~loading
    BY DEF EventPlayerJoined, Inv
  <2>2. SIDs = 1 .. Len(map.slots) /\ map \in Maps
    BY <2>1, SIDsAreNumbers DEF Typed
  <2>3. Len(map.slots) <= Observer /\ Len(map.slots) \in Nat
    BY <2>2, MapsAssumption, LenProperties
  <2>4. slots \in [SIDs -> Slot]
    BY <2>1 DEF Typed, SIDs
  <2>5. Observer \in Nat
    BY ObserverAssumption
  <2> QED BY <2>2, <2>3, <2>4, <2>5
<1> DEFINE observing == Seat(s, p, Observer, Observer)
           colour == GetNewColour(observing)
<1>3. /\ observing \in [SIDs -> Slot] /\ observing[s].colour = Observer
      /\ \A t \in SIDs \ {s} : observing[t] = slots[t]
  BY <1>2, Seated
<1>4. CASE slots' = Given(s, p)
  BY <1>2, <1>4, GivenAway, ColoursStay
<1>5. CASE slots' = observing
  BY <1>3, <1>5, OneColourNew
<1>6. CASE slots' = Seat(s, p, TeamOfSlot(s), colour)
  <2>1. colour \in 0 .. Observer /\ (colour = Observer \/ \A t \in SIDs : observing[t].colour # colour)
    <3> HIDE DEF observing
    <3> QED BY <1>3, NewColourIsFree
  <2>2. TeamOfSlot(s) \in 0 .. Observer
    BY <1>2 DEF TeamOfSlot
  <2>3. slots'[s].colour = colour /\ \A t \in SIDs \ {s} : slots'[t] = slots[t]
    <3> HIDE DEF colour
    <3> QED BY <1>2, <1>6, <2>1, <2>2, Seated
  <2> HIDE DEF colour, observing
  <2> QED BY <1>3, <2>1, <2>3, OneColourNew
<1> QED BY <1>1, <1>4, <1>5, <1>6 DEF Newcomer

\* A colour that is granted is nobody else's afterwards.
LEMMA ChangedColour ==
  ASSUME Inv, ColoursApart, NEW s \in SIDs, ~loading, ~map.fixed, NEW c \in 0 .. Observer,
         ColourSlot(s, c), SIDs' = SIDs
  PROVE  ColoursApart'
<1>1. slots \in [SIDs -> Slot]
  BY DEF Inv, Typed, SIDs
<1>2. \/ /\ \A i \in SIDs : slots[i].colour # c
         /\ slots'[s].colour = c
         /\ \A i \in SIDs \ {s} : slots'[i].colour = slots[i].colour
      \/ \E t \in SIDs : /\ slots[t].colour = c
                         /\ \A i \in SIDs : slots'[i].colour = slots[Swap(s, t)[i]].colour
  BY <1>1, ColourSlotDoes, ZenonT(40)
<1>3. ASSUME NEW t \in SIDs, \A i \in SIDs : slots'[i].colour = slots[Swap(s, t)[i]].colour
      PROVE  ColoursApart'
  <2> DEFINE f == Swap(s, t)
  <2>1. Permutes(f)
    BY SwapIsBijection
  <2>2. \A i \in SIDs : slots'[i].colour = slots[f[i]].colour
    BY <1>3
  <2> HIDE DEF f
  <2> QED BY <2>1, <2>2, ColoursTrade DEF Permutes
<1> QED BY <1>2, <1>3, OneColourNew

\* A swap keeps colours apart.
LEMMA SwappedColours ==
  ASSUME Inv, ColoursApart, ~loading, NEW s \in SIDs, NEW t \in SIDs, SwapSlots(s, t), SIDs' = SIDs
  PROVE  ColoursApart'
<1>1. slots \in [SIDs -> Slot]
  BY DEF Inv, Typed, SIDs
<1>2. \/ \A i \in SIDs : slots'[i].colour = slots[i].colour
      \/ \A i \in SIDs : slots'[i].colour = slots[Swap(s, t)[i]].colour
  BY <1>1, SwapSlotsDoes
<1> DEFINE f == Swap(s, t)
<1>3. Permutes(f)
  BY SwapIsBijection
<1>4. ASSUME \A i \in SIDs : slots'[i].colour = slots[f[i]].colour PROVE ColoursApart'
  <2> HIDE DEF f
  <2> QED BY <1>3, <1>4, ColoursTrade DEF Permutes
<1> QED BY <1>2, <1>4, ColoursStay

\* So does a player who asks for a team, and may get another colour with it.
LEMMA TeamColours ==
  ASSUME Inv, ColoursApart, NEW p \in PIDs, NEW team \in 0 .. Observer,
         EventPlayerChangeTeam(p, team), SIDs' = SIDs
  PROVE  ColoursApart'
<1> DEFINE s == GetSIDFromPID(p)
           moved == [slots EXCEPT ![s].team = team]
<1>1. ~loading /\ p \in players
  BY DEF EventPlayerChangeTeam
<1>2. s \in SIDs /\ slots \in [SIDs -> Slot]
  BY <1>1, PlayerHasSlot DEF Inv, Typed, SIDs
<1>3. \/ \E t \in EmptySlots(s, team) : SwapSlots(s, t)
      \/ ~map.custom /\ slots' = [moved EXCEPT ![s].colour = Observer]
      \/ /\ ~map.custom
         /\ \/ slots[s].colour = Observer /\ slots' = [moved EXCEPT ![s].colour = GetNewColour(moved)]
            \/ slots' = moved
  BY DEF EventPlayerChangeTeam
<1> HIDE DEF s
<1>4. ASSUME NEW t \in EmptySlots(s, team), SwapSlots(s, t) PROVE ColoursApart'
  BY <1>1, <1>2, <1>4, EmptySlotIsSlot, SwappedColours
<1>5. /\ moved \in [SIDs -> Slot]
      /\ \A i \in SIDs : moved[i].colour = slots[i].colour
  <2> DEFINE W == PIDs \cup {Open, Closed, Computer}
             T == 0 .. Observer \cup {255}
             C == 0 .. Observer
             D == [who : W, team : T, colour : C, handicap : Handicaps]
  <2>1. slots \in [SIDs -> D] /\ team \in T
    BY <1>2 DEF Slot
  <2>2. moved \in [SIDs -> D] /\ \A i \in SIDs : moved[i].colour = slots[i].colour
    <3> HIDE DEF W, T, C
    <3> QED BY <2>1
  <2> QED BY <2>2 DEF Slot
<1>6. ASSUME NEW colour \in 0 .. Observer, slots' = [moved EXCEPT ![s].colour = colour],
             colour = Observer \/ \A i \in SIDs : moved[i].colour # colour
      PROVE  ColoursApart'
  <2> HIDE DEF moved
  <2>1. moved[s] \in Slot
    BY <1>2, <1>5
  <2>2. [moved[s] EXCEPT !.colour = colour].colour = colour
    BY <2>1 DEF Slot
  <2>3. slots'[s].colour = colour /\ \A i \in SIDs \ {s} : slots'[i] = moved[i]
    BY <1>2, <1>5, <1>6, <2>2
  <2> QED BY <1>2, <1>5, <1>6, <2>3, OneColourNew
<1>7. Observer \in 0 .. Observer /\ GetNewColour(moved) \in 0 .. Observer
         /\ \/ GetNewColour(moved) = Observer
            \/ \A i \in SIDs : moved[i].colour # GetNewColour(moved)
  <2> HIDE DEF moved
  <2> QED BY <1>5, NewColourIsFree
<1>8. CASE slots' = moved
  <2> HIDE DEF moved
  <2> QED BY <1>5, <1>8, ColoursStay
<1> HIDE DEF moved
<1> QED BY <1>3, <1>4, <1>6, <1>7, <1>8

\* Every action keeps colours apart.
LEMMA StepColours == Inv /\ ColoursApart /\ [Next]_vars => ColoursApart'
<1> SUFFICES ASSUME Inv, ColoursApart, [Next]_vars PROVE ColoursApart'
  OBVIOUS
<1>0. SIDs' = SIDs
  BY StepInv DEF Inv, Typed, SIDs, Next, EventPlayerJoined, EventPlayerDeleted, Overwrite,
     EventPlayerChangeTeam, EventPlayerChangeColour, EventPlayerChangeHandicap, SlotCommand,
     SwapCommand, ComputerCommand, AllSlotsCommand, ShuffleSlots, EventGameStarted, vars
<1>1. ASSUME NEW p \in PIDs, EventPlayerJoined(p) PROVE ColoursApart'
  BY <1>0, <1>1, JoinColours
<1>2. ASSUME NEW s \in SIDs, NEW who \in {Open, Closed, Computer}, ~loading, Overwrite(s, who)
      PROVE  ColoursApart'
  <2>1. slots \in [SIDs -> Slot] /\ who \in PIDs \cup {Open, Closed, Computer} /\ slots' = Given(s, who)
    BY <1>2 DEF Inv, Typed, SIDs, Overwrite
  <2>2. \A i \in SIDs : slots'[i].colour = slots[i].colour
    BY <2>1, GivenAway
  <2> QED BY <1>0, <2>2, ColoursStay
<1>3. ASSUME NEW p \in PIDs, NEW t \in 0 .. Observer, EventPlayerChangeTeam(p, t) PROVE ColoursApart'
  BY <1>0, <1>3, TeamColours
<1>4. ASSUME NEW p \in PIDs, NEW c \in 0 .. Observer, EventPlayerChangeColour(p, c) PROVE ColoursApart'
  BY <1>0, <1>4, PlayerHasSlot, ChangedColour DEF EventPlayerChangeColour, Inv
<1>5. ASSUME NEW p \in PIDs, NEW h \in Asked, EventPlayerChangeHandicap(p, h) PROVE ColoursApart'
  BY <1>5, PlayerHasSlot, HandicapStep, ColoursStay DEF EventPlayerChangeHandicap, Inv
<1>6. ASSUME NEW p \in PIDs, EventPlayerDeleted(p) PROVE ColoursApart'
  BY <1>2, <1>6, PlayerHasSlot DEF EventPlayerDeleted, Inv
<1>7. ASSUME NEW s \in SIDs, NEW who \in {Open, Closed, Computer}, SlotCommand(s, who)
      PROVE  ColoursApart'
  BY <1>2, <1>7 DEF SlotCommand
<1>8. ASSUME NEW s \in SIDs, NEW t \in SIDs, SwapCommand(s, t) PROVE ColoursApart'
  BY <1>0, <1>8, SwappedColours DEF SwapCommand
<1>9. ASSUME NEW s \in SIDs, ComputerCommand(s) PROVE ColoursApart'
  <2>1. ~loading /\ ~map.fixed /\ UNCHANGED <<map, players, loading, hcl>>
    BY <1>9 DEF ComputerCommand
  <2>2. ASSUME NEW c \in 0 .. Observer - 1, ColourSlot(s, c) PROVE ColoursApart'
    <3>1. c \in 0 .. Observer
      OBVIOUS
    <3> QED BY <1>0, <2>1, <2>2, <3>1, ChangedColour
  <2>3. ASSUME NEW n \in 0 .. Observer - 1, slots' = [slots EXCEPT ![s].team = (n - 1) % 256]
        PROVE  ColoursApart'
    BY <2>1, <2>3, TeamStep, ColoursStay
  <2>4. ASSUME NEW h \in Handicaps, slots' = [slots EXCEPT ![s].handicap = h] PROVE ColoursApart'
    BY <2>1, <2>4, HandicapStep, ColoursStay
  <2> QED BY <1>9, <2>2, <2>3, <2>4 DEF ComputerCommand
<1>10. CASE AllSlotsCommand(Open, Closed) \/ AllSlotsCommand(Closed, Open)
  BY <1>10, AllSlotsStep, ColoursStay
<1>11. CASE ShuffleSlots
  BY <1>11, ShuffleStep, ColoursTrade, ColoursStay
<1>12. ASSUME NEW string \in HCLCommands, EventGameStarted(string) PROVE ColoursApart'
  BY <1>12, StartStep, ColoursStay
<1>13. CASE UNCHANGED vars
  BY <1>13 DEF vars, ColoursApart, SIDs
<1> QED
  BY <1>1, <1>3, <1>4, <1>5, <1>6, <1>7, <1>8, <1>9, <1>10, <1>11, <1>12, <1>13 DEF Next

(* No colour is given twice, provided that the map itself gives none twice: *)
(* GetNewColour, ColourSlot, SwapSlots and ShuffleSlots keep it so.         *)
THEOREM NoColourTwice ==
  ASSUME MapColoursApart
  PROVE  Spec => []ColoursApart
<1>1. Init => ColoursApart
  BY MapsAssumption DEF MapColoursApart, Init, ColoursApart, SIDs
<1> QED BY <1>1, SlotsInvariant, StepColours, PTL DEF Spec

-----------------------------------------------------------------------------
(* Observers, on a map where players choose their teams.                   *)

HumansPlaying == {s \in SIDs : Human(s) /\ Playing(s)}

\* The least of a set of numbers is one of them and not above any.
LEMMA MinIsLeast ==
  ASSUME NEW T \in SUBSET Nat, NEW x \in T
  PROVE  Min(T) \in T /\ Min(T) <= x
BY LeastExists DEF Min

(* A slot in the observers' colour leaves one of the other colours free.    *)
LEMMA ColourLeft ==
  ASSUME NEW n \in Nat, n <= Observer, NEW ss, DOMAIN ss = 1 .. n,
         NEW s \in 1 .. n, ss[s].colour = Observer
  PROVE  GetNewColour(ss) \in 0 .. Observer - 1
<1> DEFINE C == 0 .. Observer - 1
           free == {c \in C : \A t \in DOMAIN ss : ss[t].colour # c}
           T == {Observer} \cup free
           Others == (1 .. n) \ {s}
<1>1. Observer \in Nat /\ C \subseteq Nat
  OBVIOUS
<1>2. PICK c \in C : c \in free
  <2> SUFFICES ASSUME free = {} PROVE FALSE
    OBVIOUS
  <2>1. \A c \in C : \E t \in 1 .. n : ss[t].colour = c
    OBVIOUS
  <2>2. \A c \in C : \E t \in Others : ss[t].colour = c
    <3>1. Observer \notin C
      OBVIOUS
    <3> HIDE DEF C
    <3> QED BY <2>1, <3>1
  <2> DEFINE f == [c \in C |-> CHOOSE t \in Others : ss[t].colour = c]
  <2>3. f \in [C -> Others] /\ \A c \in C : ss[f[c]].colour = c
    <3> HIDE DEF C, Others
    <3> QED BY <2>2
  <2>4. IsFiniteSet(C) /\ Cardinality(C) = Observer
    <3>1. /\ 0 \in Int /\ Observer - 1 \in Int /\ ~(0 > Observer - 1)
          /\ Observer - 1 - 0 + 1 = Observer
      BY <1>1
    <3> QED BY <3>1, FS_Interval
  <2>5. IsFiniteSet(Others) /\ Cardinality(Others) = n - 1
    <3>1. IsFiniteSet(1 .. n) /\ Cardinality(1 .. n) = n
      <4>1. 1 \in Int /\ n \in Int /\ (1 > n => n = 0) /\ n - 1 + 1 = n
        OBVIOUS
      <4> QED BY <4>1, FS_Interval
    <3> DEFINE all == 1 .. n
    <3>2. IsFiniteSet(all) /\ Cardinality(all) = n /\ s \in all
      BY <3>1
    <3> HIDE DEF all
    <3>3. IsFiniteSet(all \ {s}) /\ Cardinality(all \ {s}) = n - 1
      BY <3>2, FS_RemoveElement
    <3> QED BY <3>3 DEF all
  <2>6. Cardinality(Others) < Cardinality(C)
    BY <1>1, <2>4, <2>5
  <2> HIDE DEF f, C, Others, free, T
  <2>7. f \in [C -> Others] /\ IsFiniteSet(C) /\ IsFiniteSet(Others)
    BY <2>3, <2>4, <2>5
  <2>8. \E b, c \in C : b # c /\ f[b] = f[c]
    BY <2>6, <2>7, FS_PigeonHole
  <2> QED BY <2>3, <2>8
<1>3. T \in SUBSET Nat /\ c \in T /\ c < Observer
  BY <1>1, <1>2
<1>4. Min(T) \in T /\ Min(T) <= c
  <2> HIDE DEF T
  <2> QED BY <1>3, MinIsLeast
<1>5. GetNewColour(ss) = Min(T)
  BY DEF GetNewColour
<1>6. \A m \in T : m <= c => m \in C
  BY <1>1, <1>3
<1> HIDE DEF T, C
<1> QED BY <1>4, <1>5, <1>6 DEF C

\* Slots, and the humans who play, are finitely many.
LEMMA SIDsFinite ==
  ASSUME Typed
  PROVE  /\ IsFiniteSet(SIDs) /\ IsFiniteSet(HumansPlaying)
         /\ Cardinality(HumansPlaying) \in Nat /\ map.numPlayers \in Nat
         /\ \A s \in SIDs : /\ IsFiniteSet(OtherPlaying(s))
                            /\ Cardinality(OtherPlaying(s)) \in Nat
<1>1. SIDs = 1 .. Len(map.slots) /\ Len(map.slots) \in Nat /\ map.numPlayers \in Nat
  <2>1. map \in Maps
    BY DEF Typed
  <2> QED BY <2>1, SIDsAreNumbers, MapsAssumption, LenProperties
<1>2. IsFiniteSet(SIDs)
  BY <1>1, FS_Interval
<1>3. HumansPlaying \in SUBSET SIDs /\ \A s \in SIDs : OtherPlaying(s) \in SUBSET SIDs
  BY DEF HumansPlaying, OtherPlaying
<1> QED BY <1>1, <1>2, <1>3, FS_Subset, FS_CardinalityType
(* What a table of slots looks like: everybody who plays has a colour of    *)
(* his own, everybody who observes the observers' one.                     *)
Dressed == \A s \in SIDs : Human(s) => (slots[s].colour = Observer <=> ~Playing(s))

RoomToPlay == Cardinality(HumansPlaying) <= map.numPlayers

(* No human takes up playing, or changes his clothes.                      *)
LEMMA NobodyNewPlays ==
  ASSUME Inv, ~map.custom => Dressed /\ RoomToPlay, SIDs' = SIDs, map' = map,
         \A i \in SIDs : slots'[i].who \in PIDs =>
                           /\ slots[i].who \in PIDs
                           /\ slots'[i].team = slots[i].team
                           /\ slots'[i].colour = slots[i].colour
  PROVE  (~map.custom => Dressed /\ RoomToPlay)'
<1> SUFFICES ASSUME ~map.custom PROVE Dressed' /\ RoomToPlay'
  OBVIOUS
<1>1. Dressed'
  BY DEF Dressed, Human, Playing
<1>2. HumansPlaying' \in SUBSET HumansPlaying
  BY DEF HumansPlaying, Human, Playing
<1>3. Cardinality(HumansPlaying') <= Cardinality(HumansPlaying)
  BY <1>2, SIDsFinite, FS_Subset DEF Inv
<1>4. Cardinality(HumansPlaying') \in Nat /\ Cardinality(HumansPlaying) \in Nat
        /\ map.numPlayers \in Nat
  BY <1>2, SIDsFinite, FS_Subset, FS_CardinalityType DEF Inv
<1>5. RoomToPlay'
  BY <1>3, <1>4 DEF RoomToPlay
<1> QED BY <1>1, <1>5

(* The slots trade places with all that is in them.                        *)
LEMMA WholeSlotsTrade ==
  ASSUME Inv, Dressed, RoomToPlay, SIDs' = SIDs, map' = map, NEW g \in [SIDs -> SIDs],
         \A i, j \in SIDs : g[i] = g[j] => i = j,
         \A i \in SIDs : slots'[i] = slots[g[i]]
  PROVE  Dressed' /\ RoomToPlay'
<1>1. Dressed'
  BY DEF Dressed, Human, Playing
<1>2. \A i \in HumansPlaying' : g[i] \in HumansPlaying
  BY DEF HumansPlaying, Human, Playing
<1> DEFINE h == [i \in HumansPlaying' |-> g[i]]
<1>3. h \in Injection(HumansPlaying', HumansPlaying)
  <2>1. HumansPlaying' \subseteq SIDs
    BY DEF HumansPlaying
  <2>2. h \in [HumansPlaying' -> HumansPlaying]
    BY <1>2
  <2>3. \A i, j \in HumansPlaying' : h[i] = h[j] => i = j
    BY <2>1
  <2> HIDE DEF h
  <2> QED BY <2>2, <2>3 DEF Injection, IsInjective
<1>4. IsFiniteSet(HumansPlaying') /\ Cardinality(HumansPlaying') <= Cardinality(HumansPlaying)
  <2> HIDE DEF h
  <2> QED BY <1>3, SIDsFinite, FS_Injection DEF Inv
<1>5. Cardinality(HumansPlaying') \in Nat /\ Cardinality(HumansPlaying) \in Nat
        /\ map.numPlayers \in Nat
  BY <1>4, SIDsFinite, FS_CardinalityType DEF Inv
<1>6. RoomToPlay'
  BY <1>4, <1>5 DEF RoomToPlay
<1> QED BY <1>1, <1>6

(* One slot changes hands or clothes, and its occupant plays only if there  *)
(* is room for him.                                                        *)
LEMMA OneSlotNew ==
  ASSUME Inv, Dressed, RoomToPlay, SIDs' = SIDs, map' = map, NEW s \in SIDs,
         \A i \in SIDs \ {s} : slots'[i] = slots[i],
         slots'[s].colour = Observer <=> slots'[s].team = Observer,
         slots'[s].team # Observer => Cardinality(OtherPlaying(s)) < map.numPlayers
  PROVE  Dressed' /\ RoomToPlay'
<1>1. Dressed'
  BY DEF Dressed, Human, Playing
<1>2. \A i \in HumansPlaying' : i # s => i \in OtherPlaying(s) /\ i \in HumansPlaying
  BY DEF HumansPlaying, OtherPlaying, Human, Playing, Occupied
<1>3. CASE slots'[s].team # Observer
  <2>1. HumansPlaying' \in SUBSET (OtherPlaying(s) \cup {s})
    BY <1>2
  <2>2. /\ IsFiniteSet(OtherPlaying(s) \cup {s})
        /\ Cardinality(OtherPlaying(s) \cup {s}) = Cardinality(OtherPlaying(s)) + 1
        /\ Cardinality(OtherPlaying(s)) \in Nat /\ map.numPlayers \in Nat
    <3>1. s \notin OtherPlaying(s)
      BY DEF OtherPlaying
    <3> QED BY <3>1, SIDsFinite, FS_AddElement DEF Inv
  <2>3. /\ Cardinality(HumansPlaying') <= Cardinality(OtherPlaying(s) \cup {s})
        /\ Cardinality(HumansPlaying') \in Nat
    BY <2>1, <2>2, FS_Subset, FS_CardinalityType
  <2>4. Cardinality(HumansPlaying') <= map.numPlayers
    BY <1>3, <2>2, <2>3
  <2> QED BY <1>1, <2>4 DEF RoomToPlay
<1>4. CASE slots'[s].team = Observer
  <2>1. HumansPlaying' \in SUBSET HumansPlaying
    BY <1>2, <1>4 DEF HumansPlaying, Playing
  <2>2. /\ Cardinality(HumansPlaying') <= Cardinality(HumansPlaying)
        /\ Cardinality(HumansPlaying') \in Nat
    BY <2>1, SIDsFinite, FS_Subset, FS_CardinalityType DEF Inv
  <2>3. Cardinality(HumansPlaying) \in Nat /\ map.numPlayers \in Nat
    BY SIDsFinite DEF Inv
  <2>4. Cardinality(HumansPlaying') <= map.numPlayers
    BY <2>2, <2>3 DEF RoomToPlay
  <2> QED BY <1>1, <2>4 DEF RoomToPlay
<1> QED BY <1>3, <1>4

(* SwapSlots, where the map fixes nothing.                                 *)
LEMMA SwapWhole ==
  ASSUME slots \in [SIDs -> Slot], ~map.custom, ~map.fixed,
         NEW s \in SIDs, NEW t \in SIDs, SwapSlots(s, t)
  PROVE  \A i \in SIDs : slots'[i] = slots[Swap(s, t)[i]]
BY DEF SwapSlots, Swap

\* A swap on a melee map moves team and colour with the player.
LEMMA SwapDressed ==
  ASSUME Inv, ~loading, ~map.custom, Dressed, RoomToPlay, NEW s \in SIDs, NEW t \in SIDs,
         SwapSlots(s, t), SIDs' = SIDs, map' = map
  PROVE  Dressed' /\ RoomToPlay'
<1>1. slots \in [SIDs -> Slot] /\ ~map.fixed
  BY MapsAssumption DEF Inv, Typed, SIDs
<1> DEFINE f == Swap(s, t)
<1>2. \A i \in SIDs : slots'[i] = slots[f[i]]
  BY <1>1, SwapWhole
<1>3. Permutes(f)
  BY SwapIsBijection
<1> HIDE DEF f
<1> QED BY <1>2, <1>3, WholeSlotsTrade DEF Permutes

\* So does a shuffle.
LEMMA ShuffleDressed ==
  ASSUME Inv, ~map.custom, Dressed, RoomToPlay, ShuffleSlots, SIDs' = SIDs
  PROVE  Dressed' /\ RoomToPlay'
<1> DEFINE H == {s \in SIDs : Human(s) /\ Playing(s)}
<1>1. PICK f \in Bijection(H, H) :
        slots' = [s \in SIDs |-> IF s \in H THEN slots[f[s]] ELSE slots[s]]
  BY DEF ShuffleSlots
<1>2. map' = map
  BY DEF ShuffleSlots
<1> DEFINE g == [s \in SIDs |-> IF s \in H THEN f[s] ELSE s]
<1>3. /\ g \in [SIDs -> SIDs]
      /\ \A s, t \in SIDs : g[s] = g[t] => s = t
  <2>1. H \in SUBSET SIDs
    OBVIOUS
  <2> HIDE DEF H
  <2> QED BY <2>1, DealtOut
<1>4. \A i \in SIDs : slots'[i] = slots[g[i]]
  <2> HIDE DEF H
  <2> QED BY <1>1
<1> HIDE DEF g, H
<1> QED BY <1>2, <1>3, <1>4, WholeSlotsTrade

(* EventPlayerJoined: GetNewColour finds a colour for whoever may play.     *)
LEMMA JoinDressed ==
  ASSUME Inv, ~map.custom, Dressed, RoomToPlay, NEW p \in PIDs, EventPlayerJoined(p), SIDs' = SIDs
  PROVE  Dressed' /\ RoomToPlay'
<1>1. PICK s \in SIDs : slots' = Newcomer(s, p)
  BY DEF EventPlayerJoined
<1> DEFINE n == Len(map.slots)
<1>2. /\ slots \in [SIDs -> Slot] /\ SIDs = 1 .. n /\ n \in Nat /\ n <= Observer
      /\ map.numPlayers \in 1 .. n
  <2>1. Typed /\ ~loading /\ map \in Maps
    BY DEF EventPlayerJoined, Inv, Typed
  <2>2. SIDs = 1 .. n /\ n \in Nat /\ n <= Observer /\ map.numPlayers \in 1 .. n
    BY <2>1, SIDsAreNumbers, MapsAssumption, LenProperties
  <2>3. slots \in [SIDs -> Slot]
    BY <2>1 DEF Typed, SIDs
  <2> QED BY <2>2, <2>3
<1>3. map' = map
  BY DEF EventPlayerJoined
<1> DEFINE observing == Seat(s, p, Observer, Observer)
           colour == GetNewColour(observing)
<1>4. /\ observing = [slots EXCEPT ![s] = [who |-> p, team |-> Observer, colour |-> Observer,
                                           handicap |-> 100]]
      /\ observing \in [SIDs -> Slot] /\ observing[s].colour = Observer
  BY <1>2, Seated DEF Seat
<1>5. colour \in 0 .. Observer - 1
  <2>1. DOMAIN observing = 1 .. n /\ s \in 1 .. n
    BY <1>2, <1>4
  <2> HIDE DEF observing, n
  <2> QED BY <1>2, <1>4, <2>1, ColourLeft
<1> HIDE DEF colour, observing, n
<1>6. TeamOfSlot(s) \in 0 .. Observer - 1
  BY <1>2 DEF TeamOfSlot
<1>7. Observer \notin 0 .. Observer - 1
  OBVIOUS
<1>8. CASE /\ Cardinality(OtherPlaying(s)) < map.numPlayers
           /\ slots' = Seat(s, p, TeamOfSlot(s), colour)
  <2>1. /\ \A i \in SIDs \ {s} : slots'[i] = slots[i]
        /\ slots'[s].team = TeamOfSlot(s) /\ slots'[s].colour = colour
    BY <1>2, <1>8 DEF Seat
  <2>2. slots'[s].team # Observer /\ slots'[s].colour # Observer
    BY <1>5, <1>6, <1>7, <2>1
  <2> QED BY <1>3, <1>8, <2>1, <2>2, OneSlotNew
<1>9. CASE slots' = observing
  <2>1. /\ \A i \in SIDs \ {s} : slots'[i] = slots[i]
        /\ slots'[s].team = Observer /\ slots'[s].colour = Observer
    BY <1>2, <1>4, <1>9
  <2> QED BY <1>3, <2>1, OneSlotNew
<1> QED BY <1>1, <1>8, <1>9 DEF Newcomer, colour, observing

\* A player who moves to or from the observers changes its colour accordingly.
LEMMA TeamDressed ==
  ASSUME Inv, ~map.custom, Dressed, RoomToPlay, NEW p \in PIDs, NEW team \in 0 .. Observer,
         EventPlayerChangeTeam(p, team), SIDs' = SIDs
  PROVE  Dressed' /\ RoomToPlay'
<1> DEFINE s == GetSIDFromPID(p)
           moved == [slots EXCEPT ![s].team = team]
           n == Len(map.slots)
<1>1. ~loading /\ p \in players /\ map' = map
  BY DEF EventPlayerChangeTeam
<1>2. s \in SIDs /\ slots[s].who = p
  BY <1>1, PlayerHasSlot DEF Inv
<1>3. \/ team = Observer /\ slots' = [moved EXCEPT ![s].colour = Observer]
      \/ /\ team < map.numPlayers
         /\ Cardinality(OtherPlaying(s)) < map.numPlayers
         /\ slots' = IF slots[s].colour = Observer
                     THEN [moved EXCEPT ![s].colour = GetNewColour(moved)] ELSE moved
  BY DEF EventPlayerChangeTeam
<1> HIDE DEF s
<1>4. /\ slots \in [SIDs -> Slot] /\ SIDs = 1 .. n /\ n \in Nat /\ n <= Observer
      /\ map.numPlayers \in 1 .. n
  <2>1. Typed /\ ~loading /\ map \in Maps
    BY <1>1 DEF Inv, Typed
  <2>2. SIDs = 1 .. n /\ n \in Nat /\ n <= Observer /\ map.numPlayers \in 1 .. n
    BY <2>1, SIDsAreNumbers, MapsAssumption, LenProperties
  <2>3. slots \in [SIDs -> Slot]
    BY <2>1 DEF Typed, SIDs
  <2> QED BY <2>2, <2>3
<1>5. /\ DOMAIN moved = SIDs /\ moved[s].team = team /\ moved[s].colour = slots[s].colour
      /\ \A i \in SIDs \ {s} : moved[i] = slots[i]
  <2>1. [slots[s] EXCEPT !.team = team].team = team
          /\ [slots[s] EXCEPT !.team = team].colour = slots[s].colour
    <3>1. slots[s] \in Slot
      BY <1>2, <1>4
    <3> QED BY <3>1 DEF Slot
  <2> QED BY <1>2, <1>4, <2>1
<1>6. ASSUME NEW colour, slots' = [moved EXCEPT ![s].colour = colour]
      PROVE  /\ slots'[s].colour = colour /\ slots'[s].team = team
             /\ \A i \in SIDs \ {s} : slots'[i] = slots[i]
  <2>1. [moved[s] EXCEPT !.colour = colour].colour = colour
          /\ [moved[s] EXCEPT !.colour = colour].team = team
    <3>1. slots[s] \in Slot /\ moved[s] = [slots[s] EXCEPT !.team = team]
      BY <1>2, <1>4
    <3> QED BY <3>1 DEF Slot
  <2> HIDE DEF moved
  <2>2. \A i \in SIDs : slots'[i] = IF i = s THEN [moved[i] EXCEPT !.colour = colour] ELSE moved[i]
    BY <1>2, <1>5, <1>6
  <2> QED BY <1>2, <1>5, <2>1, <2>2
<1>7. slots[s].colour = Observer => GetNewColour(moved) \in 0 .. Observer - 1
  <2> SUFFICES ASSUME slots[s].colour = Observer PROVE GetNewColour(moved) \in 0 .. Observer - 1
    OBVIOUS
  <2>1. DOMAIN moved = 1 .. n /\ s \in 1 .. n /\ moved[s].colour = Observer
    BY <1>2, <1>4, <1>5
  <2> HIDE DEF moved, n
  <2> QED BY <1>4, <2>1, ColourLeft
<1>8. Observer \notin 0 .. Observer - 1 /\ (team < map.numPlayers => team # Observer)
  BY <1>4
<1> HIDE DEF moved, n
<1>9. CASE team = Observer /\ slots' = [moved EXCEPT ![s].colour = Observer]
  BY <1>1, <1>2, <1>6, <1>9, OneSlotNew
<1>10. ASSUME team < map.numPlayers, Cardinality(OtherPlaying(s)) < map.numPlayers,
              slots[s].colour = Observer, slots' = [moved EXCEPT ![s].colour = GetNewColour(moved)]
       PROVE  Dressed' /\ RoomToPlay'
  <2>1. /\ slots'[s].colour # Observer /\ slots'[s].team # Observer
        /\ \A i \in SIDs \ {s} : slots'[i] = slots[i]
    BY <1>6, <1>7, <1>8, <1>10
  <2> QED BY <1>1, <1>2, <1>10, <2>1, OneSlotNew
<1>11. ASSUME team < map.numPlayers, Cardinality(OtherPlaying(s)) < map.numPlayers,
              slots[s].colour # Observer, slots' = moved
       PROVE  Dressed' /\ RoomToPlay'
  BY <1>1, <1>2, <1>5, <1>8, <1>11, OneSlotNew
<1> QED BY <1>3, <1>9, <1>10, <1>11

\* A colour that is granted changes no other player's colour.
LEMMA ColourSlotTouches ==
  ASSUME slots \in [SIDs -> Slot], NEW s \in SIDs, NEW c \in 0 .. Observer, ColourSlot(s, c)
  PROVE  /\ slots'[s].colour = c
         /\ \A i \in SIDs : slots'[i].who = slots[i].who /\ slots'[i].team = slots[i].team
         /\ \A i \in SIDs \ {s} : slots[i].who \in PIDs => slots'[i].colour = slots[i].colour
<1>1. CASE slots' = [slots EXCEPT ![s].colour = c]
  BY <1>1 DEF Slot
<1>2. ASSUME NEW t \in SIDs, ~Occupied(t),
             slots' = [slots EXCEPT ![t].colour = slots[s].colour, ![s].colour = c]
      PROVE  /\ slots'[s].colour = c
             /\ \A i \in SIDs : slots'[i].who = slots[i].who /\ slots'[i].team = slots[i].team
             /\ \A i \in SIDs \ {s} : slots[i].who \in PIDs => slots'[i].colour = slots[i].colour
  <2> DEFINE mid == [slots EXCEPT ![t].colour = slots[s].colour]
  <2>1. slots' = [mid EXCEPT ![s].colour = c]
    BY <1>2
  <2>2. /\ mid \in [SIDs -> Slot]
        /\ \A i \in SIDs : mid[i].who = slots[i].who /\ mid[i].team = slots[i].team
        /\ \A i \in SIDs \ {t} : mid[i] = slots[i]
    BY DEF Slot
  <2> HIDE DEF mid
  <2>3. /\ slots'[s].colour = c
        /\ \A i \in SIDs : slots'[i].who = mid[i].who /\ slots'[i].team = mid[i].team
        /\ \A i \in SIDs \ {s} : slots'[i] = mid[i]
    BY <2>1, <2>2 DEF Slot
  <2>4. slots[t].who \notin PIDs
    BY <1>2 DEF Occupied
  <2> QED BY <2>2, <2>3, <2>4
<1> QED BY <1>1, <1>2 DEF ColourSlot

\* Observers ask for no colour and players get no observers' colour.
LEMMA ColourDressed ==
  ASSUME Inv, ~map.custom, Dressed, RoomToPlay, NEW p \in PIDs, NEW c \in 0 .. Observer,
         EventPlayerChangeColour(p, c), SIDs' = SIDs
  PROVE  Dressed' /\ RoomToPlay'
<1> DEFINE s == GetSIDFromPID(p)
<1>1. ~loading /\ p \in players /\ map' = map /\ c < Observer /\ Playing(s) /\ ColourSlot(s, c)
  BY DEF EventPlayerChangeColour
<1>2. s \in SIDs /\ slots[s].who = p /\ slots \in [SIDs -> Slot]
  BY <1>1, PlayerHasSlot DEF Inv, Typed, SIDs
<1> HIDE DEF s
<1>3. /\ slots'[s].colour = c
      /\ \A i \in SIDs : slots'[i].who = slots[i].who /\ slots'[i].team = slots[i].team
      /\ \A i \in SIDs \ {s} : slots[i].who \in PIDs => slots'[i].colour = slots[i].colour
  BY <1>1, <1>2, ColourSlotTouches
<1>4. slots'[s].colour # Observer
  BY <1>1, <1>3
<1>5. Dressed'
  BY <1>1, <1>3, <1>4 DEF Dressed, Human, Playing
<1>6. HumansPlaying' = HumansPlaying
  BY <1>3 DEF HumansPlaying, Human, Playing
<1> QED BY <1>1, <1>5, <1>6 DEF RoomToPlay

\* Commands for computers concern no player.
LEMMA ComputerDressed ==
  ASSUME Inv, ~map.custom => Dressed /\ RoomToPlay, NEW s \in SIDs, ComputerCommand(s),
         SIDs' = SIDs
  PROVE  (~map.custom => Dressed /\ RoomToPlay)'
<1>1. /\ ~loading /\ map' = map /\ slots[s].who \notin PIDs /\ slots \in [SIDs -> Slot]
  BY DEF ComputerCommand, Inv, Typed, SIDs
<1>2. ASSUME NEW c \in 0 .. Observer - 1, ColourSlot(s, c)
      PROVE  (~map.custom => Dressed /\ RoomToPlay)'
  <2>1. c \in 0 .. Observer
    OBVIOUS
  <2>2. /\ \A i \in SIDs : slots'[i].who = slots[i].who /\ slots'[i].team = slots[i].team
        /\ \A i \in SIDs \ {s} : slots[i].who \in PIDs => slots'[i].colour = slots[i].colour
    BY <1>1, <1>2, <2>1, ColourSlotTouches
  <2> QED BY <1>1, <2>2, NobodyNewPlays
<1>3. ASSUME NEW n, slots' = [slots EXCEPT ![s].team = n]
      PROVE  (~map.custom => Dressed /\ RoomToPlay)'
  <2>1. /\ slots'[s].who = slots[s].who
        /\ \A i \in SIDs \ {s} : slots'[i] = slots[i]
    BY <1>1, <1>3 DEF Slot
  <2> QED BY <1>1, <2>1, NobodyNewPlays
<1>4. ASSUME NEW h, slots' = [slots EXCEPT ![s].handicap = h]
      PROVE  (~map.custom => Dressed /\ RoomToPlay)'
  <2>1. /\ slots'[s].who = slots[s].who
        /\ \A i \in SIDs \ {s} : slots'[i] = slots[i]
    BY <1>1, <1>4 DEF Slot
  <2> QED BY <1>1, <2>1, NobodyNewPlays
<1> QED BY <1>2, <1>3, <1>4 DEF ComputerCommand

\* Every action on a melee map keeps observers and players apart.
LEMMA StepDressed ==
  Inv /\ (~map.custom => Dressed /\ RoomToPlay) /\ [Next]_vars
    => (~map.custom => Dressed /\ RoomToPlay)'
<1> DEFINE O == ~map.custom => Dressed /\ RoomToPlay
<1> SUFFICES ASSUME Inv, O, [Next]_vars PROVE O'
  OBVIOUS
<1>0. SIDs' = SIDs /\ map' = map
  BY StepInv DEF Inv, Typed, SIDs, Next, EventPlayerJoined, EventPlayerDeleted, Overwrite,
     EventPlayerChangeTeam, EventPlayerChangeColour, EventPlayerChangeHandicap, SlotCommand,
     SwapCommand, ComputerCommand, AllSlotsCommand, ShuffleSlots, EventGameStarted, vars
<1>1. ASSUME NEW p \in PIDs, EventPlayerJoined(p) PROVE O'
  BY <1>0, <1>1, JoinDressed
<1>2. ASSUME NEW s \in SIDs, NEW who \in {Open, Closed, Computer}, ~loading, Overwrite(s, who)
      PROVE  O'
  <2>1. /\ slots \in [SIDs -> Slot] /\ who \in PIDs \cup {Open, Closed, Computer} /\ who \notin PIDs
        /\ slots' = Given(s, who)
    BY <1>2 DEF Inv, Typed, SIDs, Overwrite
  <2>2. slots'[s].who = who /\ \A i \in SIDs \ {s} : slots'[i] = slots[i]
    BY <2>1, GivenAway
  <2> QED BY <1>0, <2>1, <2>2, NobodyNewPlays
<1>3. ASSUME NEW p \in PIDs, NEW t \in 0 .. Observer, EventPlayerChangeTeam(p, t) PROVE O'
  BY <1>0, <1>3, TeamDressed
<1>4. ASSUME NEW p \in PIDs, NEW c \in 0 .. Observer, EventPlayerChangeColour(p, c) PROVE O'
  BY <1>0, <1>4, ColourDressed
<1>5. ASSUME NEW p \in PIDs, NEW h \in Asked, EventPlayerChangeHandicap(p, h) PROVE O'
  <2> DEFINE s == GetSIDFromPID(p)
  <2>1. ~loading /\ p \in players /\ slots' = [slots EXCEPT ![s].handicap = h]
    BY <1>5 DEF EventPlayerChangeHandicap
  <2>2. s \in SIDs /\ slots \in [SIDs -> Slot]
    BY <2>1, PlayerHasSlot DEF Inv, Typed, SIDs
  <2> HIDE DEF s
  <2>3. \A i \in SIDs : /\ slots'[i].who = slots[i].who /\ slots'[i].team = slots[i].team
                        /\ slots'[i].colour = slots[i].colour
    BY <2>1, <2>2 DEF Slot
  <2> QED BY <1>0, <2>3, NobodyNewPlays
<1>6. ASSUME NEW p \in PIDs, EventPlayerDeleted(p) PROVE O'
  BY <1>2, <1>6, PlayerHasSlot DEF EventPlayerDeleted, Inv
<1>7. ASSUME NEW s \in SIDs, NEW who \in {Open, Closed, Computer}, SlotCommand(s, who) PROVE O'
  BY <1>2, <1>7 DEF SlotCommand
<1>8. ASSUME NEW s \in SIDs, NEW t \in SIDs, SwapCommand(s, t) PROVE O'
  BY <1>0, <1>8, SwapDressed DEF SwapCommand
<1>9. ASSUME NEW s \in SIDs, ComputerCommand(s) PROVE O'
  BY <1>0, <1>9, ComputerDressed
<1>10. ASSUME NEW from \in {Open, Closed}, NEW to \in {Open, Closed}, AllSlotsCommand(from, to)
       PROVE  O'
  <2>1. slots' = [s \in SIDs |-> IF slots[s].who = from THEN [slots[s] EXCEPT !.who = to]
                                 ELSE slots[s]]
    BY <1>10 DEF AllSlotsCommand
  <2>2. slots \in [SIDs -> Slot] /\ to \notin PIDs
    BY <1>10 DEF AllSlotsCommand, Inv, Typed, SIDs
  <2>3. \A i \in SIDs : slots'[i].who \in PIDs => slots'[i] = slots[i]
    BY <2>1, <2>2 DEF Slot
  <2> QED BY <1>0, <2>3, NobodyNewPlays
<1>11. CASE ShuffleSlots
  BY <1>0, <1>11, ShuffleDressed
<1>12. ASSUME NEW string \in HCLCommands, EventGameStarted(string) PROVE O'
  <2>1. \A i \in SIDs : /\ slots'[i].who = slots[i].who
                        /\ slots'[i].team = slots[i].team
                        /\ slots'[i].colour = slots[i].colour
    BY <1>12, StartStep
  <2> QED BY <1>0, <2>1, NobodyNewPlays
<1>13. CASE UNCHANGED vars
  BY <1>13, <1>0, NobodyNewPlays DEF vars
<1> QED
  BY <1>1, <1>3, <1>4, <1>5, <1>6, <1>7, <1>8, <1>9, <1>10, <1>11, <1>12, <1>13 DEF Next

(* Where players choose their teams, observers and players are told apart   *)
(* by their colours and never more humans play than the map has places for: *)
(* EventPlayerJoined and EventPlayerChangeTeam count before they let        *)
(* anybody play, GetNewColour never runs out, and no command undoes it.     *)
THEOREM ObserversAreApart == Spec => []ObserversApart
<1> DEFINE O == ~map.custom => Dressed /\ RoomToPlay
<1>1. Init => O
  <2> SUFFICES ASSUME Init PROVE Dressed /\ RoomToPlay
    OBVIOUS
  <2>1. \A s \in SIDs : slots[s].who \notin PIDs
    BY DEF Init, SIDs
  <2>2. HumansPlaying = {} /\ Dressed
    BY <2>1 DEF HumansPlaying, Dressed, Human
  <2>3. Cardinality(HumansPlaying) = 0 /\ map.numPlayers \in Nat
    BY <2>2, FS_EmptySet, InitInv, SIDsFinite DEF Inv
  <2> QED BY <2>2, <2>3 DEF RoomToPlay
<1>2. Inv /\ O /\ [Next]_vars => O'
  BY StepDressed
<1>3. O => ObserversApart
  BY DEF ObserversApart, Dressed, RoomToPlay, HumansPlaying
<1> HIDE DEF O
<1> QED BY <1>1, <1>2, <1>3, SlotsInvariant, PTL DEF Spec
-----------------------------------------------------------------------------
(* What the map reads from the handicaps.                                  *)

\* How many forbidden values j has passed when it gets to the ith entry.
LEMMA EncodingMapSkips ==
  ASSUME NEW i \in 0 .. 248
  PROVE  \/ i \in 0 .. 48   /\ EncodingMap[i] = i + 1
         \/ i \in 49 .. 57  /\ EncodingMap[i] = i + 2
         \/ i \in 58 .. 66  /\ EncodingMap[i] = i + 3
         \/ i \in 67 .. 75  /\ EncodingMap[i] = i + 4
         \/ i \in 76 .. 84  /\ EncodingMap[i] = i + 5
         \/ i \in 85 .. 93  /\ EncodingMap[i] = i + 6
         \/ i \in 94 .. 248 /\ EncodingMap[i] = i + 7
<1> DEFINE passed == {k \in DOMAIN Forbidden : i + k - 1 >= Forbidden[k]}
<1>1. /\ DOMAIN Forbidden = 1 .. 7
      /\ Forbidden[1] = 0 /\ Forbidden[2] = 50 /\ Forbidden[3] = 60 /\ Forbidden[4] = 70
      /\ Forbidden[5] = 80 /\ Forbidden[6] = 90 /\ Forbidden[7] = 100
  BY DEF Forbidden
<1>2. \A k \in 1 .. 7 : k \in passed <=> k = 1 \/ i >= 9 * k + 31
  <2>1. \A k \in 2 .. 7 : Forbidden[k] = 10 * k + 30
    <3>1. \A k \in 2 .. 7 : k = 2 \/ k = 3 \/ k = 4 \/ k = 5 \/ k = 6 \/ k = 7
      OBVIOUS
    <3> QED BY <1>1, <3>1
  <2>2. 1 \in passed
    <3>1. i + 1 - 1 >= 0 /\ 1 \in 1 .. 7
      OBVIOUS
    <3> QED BY <1>1, <3>1
  <2>3. ASSUME NEW k \in 2 .. 7 PROVE k \in passed <=> i >= 9 * k + 31
    <3>1. k \in DOMAIN Forbidden /\ Forbidden[k] = 10 * k + 30
      BY <1>1, <2>1
    <3>2. i + k - 1 >= 10 * k + 30 <=> i >= 9 * k + 31
      OBVIOUS
    <3> QED BY <3>1, <3>2
  <2>4. ASSUME NEW k \in 1 .. 7, k # 1 PROVE k \in 2 .. 7
    BY <2>4
  <2> HIDE DEF passed
  <2> QED BY <2>2, <2>3, <2>4
<1>3. ASSUME NEW c \in 1 .. 7, \A k \in 1 .. 7 : (k = 1 \/ i >= 9 * k + 31) <=> k <= c
      PROVE  EncodingMap[i] = i + c
  <2>1. Cardinality(1 .. c) = c
    <3>1. 1 \in Int /\ c \in Int /\ ~(1 > c) /\ c - 1 + 1 = c
      OBVIOUS
    <3> QED BY <3>1, FS_Interval
  <2>2. EncodingMap[i] = i + Cardinality(passed)
    BY DEF EncodingMap
  <2>3. passed \subseteq 1 .. 7
    BY <1>1
  <2> HIDE DEF passed
  <2>4. \A k \in 1 .. 7 : k \in passed <=> k <= c
    BY <1>2, <1>3
  <2>5. \A k : k \in passed <=> k \in 1 .. 7 /\ k <= c
    BY <2>3, <2>4
  <2>6. \A k : k \in 1 .. c <=> k \in 1 .. 7 /\ k <= c
    OBVIOUS
  <2>7. passed = 1 .. c
    BY <2>5, <2>6, Zenon
  <2> QED BY <2>1, <2>2, <2>7
<1> HIDE DEF passed
<1>4. ASSUME i \in 0 .. 48 PROVE EncodingMap[i] = i + 1
  <2>1. \A k \in 1 .. 7 : (k = 1 \/ i >= 9 * k + 31) <=> k <= 1
    BY <1>4
  <2> QED BY <1>3, <2>1
<1>5. ASSUME i \in 49 .. 57 PROVE EncodingMap[i] = i + 2
  <2>1. \A k \in 1 .. 7 : (k = 1 \/ i >= 9 * k + 31) <=> k <= 2
    BY <1>5
  <2> QED BY <1>3, <2>1
<1>6. ASSUME i \in 58 .. 66 PROVE EncodingMap[i] = i + 3
  <2>1. \A k \in 1 .. 7 : (k = 1 \/ i >= 9 * k + 31) <=> k <= 3
    BY <1>6
  <2> QED BY <1>3, <2>1
<1>7. ASSUME i \in 67 .. 75 PROVE EncodingMap[i] = i + 4
  <2>1. \A k \in 1 .. 7 : (k = 1 \/ i >= 9 * k + 31) <=> k <= 4
    BY <1>7
  <2> QED BY <1>3, <2>1
<1>8. ASSUME i \in 76 .. 84 PROVE EncodingMap[i] = i + 5
  <2>1. \A k \in 1 .. 7 : (k = 1 \/ i >= 9 * k + 31) <=> k <= 5
    BY <1>8
  <2> QED BY <1>3, <2>1
<1>9. ASSUME i \in 85 .. 93 PROVE EncodingMap[i] = i + 6
  <2>1. \A k \in 1 .. 7 : (k = 1 \/ i >= 9 * k + 31) <=> k <= 6
    BY <1>9
  <2> QED BY <1>3, <2>1
<1>10. ASSUME i \in 94 .. 248 PROVE EncodingMap[i] = i + 7
  <2>1. \A k \in 1 .. 7 : (k = 1 \/ i >= 9 * k + 31) <=> k <= 7
    BY <1>10
  <2> QED BY <1>3, <2>1
<1> QED BY <1>4, <1>5, <1>6, <1>7, <1>8, <1>9, <1>10

\* The handicaps below a byte, counted.
LEMMA HandicapsCounted ==
  /\ Cardinality({50}) = 1 /\ Cardinality({50, 60}) = 2 /\ Cardinality({50, 60, 70}) = 3
  /\ Cardinality({50, 60, 70, 80}) = 4 /\ Cardinality({50, 60, 70, 80, 90}) = 5
  /\ Cardinality({50, 60, 70, 80, 90, 100}) = 6
<1> DEFINE A == {50}  B == A \cup {60}  C == B \cup {70}  D == C \cup {80}
           E == D \cup {90}  F == E \cup {100}
<1>0. 60 \notin A /\ 70 \notin B /\ 80 \notin C /\ 90 \notin D /\ 100 \notin E
  OBVIOUS
<1>1. /\ B = {50, 60} /\ C = {50, 60, 70} /\ D = {50, 60, 70, 80}
      /\ E = {50, 60, 70, 80, 90} /\ F = {50, 60, 70, 80, 90, 100}
  OBVIOUS
<1>2. IsFiniteSet(A) /\ Cardinality(A) = 1
  BY FS_Singleton
<1> HIDE DEF A
<1>3. IsFiniteSet(B) /\ Cardinality(B) = 2
  BY <1>0, <1>2, FS_AddElement
<1> HIDE DEF B
<1>4. IsFiniteSet(C) /\ Cardinality(C) = 3
  BY <1>0, <1>3, FS_AddElement
<1> HIDE DEF C
<1>5. IsFiniteSet(D) /\ Cardinality(D) = 4
  BY <1>0, <1>4, FS_AddElement
<1> HIDE DEF D
<1>6. IsFiniteSet(E) /\ Cardinality(E) = 5
  BY <1>0, <1>5, FS_AddElement
<1> HIDE DEF E
<1>7. IsFiniteSet(F) /\ Cardinality(F) = 6
  BY <1>0, <1>6, FS_AddElement
<1> HIDE DEF F
<1> QED BY <1>1, <1>2, <1>3, <1>4, <1>5, <1>6, <1>7 DEF A

\* The entries are numbered by the bytes that are no handicaps.
LEMMA EncodingMapNumbers ==
  ASSUME NEW i \in 0 .. 248
  PROVE  /\ EncodingMap[i] \in 1 .. 255 \ Handicaps
         /\ Cardinality(1 .. EncodingMap[i] - 1 \ Handicaps) = i
<1>1. ASSUME NEW c \in 1 .. 7, EncodingMap[i] = i + c, NEW H, Cardinality(H) = c - 1,
             1 .. i + c - 1 \cap Handicaps = H
      PROVE  Cardinality(1 .. EncodingMap[i] - 1 \ Handicaps) = i
  <2> DEFINE below == 1 .. i + c - 1
  <2>1. IsFiniteSet(below) /\ Cardinality(below) = i + c - 1
    <3>1. /\ 1 \in Int /\ i + c - 1 \in Int /\ (1 > i + c - 1 => i + c - 1 = 0)
          /\ (i + c - 1) - 1 + 1 = i + c - 1
      OBVIOUS
    <3> QED BY <3>1, FS_Interval
  <2>2. 1 .. EncodingMap[i] - 1 = below
    BY <1>1
  <2> HIDE DEF below
  <2>3. Cardinality(below \ Handicaps) = Cardinality(below) - Cardinality(below \cap Handicaps)
    BY <2>1, FS_Difference
  <2>4. below \cap Handicaps = H
    BY <1>1 DEF below
  <2>5. Cardinality(below \ Handicaps) = (i + c - 1) - (c - 1)
    BY <1>1, <2>1, <2>3, <2>4
  <2>6. (i + c - 1) - (c - 1) = i
    OBVIOUS
  <2> QED BY <2>2, <2>5, <2>6
<1>2. CASE i \in 0 .. 48 /\ EncodingMap[i] = i + 1
  <2>1. 1 .. i + 1 - 1 \cap Handicaps = {} /\ i + 1 \in 1 .. 255 \ Handicaps
    BY <1>2 DEF Handicaps
  <2> QED BY <1>1, <1>2, <2>1, FS_EmptySet
<1>3. CASE i \in 49 .. 57 /\ EncodingMap[i] = i + 2
  <2>1. 1 .. i + 2 - 1 \cap Handicaps = {50} /\ i + 2 \in 1 .. 255 \ Handicaps
    BY <1>3 DEF Handicaps
  <2>2. 2 \in 1 .. 7 /\ 2 - 1 = 1
    OBVIOUS
  <2>3. Cardinality({50}) = 1
    BY HandicapsCounted
  <2> QED BY <1>1, <1>3, <2>1, <2>2, <2>3
<1>4. CASE i \in 58 .. 66 /\ EncodingMap[i] = i + 3
  <2>1. 1 .. i + 3 - 1 \cap Handicaps = {50, 60} /\ i + 3 \in 1 .. 255 \ Handicaps
    BY <1>4 DEF Handicaps
  <2>2. 3 \in 1 .. 7 /\ 3 - 1 = 2
    OBVIOUS
  <2>3. Cardinality({50, 60}) = 2
    BY HandicapsCounted
  <2> QED BY <1>1, <1>4, <2>1, <2>2, <2>3
<1>5. CASE i \in 67 .. 75 /\ EncodingMap[i] = i + 4
  <2>1. 1 .. i + 4 - 1 \cap Handicaps = {50, 60, 70} /\ i + 4 \in 1 .. 255 \ Handicaps
    BY <1>5 DEF Handicaps
  <2>2. 4 \in 1 .. 7 /\ 4 - 1 = 3
    OBVIOUS
  <2>3. Cardinality({50, 60, 70}) = 3
    BY HandicapsCounted
  <2> QED BY <1>1, <1>5, <2>1, <2>2, <2>3
<1>6. CASE i \in 76 .. 84 /\ EncodingMap[i] = i + 5
  <2>1. 1 .. i + 5 - 1 \cap Handicaps = {50, 60, 70, 80} /\ i + 5 \in 1 .. 255 \ Handicaps
    BY <1>6 DEF Handicaps
  <2>2. 5 \in 1 .. 7 /\ 5 - 1 = 4
    OBVIOUS
  <2>3. Cardinality({50, 60, 70, 80}) = 4
    BY HandicapsCounted
  <2> QED BY <1>1, <1>6, <2>1, <2>2, <2>3
<1>7. CASE i \in 85 .. 93 /\ EncodingMap[i] = i + 6
  <2>1. 1 .. i + 6 - 1 \cap Handicaps = {50, 60, 70, 80, 90} /\ i + 6 \in 1 .. 255 \ Handicaps
    BY <1>7 DEF Handicaps
  <2>2. 6 \in 1 .. 7 /\ 6 - 1 = 5
    OBVIOUS
  <2>3. Cardinality({50, 60, 70, 80, 90}) = 5
    BY HandicapsCounted
  <2> QED BY <1>1, <1>7, <2>1, <2>2, <2>3
<1>8. CASE i \in 94 .. 248 /\ EncodingMap[i] = i + 7
  <2>1. 1 .. i + 7 - 1 \cap Handicaps = {50, 60, 70, 80, 90, 100} /\ i + 7 \in 1 .. 255 \ Handicaps
    BY <1>8 DEF Handicaps
  <2>2. 7 \in 1 .. 7 /\ 7 - 1 = 6
    OBVIOUS
  <2>3. Cardinality({50, 60, 70, 80, 90, 100}) = 6
    BY HandicapsCounted
  <2> QED BY <1>1, <1>8, <2>1, <2>2, <2>3
<1> QED BY <1>2, <1>3, <1>4, <1>5, <1>6, <1>7, <1>8, EncodingMapSkips
\* The occupied slots up to s.
OccupiedTo(s) == {t \in 1 .. s : Occupied(t)}

\* One slot more is at most one occupied slot more.
LEMMA OccupiedCounted ==
  ASSUME NEW s \in Nat
  PROVE  /\ IsFiniteSet(OccupiedTo(s)) /\ Cardinality(OccupiedTo(s)) \in Nat
         /\ \A t \in 0 .. s : Cardinality(OccupiedTo(t)) <= Cardinality(OccupiedTo(s))
         /\ \A t \in 0 .. s : t # s /\ Occupied(s) =>
              Cardinality(OccupiedTo(t)) < Cardinality(OccupiedTo(s))
         /\ s # 0 => Cardinality(OccupiedTo(s)) <= Cardinality(OccupiedTo(s - 1)) + 1
         /\ s = 0 => Cardinality(OccupiedTo(s)) = 0
<1>1. ASSUME NEW t \in Nat
      PROVE  IsFiniteSet(OccupiedTo(t)) /\ Cardinality(OccupiedTo(t)) \in Nat
  <2>1. IsFiniteSet(1 .. t)
    BY FS_Interval
  <2>2. OccupiedTo(t) \in SUBSET (1 .. t)
    BY DEF OccupiedTo
  <2> QED BY <2>1, <2>2, FS_Subset, FS_CardinalityType
<1>2. ASSUME NEW t \in 0 .. s
      PROVE  Cardinality(OccupiedTo(t)) <= Cardinality(OccupiedTo(s))
  <2>1. OccupiedTo(t) \in SUBSET OccupiedTo(s)
    BY DEF OccupiedTo
  <2> QED BY <1>1, <2>1, FS_Subset
<1>3. ASSUME NEW t \in 0 .. s, t # s, Occupied(s)
      PROVE  Cardinality(OccupiedTo(t)) < Cardinality(OccupiedTo(s))
  <2>1. OccupiedTo(t) \in SUBSET OccupiedTo(s)
    BY DEF OccupiedTo
  <2>2. s \in OccupiedTo(s) /\ s \notin OccupiedTo(t)
    BY <1>3 DEF OccupiedTo
  <2>3. t \in Nat
    OBVIOUS
  <2>4. Cardinality(OccupiedTo(t)) <= Cardinality(OccupiedTo(s))
        /\ Cardinality(OccupiedTo(t)) # Cardinality(OccupiedTo(s))
    BY <1>1, <2>1, <2>2, FS_Subset
  <2> QED BY <1>1, <2>3, <2>4
<1>4. ASSUME s # 0
      PROVE  Cardinality(OccupiedTo(s)) <= Cardinality(OccupiedTo(s - 1)) + 1
  <2>1. s - 1 \in Nat
    BY <1>4
  <2> DEFINE before == OccupiedTo(s - 1)
  <2>2. OccupiedTo(s) \subseteq before \cup {s}
    BY <2>1 DEF OccupiedTo
  <2>3. IsFiniteSet(before) /\ Cardinality(before) \in Nat
    BY <1>1, <2>1
  <2> HIDE DEF before
  <2>4. /\ IsFiniteSet(before \cup {s}) /\ Cardinality(before \cup {s}) \in Nat
        /\ Cardinality(before \cup {s}) <= Cardinality(before) + 1
    <3>1. /\ IsFiniteSet(before \cup {s})
          /\ Cardinality(before \cup {s}) =
               IF s \in before THEN Cardinality(before) ELSE Cardinality(before) + 1
      BY <2>3, FS_AddElement
    <3> QED BY <2>3, <3>1
  <2>5. Cardinality(OccupiedTo(s)) <= Cardinality(before \cup {s})
    BY <2>2, <2>4, FS_Subset
  <2>6. Cardinality(OccupiedTo(s)) \in Nat
    BY <1>1
  <2>7. Cardinality(OccupiedTo(s)) <= Cardinality(before) + 1
    BY <2>3, <2>4, <2>5, <2>6
  <2> QED BY <2>7 DEF before
<1>5. OccupiedTo(0) = {}
  BY DEF OccupiedTo
<1> QED BY <1>1, <1>2, <1>3, <1>4, <1>5, FS_EmptySet

\* The first occupied slots, as many as there are letters, are the occupied
\* ones up to some slot.
LEMMA FirstOccupied ==
  ASSUME NEW N \in Nat, NEW L \in Nat, L <= Cardinality(OccupiedTo(N))
  PROVE  \E m \in 0 .. N : /\ Cardinality(OccupiedTo(m)) = L
                           /\ \A s \in 1 .. N : Occupied(s) =>
                                (Cardinality(OccupiedTo(s)) <= L <=> s <= m)
<1> DEFINE T == {m \in Nat : L <= Cardinality(OccupiedTo(m))}
<1>1. T \in SUBSET Nat /\ N \in T
  OBVIOUS
<1>2. PICK m \in T : \A n \in T : m <= n
  <2> HIDE DEF T
  <2> QED BY <1>1, LeastExists
<1>3. m \in 0 .. N /\ L <= Cardinality(OccupiedTo(m)) /\ Cardinality(OccupiedTo(m)) \in Nat
  BY <1>1, <1>2, OccupiedCounted
<1>4. Cardinality(OccupiedTo(m)) = L
  <2>1. CASE m = 0
    BY <1>3, <2>1, OccupiedCounted
  <2>2. CASE m # 0
    <3>1. m - 1 \in Nat /\ ~(m <= m - 1)
      BY <1>3, <2>2
    <3>2. m - 1 \notin T
      BY <1>2, <3>1
    <3>3. Cardinality(OccupiedTo(m - 1)) < L
      BY <3>1, <3>2, OccupiedCounted
    <3>4. Cardinality(OccupiedTo(m)) <= Cardinality(OccupiedTo(m - 1)) + 1
      BY <1>3, <2>2, OccupiedCounted
    <3>5. Cardinality(OccupiedTo(m - 1)) \in Nat
      BY <3>1, OccupiedCounted
    <3> QED BY <1>3, <3>3, <3>4, <3>5
  <2> QED BY <2>1, <2>2
<1>5. ASSUME NEW s \in 1 .. N, Occupied(s)
      PROVE  Cardinality(OccupiedTo(s)) <= L <=> s <= m
  <2>1. s \in Nat /\ m \in Nat /\ Cardinality(OccupiedTo(s)) \in Nat
    BY <1>3, OccupiedCounted
  <2>2. CASE s <= m
    <3>1. s \in 0 .. m
      BY <2>1, <2>2
    <3> QED BY <1>4, <2>1, <2>2, <3>1, OccupiedCounted
  <2>3. CASE ~(s <= m)
    <3>1. m \in 0 .. s /\ m # s
      BY <2>1, <2>3
    <3>2. L < Cardinality(OccupiedTo(s))
      BY <1>4, <1>5, <2>1, <3>1, OccupiedCounted
    <3> QED BY <2>1, <2>3, <3>2
  <2> QED BY <2>2, <2>3
<1> QED BY <1>3, <1>4, <1>5
\* The handicap of a slot that carries a letter gives both back.
LEMMA LetterRead ==
  ASSUME NEW h \in Handicaps, NEW c \in 0 .. 40
  PROVE  LET x == EncodingMap[(h - 50) \div 10 + c * 6]
             k == Cardinality(1 .. x - 1 \ Handicaps)
         IN  /\ x \in 1 .. 255 \ Handicaps
             /\ k \div 6 = c
             /\ (k % 6) * 10 + 50 = h
<1> DEFINE index == (h - 50) \div 10
           k == index + c * 6
<1>1. index \in 0 .. 5 /\ index * 10 + 50 = h
  BY DEF Handicaps
<1> HIDE DEF index
<1>2. k \in 0 .. 248 /\ k \div 6 = c /\ k % 6 = index
  BY <1>1
<1> HIDE DEF k
<1>3. EncodingMap[k] \in 1 .. 255 \ Handicaps /\ Cardinality(1 .. EncodingMap[k] - 1 \ Handicaps) = k
  BY <1>2, EncodingMapNumbers
<1> QED BY <1>1, <1>2, <1>3 DEF k, index

\* The start gives the first occupied slots a letter each and leaves the rest.
LEMMA StartDecodes ==
  ASSUME Inv, NEW string \in HCLCommands, EventGameStarted(string),
         Len(string) <= Cardinality({s \in SIDs : Occupied(s)})
  PROVE  LET carrying == {s \in SIDs : slots'[s].handicap \notin Handicaps}
             Decoded(s) == Cardinality(1 .. slots'[s].handicap - 1 \ Handicaps)
         IN  /\ Cardinality(carrying) = Len(string)
             /\ \A s \in SIDs \ carrying : slots'[s].handicap = slots[s].handicap
             /\ \A s \in carrying :
                  /\ Occupied(s)
                  /\ slots'[s].handicap \in 1 .. 255
                  /\ Decoded(s) \div 6 = string[Cardinality(carrying \cap 1 .. s)]
                  /\ (Decoded(s) % 6) * 10 + 50 = slots[s].handicap
<1> DEFINE N == Len(map.slots)
           L == Len(string)
           carrying == {s \in SIDs : slots'[s].handicap \notin Handicaps}
           Decoded(s) == Cardinality(1 .. slots'[s].handicap - 1 \ Handicaps)
<1>1. SIDs = 1 .. N /\ N \in Nat
  BY SIDsAreNumbers, MapsAssumption, LenProperties DEF Inv, Typed
<1>2. slots \in [SIDs -> Slot] /\ slots' = Encoded(string)
  BY DEF EventGameStarted, Inv, Typed, SIDs
<1>3. L \in Nat /\ \A n \in 1 .. L : string[n] \in 0 .. 40
  <2>1. string \in Seq(0 .. 40)
    BY HCLAssumption
  <2>2. DOMAIN string = 1 .. L /\ L \in Nat
    BY <2>1, LenProperties
  <2> HIDE DEF L
  <2>3. \A n \in DOMAIN string : string[n] \in 0 .. 40
    BY <2>1, ElementTyped
  <2> QED BY <2>2, <2>3
<1>4. {s \in SIDs : Occupied(s)} = OccupiedTo(N)
  BY <1>1 DEF OccupiedTo
<1> HIDE DEF L, N
<1>5. PICK m \in 0 .. N : /\ Cardinality(OccupiedTo(m)) = L
                          /\ \A s \in 1 .. N : Occupied(s) =>
                               (Cardinality(OccupiedTo(s)) <= L <=> s <= m)
  <2>1. L <= Cardinality(OccupiedTo(N))
    BY <1>4 DEF L
  <2> QED BY <1>1, <1>3, <2>1, FirstOccupied
<1>6. ASSUME NEW s \in SIDs, ~(Occupied(s) /\ s <= m)
      PROVE  slots'[s].handicap = slots[s].handicap /\ slots[s].handicap \in Handicaps
  <2>1. ~(Occupied(s) /\ Cardinality(OccupiedTo(s)) <= Len(string))
    BY <1>1, <1>5, <1>6 DEF L
  <2>2. slots'[s] = slots[s]
    BY <1>2, <2>1 DEF Encoded, OccupiedTo
  <2> QED BY <1>2, <2>2 DEF Slot
<1>7. ASSUME NEW s \in SIDs, Occupied(s), s <= m
      PROVE  /\ slots'[s].handicap \in 1 .. 255 \ Handicaps
             /\ Decoded(s) \div 6 = string[Cardinality(OccupiedTo(s))]
             /\ (Decoded(s) % 6) * 10 + 50 = slots[s].handicap
  <2> DEFINE n == Cardinality(OccupiedTo(s))
             h == slots[s].handicap
             x == EncodingMap[(h - 50) \div 10 + string[n] * 6]
  <2>1. n \in 1 .. L
    <3>1. s \in Nat /\ 0 \in 0 .. s /\ 0 # s /\ 0 \in Nat
      BY <1>1
    <3>2. n \in Nat /\ Cardinality(OccupiedTo(0)) < n /\ Cardinality(OccupiedTo(0)) = 0
      BY <1>7, <3>1, OccupiedCounted
    <3>3. n <= L
      BY <1>1, <1>5, <1>7
    <3> QED BY <1>3, <3>2, <3>3
  <2>2. string[n] \in 0 .. 40
    BY <1>3, <2>1
  <2>3. slots[s] \in Slot /\ h \in Handicaps
    BY <1>2 DEF Slot
  <2>4. slots'[s] = [slots[s] EXCEPT !.handicap = x]
    <3>1. n <= Len(string)
      BY <1>3, <2>1 DEF L
    <3> QED BY <1>2, <1>7, <3>1 DEF Encoded, OccupiedTo
  <2>5. slots'[s].handicap = x
    <3> HIDE DEF x
    <3> QED BY <2>3, <2>4 DEF Slot
  <2> HIDE DEF n, h
  <2>6. /\ x \in 1 .. 255 \ Handicaps
        /\ Cardinality(1 .. x - 1 \ Handicaps) \div 6 = string[n]
        /\ (Cardinality(1 .. x - 1 \ Handicaps) % 6) * 10 + 50 = h
    BY <2>2, <2>3, LetterRead
  <2> HIDE DEF x
  <2> QED BY <2>5, <2>6 DEF n, h
<1>8. carrying = OccupiedTo(m)
  <2>1. \A s \in SIDs : s \in carrying <=> Occupied(s) /\ s <= m
    BY <1>6, <1>7
  <2>2. \A s : s \in OccupiedTo(m) <=> s \in SIDs /\ Occupied(s) /\ s <= m
    BY <1>1, <1>5 DEF OccupiedTo
  <2>3. carrying \subseteq SIDs
    OBVIOUS
  <2> HIDE DEF carrying
  <2> QED BY <2>1, <2>2, <2>3
<1>9. ASSUME NEW s \in SIDs, s <= m PROVE carrying \cap 1 .. s = OccupiedTo(s)
  BY <1>1, <1>5, <1>8, <1>9 DEF OccupiedTo
<1>10. \A s \in SIDs : s \in carrying <=> Occupied(s) /\ s <= m
  BY <1>6, <1>7
<1>11. carrying \subseteq SIDs
  OBVIOUS
<1> HIDE DEF carrying, Decoded
<1>12. Cardinality(carrying) = Len(string)
  BY <1>5, <1>8 DEF L
<1>13. \A s \in SIDs \ carrying : slots'[s].handicap = slots[s].handicap
  BY <1>6, <1>10
<1>14. ASSUME NEW s \in carrying
       PROVE  /\ Occupied(s)
              /\ slots'[s].handicap \in 1 .. 255
              /\ Decoded(s) \div 6 = string[Cardinality(carrying \cap 1 .. s)]
              /\ (Decoded(s) % 6) * 10 + 50 = slots[s].handicap
  <2>1. s \in SIDs /\ Occupied(s) /\ s <= m
    BY <1>10, <1>11
  <2>2. carrying \cap 1 .. s = OccupiedTo(s)
    BY <1>9, <2>1
  <2> QED BY <1>7, <2>1, <2>2
<1> QED BY <1>12, <1>13, <1>14 DEF carrying, Decoded

(* The map gets the host's command letters: whoever sits where, with        *)
(* whatever handicaps, EventGameStarted hides the string so that the map    *)
(* reads its letters in order and gives every slot its handicap back.       *)
THEOREM LettersAreRead == Spec => HCLDecodes
<1> DEFINE Reads ==
      LET carrying == {s \in SIDs : slots'[s].handicap \notin Handicaps}
          Decoded(s) == Cardinality(1 .. slots'[s].handicap - 1 \ Handicaps)
      IN  loading' /\ ~loading /\ Len(hcl') <= Cardinality({s \in SIDs : Occupied(s)}) =>
            /\ Cardinality(carrying) = Len(hcl')
            /\ \A s \in SIDs \ carrying : slots'[s].handicap = slots[s].handicap
            /\ \A s \in carrying :
                 /\ Occupied(s)
                 /\ slots'[s].handicap \in 1 .. 255
                 /\ Decoded(s) \div 6 = hcl'[Cardinality(carrying \cap 1 .. s)]
                 /\ (Decoded(s) % 6) * 10 + 50 = slots[s].handicap
<1>1. Inv /\ [Next]_vars => [Reads]_vars
  <2> SUFFICES ASSUME Inv, Next, loading', ~loading,
                      Len(hcl') <= Cardinality({s \in SIDs : Occupied(s)})
               PROVE  Reads
    OBVIOUS
  <2>1. PICK string \in HCLCommands : EventGameStarted(string)
    BY DEF Next, EventPlayerJoined, EventPlayerDeleted, Overwrite, EventPlayerChangeTeam,
       EventPlayerChangeColour, EventPlayerChangeHandicap, SlotCommand, SwapCommand,
       ComputerCommand, AllSlotsCommand, ShuffleSlots
  <2>2. hcl' = string
    BY <2>1 DEF EventGameStarted
  <2> QED BY <2>1, <2>2, StartDecodes
<1> QED BY <1>1, SlotsInvariant, PTL DEF Spec, HCLDecodes
=============================================================================
