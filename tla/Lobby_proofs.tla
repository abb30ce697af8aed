---------------------------- MODULE Lobby_proofs ----------------------------
(***************************************************************************)
(* Proofs about the lobby, for any number of connections, names and slots: *)
(* type correctness; that the PIDs by which the clients know the players   *)
(* are unique and are the ones that the clients were told of; who is spoof *)
(* checked, and which reserved players stay; and that slots and players    *)
(* match while nobody is displaced.                                        *)
(***************************************************************************)
EXTENDS Lobby, FiniteSetTheorems, SequenceTheorems, WellFoundedInduction, TLAPS

(* A nonempty set of natural numbers has a least element.                  *)
LEMMA LeastExists ==
  ASSUME NEW T \in SUBSET Nat, T # {}
  PROVE  \E x \in T : \A y \in T : x <= y
<1> DEFINE I == {0 .. x : x \in T}
<1>1. IsWellFoundedOn(StrictSubsetOrdering(Nat), FiniteSubsetsOf(Nat))
  BY FS_StrictSubsetOrderingWellFounded
<1>2. I \subseteq FiniteSubsetsOf(Nat) /\ I # {}
  <2>1. ASSUME NEW x \in T PROVE 0 .. x \in FiniteSubsetsOf(Nat)
    <3>1. x \in Int /\ 0 \in Int /\ 0 .. x \subseteq Nat
      OBVIOUS
    <3>2. IsFiniteSet(0 .. x)
      BY <3>1, FS_Interval
    <3> QED BY <3>1, <3>2 DEF FiniteSubsetsOf
  <2> QED BY <2>1
<1>3. PICK m \in I : \A i \in I : ~ (<<i, m>> \in StrictSubsetOrdering(Nat))
  <2> HIDE DEF I
  <2> QED BY <1>1, <1>2, WFMin, Zenon
<1>4. PICK x \in T : m = 0 .. x
  OBVIOUS
<1>5. ASSUME NEW y \in T, y < x PROVE FALSE
  <2>1. 0 .. y \in I /\ 0 .. y \subseteq m /\ x \in m /\ x \notin 0 .. y
    BY <1>4, <1>5
  <2>2. <<0 .. y, m>> \in StrictSubsetOrdering(Nat)
    BY <2>1, <1>2, <1>3 DEF StrictSubsetOrdering, FiniteSubsetsOf
  <2> QED BY <2>1, <2>2, <1>3
<1> QED BY <1>5

(* RemoveAt removes one element and keeps the others in their order.       *)
LEMMA RemoveAtProperties ==
  ASSUME NEW S, NEW s \in Seq(S), NEW n \in 1 .. Len(s)
  PROVE  /\ RemoveAt(s, n) \in Seq(S) /\ Len(RemoveAt(s, n)) = Len(s) - 1
         /\ \A i \in 1 .. Len(s) - 1 :
                RemoveAt(s, n)[i] = IF i < n THEN s[i] ELSE s[i + 1]
<1> DEFINE before == SubSeq(s, 1, n - 1)
           after  == SubSeq(s, n + 1, Len(s))
<1>1. /\ before \in Seq(S) /\ Len(before) = n - 1
      /\ \A i \in 1 .. n - 1 : before[i] = s[i]
  OBVIOUS
<1>2. /\ after \in Seq(S) /\ Len(after) = Len(s) - n
      /\ \A i \in 1 .. Len(s) - n : after[i] = s[n + i]
  OBVIOUS
<1>3. RemoveAt(s, n) = before \o after
  BY DEF RemoveAt
<1> HIDE DEF before, after
<1>4. /\ before \o after \in Seq(S) /\ Len(before \o after) = Len(s) - 1
      /\ \A i \in 1 .. Len(s) - 1 :
            (before \o after)[i] = IF i <= n - 1 THEN before[i] ELSE after[i - (n - 1)]
  <2>1. (n - 1) + (Len(s) - n) = Len(s) - 1
    OBVIOUS
  <2>2. /\ before \o after \in Seq(S) /\ Len(before \o after) = Len(before) + Len(after)
        /\ \A i \in 1 .. Len(before) + Len(after) :
              (before \o after)[i]
                 = IF i <= Len(before) THEN before[i] ELSE after[i - Len(before)]
    BY <1>1, <1>2, ConcatProperties
  <2> QED BY <1>1, <1>2, <2>1, <2>2
<1>5. ASSUME NEW i \in 1 .. Len(s) - 1
      PROVE  (before \o after)[i] = IF i < n THEN s[i] ELSE s[i + 1]
  <2>1. CASE i < n
    BY <1>1, <1>4, <2>1
  <2>2. CASE ~(i < n)
    <3>1. i - (n - 1) \in 1 .. Len(s) - n /\ n + (i - (n - 1)) = i + 1
      BY <2>2
    <3> QED BY <1>2, <1>4, <2>2, <3>1
  <2> QED BY <2>1, <2>2
<1> QED BY <1>3, <1>4, <1>5

(* The PIDs in use are fewer than the PIDs there are.                       *)
LEMMA UsedPIDsBound ==
  ASSUME NEW pl \in [Conns -> Player \cup {NoPlayer}],
         NEW vh \in PIDs \cup {None}, NEW fake \in PIDs \cup {None}
  PROVE  PIDs \ UsedPIDs(pl, vh, fake) # {}
<1> DEFINE L == LiveIn(pl)
           P == {pl[c].pid : c \in L}
           f == [c \in L |-> pl[c].pid]
<1>1. IsFiniteSet(L) /\ Cardinality(L) <= Cardinality(Conns) /\ Cardinality(L) \in Nat
         /\ Cardinality(Conns) \in Nat
  <2>1. L \in SUBSET Conns
    BY DEF LiveIn
  <2> QED BY <2>1, ConnsAssumption, FS_Subset, FS_CardinalityType
<1>2. IsFiniteSet(P) /\ Cardinality(P) <= Cardinality(L) /\ Cardinality(P) \in Nat
  <2>1. f \in Surjection(L, P)
    BY DEF Surjection
  <2> HIDE DEF f, P, L
  <2> QED BY <2>1, <1>1, FS_Surjection, FS_CardinalityType
<1>3. ASSUME NEW S, IsFiniteSet(S), Cardinality(S) \in Nat, NEW x
       PROVE  /\ IsFiniteSet(S \cup {x}) /\ Cardinality(S \cup {x}) \in Nat
              /\ Cardinality(S \cup {x}) <= Cardinality(S) + 1
  <2>1. CASE x \in S
    BY <1>3, <2>1, FS_AddElement
  <2>2. CASE x \notin S
    BY <1>3, <2>2, FS_AddElement
  <2> QED BY <2>1, <2>2
<1>4. IsFiniteSet((P \cup {vh}) \cup {fake})
         /\ Cardinality((P \cup {vh}) \cup {fake}) <= Cardinality(P) + 2
         /\ Cardinality((P \cup {vh}) \cup {fake}) \in Nat
  <2> HIDE DEF P
  <2>1. IsFiniteSet(P \cup {vh}) /\ Cardinality(P \cup {vh}) \in Nat
          /\ Cardinality(P \cup {vh}) <= Cardinality(P) + 1
    BY <1>2, <1>3
  <2>2. IsFiniteSet((P \cup {vh}) \cup {fake})
          /\ Cardinality((P \cup {vh}) \cup {fake}) \in Nat
          /\ Cardinality((P \cup {vh}) \cup {fake}) <= Cardinality(P \cup {vh}) + 1
    BY <2>1, <1>3
  <2> QED BY <1>2, <2>1, <2>2
<1>5. UsedPIDs(pl, vh, fake) = (P \cup {vh}) \cup {fake}
  BY DEF UsedPIDs
<1>6. Cardinality(UsedPIDs(pl, vh, fake)) < LastPID /\ IsFiniteSet(UsedPIDs(pl, vh, fake))
         /\ Cardinality(UsedPIDs(pl, vh, fake)) \in Nat
  BY <1>1, <1>2, <1>4, <1>5, PIDsAssumption
<1>7. Cardinality(PIDs) = LastPID
  BY FS_Interval, PIDsAssumption DEF PIDs
<1>8. SUFFICES ASSUME PIDs \in SUBSET UsedPIDs(pl, vh, fake) PROVE FALSE
  OBVIOUS
<1>9. Cardinality(PIDs) <= Cardinality(UsedPIDs(pl, vh, fake))
  BY <1>6, <1>8, FS_Subset
<1> QED BY <1>6, <1>7, <1>9, PIDsAssumption

(* GetNewPID returns a PID that nobody has, the smallest one.               *)
LEMMA NewPIDIsFresh ==
  ASSUME NEW pl \in [Conns -> Player \cup {NoPlayer}],
         NEW vh \in PIDs \cup {None}, NEW fake \in PIDs \cup {None}
  PROVE  NewPID(pl, vh, fake) \in PIDs \ UsedPIDs(pl, vh, fake)
<1> DEFINE free == PIDs \ UsedPIDs(pl, vh, fake)
<1>1. free # {}
  BY UsedPIDsBound
<1>2. free \in SUBSET Nat
  BY DEF PIDs
<1>3. \E p \in free : \A q \in free : p <= q
  <2> HIDE DEF free
  <2> QED BY <1>1, <1>2, LeastExists
<1>4. NewPID(pl, vh, fake) = CHOOSE p \in free : \A q \in free : p <= q
  BY <1>1 DEF NewPID
<1> QED BY <1>3, <1>4

(* GetSIDFromPID returns a slot that holds the PID, or nothing.             *)
LEMMA SIDFromPIDFinds ==
  ASSUME NEW s, NEW pid, SIDFromPID(s, pid) # None
  PROVE  SIDFromPID(s, pid) \in SIDs /\ s[SIDFromPID(s, pid)].pid = pid
<1> DEFINE held == {i \in SIDs : s[i].pid = pid}
<1>1. held # {} /\ SIDFromPID(s, pid) = Min(held)
  BY DEF SIDFromPID
<1>2. held \in SUBSET Nat
  BY SlotsAssumption DEF SIDs
<1>3. \E x \in held : \A y \in held : x <= y
  <2> HIDE DEF held
  <2> QED BY <1>1, <1>2, LeastExists
<1>4. Min(held) \in held
  <2> HIDE DEF held
  <2> QED BY <1>3 DEF Min
<1> QED BY <1>1, <1>4

\* The first of a set of slots, or PIDs, is one of them.
LEMMA MinIsIn ==
  ASSUME NEW T \in SUBSET Nat, T # {}
  PROVE  Min(T) \in T
BY LeastExists DEF Min

(* The slot for a newcomer is one of the slots.                             *)
LEMMA SlotForIsSlot ==
  ASSUME NEW name
  PROVE  SlotFor(name) \in SIDs \cup {None}
<1>1. SIDs \subseteq Nat /\ 0 \in SIDs
  BY SlotsAssumption DEF SIDs
<1>2. EmptySlot \in SIDs \cup {None}
  <2>1. SlotsThatAre("open") \subseteq SIDs
    BY DEF SlotsThatAre
  <2> QED BY <1>1, <2>1, MinIsIn DEF EmptySlot
<1>3. ReservedSlot \in SIDs \cup {None}
  <2>1. /\ SlotsThatAre("closed") \subseteq SIDs
        /\ Displaceable \subseteq SIDs /\ LeastDownloaded \subseteq SIDs
    BY DEF SlotsThatAre, Displaceable, LeastDownloaded
  <2> QED BY <1>1, <2>1, MinIsIn DEF ReservedSlot
<1>4. OwnersSlot \in SIDs
  <2>1. HumanSlots \subseteq SIDs
    BY DEF HumanSlots, SlotsThatAre
  <2> QED BY <1>1, <2>1, MinIsIn DEF OwnersSlot
<1> QED BY <1>2, <1>3, <1>4 DEF SlotFor

-----------------------------------------------------------------------------
(* Type correctness.  The loop over m_Players always stands before one of   *)
(* the players, or at the end; a player is in m_Players once.               *)

LoopOK ==
    /\ cursor >= 1
    /\ phase = "packets" => cursor <= Len(players)
    /\ \A i \in 1 .. Len(players) : players[i] \in Present
    /\ \A i, j \in 1 .. Len(players) : i # j => players[i] # players[j]

TypeInv == TypeOK /\ LoopOK

(* Slots stay well typed under the operators that rewrite them.             *)
LEMMA SlotsTyped ==
  ASSUME TypeOK
  PROVE  /\ {OpenedSlot, ClosedSlot, ComputersSlot} \subseteq Slot
         /\ \A pid \in PIDs, d \in DownloadStatus : PlayersSlot(pid, d) \in Slot
         /\ \A pid : OpenSlotOf(pid) \in [SIDs -> Slot]
         /\ \A i, j \in SIDs : Swapped(i, j) \in [SIDs -> Slot]
<1>1. {OpenedSlot, ClosedSlot, ComputersSlot} \subseteq Slot
  <2>1. OpenedSlot \in Slot
    BY DownloadAssumption DEF OpenedSlot, Slot
  <2>2. ClosedSlot \in Slot
    BY DownloadAssumption DEF ClosedSlot, Slot
  <2>3. ComputersSlot \in Slot
    BY DownloadAssumption DEF ComputersSlot, Slot
  <2> QED BY <2>1, <2>2, <2>3
<1>2. ASSUME NEW pid \in PIDs, NEW d \in DownloadStatus
      PROVE  PlayersSlot(pid, d) \in Slot
  BY <1>2, PIDsAssumption DEF PlayersSlot, Slot, PIDs, None
<1>3. ASSUME NEW pid PROVE OpenSlotOf(pid) \in [SIDs -> Slot]
  BY <1>1 DEF OpenSlotOf, TypeOK
<1>4. ASSUME NEW i \in SIDs, NEW j \in SIDs PROVE Swapped(i, j) \in [SIDs -> Slot]
  BY DEF Swapped, TypeOK
<1> QED BY <1>1, <1>2, <1>3, <1>4

\* The lobby that CGHost creates has its types.
LEMMA InitTypeInv == Init => TypeInv
<1> SUFFICES ASSUME Init PROVE TypeInv
  OBVIOUS
<1>1. OpenedSlot \in Slot
  BY DownloadAssumption DEF OpenedSlot, Slot
<1>2. players \in Seq(Conns) /\ Len(players) = 0
  BY DEF Init
<1>3. player \in [Conns -> Player \cup {NoPlayer}] /\ slots \in [SIDs -> Slot]
  BY <1>1 DEF Init
<1>4. countDownCounter \in 0 .. CountDownFrom /\ reserved \subseteq Names
  BY NamesAssumption, SwitchesAssumption DEF Init
<1>5. TypeOK
  BY <1>2, <1>3, <1>4 DEF Init, TypeOK, Phases
<1> QED BY <1>2, <1>5 DEF Init, TypeInv, LoopOK

PlayerTable == [Conns -> Player \cup {NoPlayer}]

(* The loop stays where it is when an action adds and removes no player.    *)
LEMMA LoopUndisturbed ==
  ASSUME LoopOK, players' = players, cursor' = cursor,
         phase' = "packets" => phase = "packets",
         \A c \in Present : player'[c] # NoPlayer
  PROVE  LoopOK'
BY DEF LoopOK, Present

(* The loop's current player is one of the players.                         *)
LEMMA CurrentIsPresent ==
  ASSUME TypeInv, cursor <= Len(players)
  PROVE  /\ cursor \in 1 .. Len(players)
         /\ Current \in Conns /\ player[Current] \in Player
<1>1. cursor \in 1 .. Len(players)
  BY DEF TypeInv, TypeOK, LoopOK
<1> QED BY <1>1 DEF TypeInv, TypeOK, LoopOK, Current, Present

(* Marking one or several players keeps the player table.                   *)
LEMMA MarkedTable ==
  ASSUME TypeOK, NEW T \in SUBSET Present
  PROVE  LET marked == [c \in Conns |-> IF c \in T
                            THEN [player[c] EXCEPT !.deleteMe = TRUE] ELSE player[c]]
         IN  /\ marked \in PlayerTable
             /\ \A c \in Present : marked[c] # NoPlayer
<1>1. ASSUME NEW c \in T
      PROVE  player[c] \in Player /\ [player[c] EXCEPT !.deleteMe = TRUE] \in Player
  BY DEF TypeOK, Present, Player
<1> QED BY <1>1, NoPlayerAssumption DEF TypeOK, Present, PlayerTable

\* A kick opens a slot and marks a player.
LEMMA KickTyped ==
  ASSUME TypeOK, NEW c \in Present, Kick(c)
  PROVE  /\ player' \in PlayerTable /\ slots' \in [SIDs -> Slot]
         /\ \A d \in Present : player'[d] # NoPlayer
<1>1. c \in Conns /\ player[c] \in Player /\ [player[c] EXCEPT !.deleteMe = TRUE] \in Player
  BY DEF TypeOK, Present, Player
<1>2. player' = [player EXCEPT ![c] = [player[c] EXCEPT !.deleteMe = TRUE]]
  BY DEF Kick
<1>3. player' \in PlayerTable /\ \A d \in Present : player'[d] # NoPlayer
  BY <1>1, <1>2, NoPlayerAssumption DEF TypeOK, PlayerTable, Present
<1> QED BY <1>3, SlotsTyped DEF Kick

(* Whoever is seated is present.                                            *)
LEMMA SeatedIsPresent ==
  ASSUME NEW sid
  PROVE  SeatedAt(sid) \subseteq Live /\ Live \subseteq Present /\ Present \subseteq Conns
BY DEF SeatedAt, Live, LiveIn, Present

\* A command that overwrites a slot keeps the types.
LEMMA SlotCommandTyped ==
  ASSUME TypeInv, NEW command, NEW newSlot \in Slot, SlotCommand(command, newSlot)
  PROVE  TypeInv'
<1>1. PICK sid \in SIDs : /\ player' = EvictedFrom(sid)
                          /\ slots' = [slots EXCEPT ![sid] = newSlot]
  BY DEF SlotCommand
<1>2. player' \in PlayerTable /\ \A c \in Present : player'[c] # NoPlayer
  BY <1>1, MarkedTable, SeatedIsPresent DEF EvictedFrom, TypeInv
<1>3. TypeOK'
  BY <1>1, <1>2 DEF SlotCommand, TypeInv, TypeOK, PlayerTable, settings, countdown, position
<1>4. LoopOK'
  BY <1>2, LoopUndisturbed DEF SlotCommand, TypeInv, position
<1> QED BY <1>3, <1>4 DEF TypeInv

\* A player who joins gets a PID and a slot.
LEMMA JoinTyped ==
  ASSUME TypeInv, NEW c \in Conns, NEW name \in Names, NEW lan \in BOOLEAN,
         Join(c, name, lan)
  PROVE  TypeInv'
<1> DEFINE sid  == SlotFor(name)
           out  == SeatedAt(sid)
           left == [d \in Conns |-> IF d \in out
                                    THEN [player[d] EXCEPT !.deleteMe = TRUE,
                                                           !.leftMessageSent = TRUE]
                                    ELSE player[d]]
           host == HostMakingRoom(NumPlayersIn(left, fakePlayerPID))
           pid  == NewPID(left, host, fakePlayerPID)
           new  == [name |-> name, pid |-> pid, reserved |-> IsReserved(name),
                    spoofed |-> lan, deleteMe |-> FALSE, leftMessageSent |-> FALSE]
<1>1. sid \in SIDs
  BY SlotForIsSlot DEF Join
<1>2. left \in PlayerTable /\ \A d \in Present : left[d] # NoPlayer
  <2>1. ASSUME NEW d \in out
        PROVE  /\ player[d] \in Player
               /\ [player[d] EXCEPT !.deleteMe = TRUE, !.leftMessageSent = TRUE] \in Player
    BY SeatedIsPresent DEF TypeInv, TypeOK, Present, Player
  <2> QED BY <2>1, NoPlayerAssumption DEF TypeInv, TypeOK, Present, PlayerTable
<1>3. host \in PIDs \cup {None}
  BY DEF HostMakingRoom, TypeInv, TypeOK
<1>4. pid \in PIDs
  <2> HIDE DEF left, host
  <2> QED BY <1>2, <1>3, NewPIDIsFresh DEF PlayerTable, TypeInv, TypeOK
<1>5. new \in Player
  <2>1. IsReserved(name) \in BOOLEAN
    BY DEF IsReserved
  <2> QED BY <1>4, <2>1 DEF Player
<1> HIDE DEF sid, out, left, host, pid, new
<1>6. /\ phase = "potentials" /\ player[c] = NoPlayer
      /\ virtualHostPID' = host
      /\ players' = Append(players, c)
      /\ player' = [left EXCEPT ![c] = new]
      /\ slots' = [slots EXCEPT ![sid] = PlayersSlot(pid, 255)]
      /\ shown' \subseteq shown \cup {pid}
      /\ countDownStarted' = FALSE
      /\ UNCHANGED << fakePlayerPID, settings, countDownCounter, exiting, position >>
  BY DEF Join, AbortCountDown, sid, out, left, host, pid, new
<1>7. PlayersSlot(pid, 255) \in Slot
  BY <1>4, SlotsTyped, DownloadAssumption DEF TypeInv
<1>8. player' \in PlayerTable /\ player'[c] # NoPlayer
        /\ \A d \in Present : player'[d] # NoPlayer
  BY <1>2, <1>5, <1>6, NoPlayerAssumption DEF PlayerTable
<1>9. TypeOK'
  <2>1. players' \in Seq(Conns) /\ slots' \in [SIDs -> Slot]
    BY <1>1, <1>6, <1>7 DEF TypeInv, TypeOK
  <2>2. shown' \subseteq PIDs /\ virtualHostPID' \in PIDs \cup {None}
    BY <1>3, <1>4, <1>6 DEF TypeInv, TypeOK
  <2> QED BY <1>6, <1>8, <2>1, <2>2 DEF TypeInv, TypeOK, PlayerTable, settings, position
<1>10. LoopOK'
  <2>1. c \notin Present
    BY <1>6 DEF Present
  <2>2. players \in Seq(Conns) /\ Len(players') = Len(players) + 1
    BY <1>6 DEF TypeInv, TypeOK
  <2>3. \A i \in 1 .. Len(players') :
            players'[i] = IF i = Len(players) + 1 THEN c ELSE players[i]
    BY <1>6, <2>2
  <2>4. \A i \in 1 .. Len(players') : players'[i] \in Present'
    BY <1>8, <2>2, <2>3 DEF TypeInv, LoopOK, Present
  <2>5. \A i, j \in 1 .. Len(players') : i # j => players'[i] # players'[j]
    BY <2>1, <2>2, <2>3 DEF TypeInv, LoopOK
  <2> QED BY <1>6, <2>4, <2>5 DEF TypeInv, LoopOK, position
<1> QED BY <1>9, <1>10 DEF TypeInv

\* The loop deletes the player at its cursor and stays within m_Players.
LEMMA DeletePlayerTyped ==
  ASSUME TypeInv, DeletePlayer
  PROVE  TypeInv'
<1>1. /\ cursor \in 1 .. Len(players) /\ Current \in Conns /\ player[Current] \in Player
      /\ Current = players[cursor]
  BY CurrentIsPresent DEF DeletePlayer, Current
<1>2. slots' \in [SIDs -> Slot]
  BY SlotsTyped DEF DeletePlayer, TypeInv, TypeOK
<1>3. player' = [player EXCEPT ![Current] = NoPlayer]
  BY DEF DeletePlayer
<1>4. /\ players \in Seq(Conns)
      /\ players' \in Seq(Conns) /\ Len(players') = Len(players) - 1
      /\ \A i \in 1 .. Len(players') :
            players'[i] = IF i < cursor THEN players[i] ELSE players[i + 1]
  <2>1. players \in Seq(Conns) /\ Len(players) \in Nat
    BY DEF TypeInv, TypeOK
  <2>2. players' = RemoveAt(players, cursor)
    BY DEF DeletePlayer
  <2> QED BY <1>1, <2>1, <2>2, RemoveAtProperties
<1>5. shown' \subseteq PIDs /\ countDownStarted' \in BOOLEAN
  BY DEF DeletePlayer, AbortCountDown, TypeInv, TypeOK
<1>6. TypeOK'
  BY <1>1, <1>2, <1>3, <1>4, <1>5
     DEF DeletePlayer, TypeInv, TypeOK, settings, Phases
<1>7. LoopOK'
  <2>1. phase' = "enter" /\ cursor' = cursor
    BY DEF DeletePlayer
  <2>2. \A i, j \in 1 .. Len(players') : i # j => players'[i] # players'[j]
    BY <1>1, <1>4 DEF TypeInv, LoopOK
  <2>3. \A i \in 1 .. Len(players') : players'[i] # Current
    BY <1>1, <1>4 DEF TypeInv, LoopOK
  <2>4. \A i \in 1 .. Len(players') : players'[i] \in Present
    BY <1>1, <1>4 DEF TypeInv, LoopOK
  <2>5. \A i \in 1 .. Len(players') : players'[i] \in Present'
    BY <1>3, <2>3, <2>4 DEF TypeInv, TypeOK, Present
  <2> QED BY <2>1, <2>2, <2>5 DEF TypeInv, LoopOK
<1> QED BY <1>6, <1>7 DEF TypeInv

(* A step that keeps the players, the PIDs and the position of the loop.     *)
LEMMA QuietTyped ==
  ASSUME TypeInv,
         UNCHANGED << players, virtualHostPID, fakePlayerPID, position, shown >>,
         player' \in PlayerTable, \A c \in Present : player'[c] # NoPlayer,
         slots' \in [SIDs -> Slot],
         owner' \in Names \cup {FirstOwner}, reserved' \subseteq Names,
         countDownStarted' \in BOOLEAN, countDownCounter' \in 0 .. CountDownFrom,
         exiting' \in BOOLEAN
  PROVE  TypeInv'
BY LoopUndisturbed DEF TypeInv, TypeOK, PlayerTable, position

\* Every action keeps types and loop.
LEMMA StepTypeInv == TypeInv /\ [Next]_vars => TypeInv'
<1> SUFFICES ASSUME TypeInv, [Next]_vars PROVE TypeInv'
  OBVIOUS
<1> USE DEF position, settings, countdown
<1>h. /\ player \in PlayerTable /\ \A c \in Present : player[c] # NoPlayer
      /\ slots \in [SIDs -> Slot]
      /\ owner \in Names \cup {FirstOwner} /\ reserved \subseteq Names
      /\ countDownStarted \in BOOLEAN /\ countDownCounter \in 0 .. CountDownFrom
      /\ exiting \in BOOLEAN /\ 0 \in 0 .. CountDownFrom
      /\ CountDownFrom \in 0 .. CountDownFrom
  BY SwitchesAssumption DEF TypeInv, TypeOK, PlayerTable, Present
<1>c. ASSUME phase = "packets"
      PROVE  Current \in Present /\ Current \in Conns /\ player[Current] \in Player
  BY <1>c, CurrentIsPresent, NoPlayerAssumption DEF TypeInv, LoopOK, Present
<1>s. ASSUME NEW sid, sid # None, sid = SIDFromPID(slots, player[Current].pid)
      PROVE  sid \in SIDs
  BY <1>s, SIDFromPIDFinds
<1>1. CASE ReadPackets
  BY <1>1 DEF ReadPackets, TypeInv, TypeOK, LoopOK, Phases, Present
<1>2. CASE DeletePlayer
  BY <1>2, DeletePlayerTyped
<1>3. CASE KeepPlayer
  BY <1>3 DEF KeepPlayer, TypeInv, TypeOK, LoopOK, Phases, Present
<1>4. CASE EndOfPlayers
  BY <1>4 DEF EndOfPlayers, TypeInv, TypeOK, LoopOK, Phases, Present
<1>5. CASE LeaveByPacket
  BY <1>5, <1>c, <1>h, KickTyped, QuietTyped DEF LeaveByPacket, TypeInv
<1>6. CASE MapSize
  <2>1. PICK download \in DownloadStatus :
            LET sid == SIDFromPID(slots, player[Current].pid)
            IN  sid # None /\ slots' = [slots EXCEPT ![sid].download = download]
    BY <1>6 DEF MapSize
  <2> DEFINE sid == SIDFromPID(slots, player[Current].pid)
  <2>2. sid \in SIDs /\ slots' = [slots EXCEPT ![sid].download = download]
    BY <2>1, <1>s
  <2> HIDE DEF sid
  <2>3. [slots[sid] EXCEPT !.download = download] \in Slot
    BY <1>h, <2>2 DEF Slot
  <2>4. slots' \in [SIDs -> Slot]
    BY <1>h, <2>2, <2>3
  <2> QED BY <1>6, <1>h, <2>4, QuietTyped DEF MapSize, NothingButSlots
<1>7. CASE ChangeTeam
  <2>1. PICK new \in SlotsThatAre("open") :
            LET sid == SIDFromPID(slots, player[Current].pid)
            IN  sid # None /\ slots' = Swapped(sid, new)
    BY <1>7 DEF ChangeTeam
  <2>2. new \in SIDs
    BY DEF SlotsThatAre
  <2>3. slots' \in [SIDs -> Slot]
    BY <1>s, <2>1, <2>2, SlotsTyped DEF TypeInv
  <2> QED BY <1>7, <1>h, <2>3, QuietTyped DEF ChangeTeam, NothingButSlots
<1>8. CASE Command
  <2>1. CASE KickCommand
    <3>1. PICK c \in Live : Kick(c)
      BY <2>1 DEF KickCommand
    <3>2. c \in Present
      BY DEF Live, LiveIn, Present
    <3> QED BY <2>1, <3>1, <3>2, <1>h, KickTyped, QuietTyped DEF KickCommand, TypeInv
  <2>2. CASE OpenCommand
    BY <2>2, SlotsTyped, SlotCommandTyped DEF OpenCommand, TypeInv
  <2>3. CASE CloseCommand
    BY <2>3, SlotsTyped, SlotCommandTyped DEF CloseCommand, TypeInv
  <2>4. CASE ComputerCommand
    BY <2>4, SlotsTyped, SlotCommandTyped DEF ComputerCommand, TypeInv
  <2>a. ASSUME NEW command, NEW from, NEW to \in {"open", "closed"},
               AllSlotsCommand(command, from, to)
        PROVE  TypeInv'
    <3>1. \A i \in SIDs : [slots[i] EXCEPT !.status = to] \in Slot
      BY <1>h DEF Slot
    <3>2. slots' \in [SIDs -> Slot]
      BY <2>a, <3>1, <1>h DEF AllSlotsCommand
    <3> QED BY <2>a, <3>2, <1>h, QuietTyped DEF AllSlotsCommand, NothingButSlots
  <2>5. CASE OpenAllCommand
    BY <2>5, <2>a DEF OpenAllCommand
  <2>6. CASE CloseAllCommand
    BY <2>6, <2>a DEF CloseAllCommand
  <2>7. CASE SwapCommand
    <3>1. slots' \in [SIDs -> Slot]
      BY <2>7, SlotsTyped DEF SwapCommand, TypeInv
    <3> QED BY <2>7, <3>1, <1>h, QuietTyped DEF SwapCommand, NothingButSlots
  <2>8. CASE ShuffleCommand
    <3>1. PICK moved \in SUBSET HumanSlots : \E p \in [moved -> moved] :
              slots' = [i \in SIDs |-> IF i \in moved THEN slots[p[i]] ELSE slots[i]]
      BY <2>8 DEF ShuffleCommand
    <3>2. moved \subseteq SIDs
      BY DEF HumanSlots, SlotsThatAre
    <3>3. slots' \in [SIDs -> Slot]
      BY <3>1, <3>2, <1>h
    <3> QED BY <2>8, <3>3, <1>h, QuietTyped DEF ShuffleCommand, NothingButSlots
  <2>9. CASE HoldCommand
    <3>1. PICK name \in Names :
              /\ reserved' = reserved \cup {name}
              /\ player' = [c \in Conns |->
                              IF c \in Present /\ player[c].name = name
                              THEN [player[c] EXCEPT !.reserved = TRUE] ELSE player[c]]
      BY <2>9 DEF HoldCommand
    <3>2. \A c \in Present : player[c] \in Player
                               /\ [player[c] EXCEPT !.reserved = TRUE] \in Player
      BY <1>h DEF PlayerTable, Present, Player
    <3>3. player' \in PlayerTable /\ \A c \in Present : player'[c] # NoPlayer
      BY <3>1, <3>2, <1>h, NoPlayerAssumption DEF PlayerTable, Present
    <3> QED BY <2>9, <3>1, <3>3, <1>h, QuietTyped DEF HoldCommand
  <2>10. CASE OwnerCommand
    BY <2>10, <1>h, QuietTyped DEF OwnerCommand
  <2>11. CASE CreateFakePlayer
    <3>1. virtualHostPID' \in PIDs \cup {None}
      BY <2>11 DEF CreateFakePlayer, HostMakingRoom, TypeInv, TypeOK
    <3>2. fakePlayerPID' \in PIDs
      BY <2>11, <3>1, <1>h, NewPIDIsFresh DEF CreateFakePlayer, PlayerTable
    <3>3. PlayersSlot(fakePlayerPID', 100) \in Slot
      BY <3>2, SlotsTyped, DownloadAssumption DEF TypeInv
    <3>4. slots' \in [SIDs -> Slot] /\ shown' \subseteq PIDs
      BY <2>11, <3>2, <3>3, <1>h DEF CreateFakePlayer, TypeInv, TypeOK
    <3> QED BY <2>11, <3>1, <3>2, <3>4, <1>h, LoopUndisturbed
            DEF CreateFakePlayer, TypeInv, TypeOK
  <2>12. CASE DeleteFakePlayer
    <3>1. slots' \in [SIDs -> Slot] /\ shown' \subseteq PIDs
      BY <2>12, SlotsTyped, <1>h DEF DeleteFakePlayer, TypeInv, TypeOK
    <3> QED BY <2>12, <3>1, <1>h, LoopUndisturbed DEF DeleteFakePlayer, TypeInv, TypeOK
  <2>13. CASE VirtualHostCommand
    BY <2>13, <1>h, LoopUndisturbed DEF VirtualHostCommand, TypeInv, TypeOK
  <2>14. CASE UnhostCommand
    BY <2>14, <1>h, QuietTyped DEF UnhostCommand
  <2>15. CASE StartCommand
    BY <2>15, <1>h, QuietTyped DEF StartCommand, BeginCountDown
  <2>16. CASE StartNowCommand
    <3>1. CountDownMayStart(TRUE) \in BOOLEAN
      BY DEF CountDownMayStart
    <3> QED BY <2>16, <3>1, <1>h, QuietTyped DEF StartNowCommand
  <2>17. CASE AbortCommand
    BY <2>17, <1>h, QuietTyped DEF AbortCommand
  <2> QED BY <1>8, <2>1, <2>2, <2>3, <2>4, <2>5, <2>6, <2>7, <2>8, <2>9, <2>10, <2>11,
             <2>12, <2>13, <2>14, <2>15, <2>16, <2>17 DEF Command
<1>9. CASE \E c \in Conns, name \in Names, lan \in BOOLEAN : Join(c, name, lan)
  BY <1>9, JoinTyped
<1>10. CASE EndOfPotentials
  <2>1. virtualHostPID' \in PIDs \cup {None} /\ shown' \subseteq PIDs
    <3>1. NewPID(player, None, fakePlayerPID) \in PIDs
      BY <1>h, NewPIDIsFresh DEF TypeInv, TypeOK
    <3> QED BY <1>10, <3>1 DEF EndOfPotentials, TypeInv, TypeOK
  <2> QED BY <1>10, <2>1 DEF EndOfPotentials, TypeInv, TypeOK, LoopOK, Phases, Present
<1>11. CASE KickUnspoofed
  <2>1. PICK late \in SUBSET Present :
          /\ player' = [c \in Conns |->
                          IF c \in late THEN [player[c] EXCEPT !.deleteMe = TRUE]
                          ELSE player[c]]
          /\ slots' = [i \in SIDs |->
                          IF \E c \in late : i = SIDFromPID(slots, player[c].pid)
                          THEN OpenedSlot ELSE slots[i]]
    <3>1. PICK k \in 0 .. settled :
            LET late == IF countDownStarted \/ ~RequireSpoofChecks THEN {}
                        ELSE {c \in Present : ~player[c].spoofed
                                                /\ \E i \in 1 .. k : players[i] = c}
            IN  /\ player' = [c \in Conns |->
                                IF c \in late THEN [player[c] EXCEPT !.deleteMe = TRUE]
                                ELSE player[c]]
                /\ slots' = [i \in SIDs |->
                                IF \E c \in late : i = SIDFromPID(slots, player[c].pid)
                                THEN OpenedSlot ELSE slots[i]]
      BY <1>11 DEF KickUnspoofed
    <3> DEFINE late == IF countDownStarted \/ ~RequireSpoofChecks THEN {}
                       ELSE {c \in Present : ~player[c].spoofed
                                               /\ \E i \in 1 .. k : players[i] = c}
    <3>2. late \in SUBSET Present
      OBVIOUS
    <3> HIDE DEF late
    <3> QED BY <3>1, <3>2, Zenon DEF late
  <2>2. player' \in PlayerTable /\ \A c \in Present : player'[c] # NoPlayer
    BY <2>1, MarkedTable DEF TypeInv
  <2>3. slots' \in [SIDs -> Slot]
    BY <2>1, <1>h, SlotsTyped DEF TypeInv
  <2>4. LoopOK'
    BY <1>11, <2>2, LoopUndisturbed DEF KickUnspoofed, TypeInv
  <2> QED BY <1>11, <2>2, <2>3, <2>4
          DEF KickUnspoofed, TypeInv, TypeOK, Phases, PlayerTable
<1>12. CASE AutoStart
  BY <1>12, <1>h, LoopUndisturbed
     DEF AutoStart, BeginCountDown, TypeInv, TypeOK, Phases
<1>13. CASE NoAutoStart
  BY <1>13, <1>h, LoopUndisturbed DEF NoAutoStart, TypeInv, TypeOK, Phases
<1>14. CASE CountDown
  BY <1>14, <1>h, LoopUndisturbed DEF CountDown, EndOfUpdate, TypeInv, TypeOK, Phases
<1>15. CASE NoCountDown
  BY <1>15, <1>h, LoopUndisturbed DEF NoCountDown, EndOfUpdate, TypeInv, TypeOK, Phases
<1>16. CASE EventGameStarted
  BY <1>16, <1>h, LoopUndisturbed DEF EventGameStarted, TypeInv, TypeOK, Phases
<1>17. CASE AddToSpoofed
  <2>1. PICK c \in Live : player' = [player EXCEPT ![c].spoofed = TRUE]
    BY <1>17 DEF AddToSpoofed
  <2>2. c \in Conns /\ player[c] \in Player /\ [player[c] EXCEPT !.spoofed = TRUE] \in Player
    BY <1>h DEF Live, LiveIn, PlayerTable, Player
  <2>3. player' \in PlayerTable /\ \A d \in Present : player'[d] # NoPlayer
    BY <1>h, <2>1, <2>2, NoPlayerAssumption DEF PlayerTable, Present
  <2> QED BY <1>17, <1>h, <2>3, QuietTyped DEF AddToSpoofed
<1>18. CASE NextUpdate
  BY <1>18, <1>h, LoopUndisturbed DEF NextUpdate, TypeInv, TypeOK, Phases
<1>19. CASE UNCHANGED vars
  BY <1>19 DEF vars, TypeInv, TypeOK, LoopOK, Present
<1> QED BY <1>1, <1>2, <1>3, <1>4, <1>5, <1>6, <1>7, <1>8, <1>9, <1>10, <1>11, <1>12,
           <1>13, <1>14, <1>15, <1>16, <1>17, <1>18, <1>19 DEF Next, Over

(* Every variable keeps its type: in particular the loop over m_Players never *)
(* looks at a player that was deleted, and a PID or a slot is always found    *)
(* where the code uses one unchecked (CBaseGame::Update, EventPlayerJoined).  *)
THEOREM TypeCorrect == Spec => []TypeOK
<1>1. TypeInv => TypeOK
  BY DEF TypeInv
<1> QED BY <1>1, InitTypeInv, StepTypeInv, PTL DEF Spec

-----------------------------------------------------------------------------
(* Who is in the lobby, and under which PID.                                *)

\* A step in which nobody joins and nobody leaves.
SamePlayers == Live' = Live /\ \A c \in Live : player'[c].pid = player[c].pid

Removal == DeletePlayer \/ \E c \in Conns, name \in Names, lan \in BOOLEAN : Join(c, name, lan)

\* Marking players changes nobody's identity.
LEMMA MarkedSame ==
  ASSUME TypeOK, NEW T \in SUBSET Present,
         player' = [c \in Conns |-> IF c \in T
                        THEN [player[c] EXCEPT !.deleteMe = TRUE] ELSE player[c]]
  PROVE  SamePlayers
<1>1. ASSUME NEW c \in Conns
      PROVE  /\ (player'[c] # NoPlayer) <=> (player[c] # NoPlayer)
             /\ c \in Present => /\ player'[c].pid = player[c].pid
                                 /\ player'[c].leftMessageSent = player[c].leftMessageSent
  <2>1. CASE c \in T
    <3>1. player[c] \in Player /\ player'[c] = [player[c] EXCEPT !.deleteMe = TRUE]
      BY <2>1 DEF TypeOK, Present
    <3>2. player'[c] \in Player
      BY <3>1 DEF Player
    <3> QED BY <3>1, <3>2, NoPlayerAssumption DEF Player
  <2>2. CASE c \notin T
    BY <2>2
  <2> QED BY <2>1, <2>2
<1> QED BY <1>1 DEF SamePlayers, Live, LiveIn, Present

\* Nor does a kick.
LEMMA KickSame ==
  ASSUME TypeOK, NEW c \in Present, Kick(c)
  PROVE  SamePlayers
<1>1. player' = [d \in Conns |-> IF d \in {c} THEN [player[d] EXCEPT !.deleteMe = TRUE]
                                 ELSE player[d]]
  BY DEF Kick, TypeOK
<1> QED BY <1>1, MarkedSame

\* Only a join, a displacement and a deletion change who is there under which PID.
LEMMA OthersKeepPlayers ==
  ASSUME TypeInv, [Next]_vars, ~ Removal
  PROVE  SamePlayers
<1>1. CASE player' = player
  BY <1>1 DEF SamePlayers, Live, LiveIn
<1>2. CASE LeaveByPacket
  BY <1>2, CurrentIsPresent, KickSame, NoPlayerAssumption
     DEF LeaveByPacket, TypeInv, LoopOK, Present
<1>3. CASE KickCommand
  BY <1>3, KickSame, SeatedIsPresent DEF KickCommand, TypeInv
<1>4. ASSUME NEW command, NEW newSlot, SlotCommand(command, newSlot)
      PROVE  SamePlayers
  BY <1>4, MarkedSame, SeatedIsPresent DEF SlotCommand, EvictedFrom, TypeInv
<1>5. CASE HoldCommand
  <2>1. PICK name : player' = [c \in Conns |->
                        IF c \in Present /\ player[c].name = name
                        THEN [player[c] EXCEPT !.reserved = TRUE] ELSE player[c]]
    BY <1>5 DEF HoldCommand
  <2>2. ASSUME NEW c \in Conns
        PROVE  /\ (player'[c] # NoPlayer) <=> (player[c] # NoPlayer)
               /\ c \in Present =>
                    /\ player'[c].pid = player[c].pid
                    /\ player'[c].leftMessageSent = player[c].leftMessageSent
    <3>1. CASE c \in Present
      <4>1. /\ player[c] \in Player
            /\ player'[c] \in {player[c], [player[c] EXCEPT !.reserved = TRUE]}
        BY <2>1, <3>1 DEF TypeInv, TypeOK, Present
      <4>2. player'[c] \in Player
        BY <4>1 DEF Player
      <4> QED BY <4>1, <4>2, NoPlayerAssumption DEF Player
    <3>2. CASE c \notin Present
      BY <2>1, <3>2
    <3> QED BY <3>1, <3>2
  <2> QED BY <2>2 DEF SamePlayers, Live, LiveIn, Present
<1>6. CASE KickUnspoofed
  <2>1. PICK k \in 0 .. settled :
          LET late == IF countDownStarted \/ ~RequireSpoofChecks THEN {}
                      ELSE {c \in Present : ~player[c].spoofed
                                              /\ \E i \in 1 .. k : players[i] = c}
          IN  player' = [c \in Conns |->
                            IF c \in late THEN [player[c] EXCEPT !.deleteMe = TRUE]
                            ELSE player[c]]
    BY <1>6 DEF KickUnspoofed
  <2> QED BY <2>1, MarkedSame DEF TypeInv
<1>7. CASE AddToSpoofed
  <2>1. PICK c \in Live : player' = [player EXCEPT ![c].spoofed = TRUE]
    BY <1>7 DEF AddToSpoofed
  <2>2. c \in Conns /\ player[c] \in Player /\ [player[c] EXCEPT !.spoofed = TRUE] \in Player
    BY DEF Live, LiveIn, TypeInv, TypeOK, Player
  <2>3. /\ \A d \in Conns \ {c} : player'[d] = player[d]
        /\ player'[c] # NoPlayer /\ player'[c].pid = player[c].pid
        /\ player'[c].leftMessageSent = player[c].leftMessageSent
    BY <2>1, <2>2, NoPlayerAssumption DEF TypeInv, TypeOK, Player
  <2> QED BY <2>2, <2>3 DEF SamePlayers, Live, LiveIn
<1>8. CASE Command
  <2>1. CASE OpenCommand \/ CloseCommand \/ ComputerCommand
    BY <2>1, <1>4 DEF OpenCommand, CloseCommand, ComputerCommand
  <2>2. CASE KickCommand \/ HoldCommand
    BY <2>2, <1>3, <1>5
  <2>3. CASE \/ OpenAllCommand \/ CloseAllCommand \/ SwapCommand \/ ShuffleCommand
             \/ OwnerCommand \/ CreateFakePlayer \/ DeleteFakePlayer
             \/ VirtualHostCommand \/ UnhostCommand
             \/ StartCommand \/ StartNowCommand \/ AbortCommand
    BY <2>3, <1>1 DEF OpenAllCommand, CloseAllCommand, AllSlotsCommand, SwapCommand,
          ShuffleCommand, NothingButSlots, OwnerCommand, CreateFakePlayer, DeleteFakePlayer,
          VirtualHostCommand, UnhostCommand, StartCommand, StartNowCommand,
          BeginCountDown, AbortCommand
  <2> QED BY <1>8, <2>1, <2>2, <2>3 DEF Command
<1>9. CASE \/ ReadPackets \/ KeepPlayer \/ EndOfPlayers \/ MapSize \/ ChangeTeam
           \/ EndOfPotentials \/ AutoStart \/ NoAutoStart \/ CountDown \/ NoCountDown
           \/ EventGameStarted \/ NextUpdate \/ UNCHANGED vars
  BY <1>9, <1>1 DEF ReadPackets, KeepPlayer, EndOfPlayers, MapSize, ChangeTeam,
        NothingButSlots, EndOfPotentials, AutoStart, BeginCountDown, NoAutoStart,
        CountDown, NoCountDown, EventGameStarted, NextUpdate, vars
<1> QED BY <1>2, <1>6, <1>7, <1>8, <1>9 DEF Removal, Next, Over

\* What a deletion does to the players.
LEMMA DeletedIsGone ==
  ASSUME TypeInv, DeletePlayer
  PROVE  /\ Current \in Present /\ player' = [player EXCEPT ![Current] = NoPlayer]
         /\ Present' = Present \ {Current} /\ Live' = Live \ {Current}
         /\ \A c \in Present \ {Current} : player'[c] = player[c]
<1>1. Current \in Conns /\ player[Current] \in Player
  BY CurrentIsPresent DEF DeletePlayer
<1>2. player' = [player EXCEPT ![Current] = NoPlayer]
  BY DEF DeletePlayer
<1>3. player'[Current] = NoPlayer /\ \A c \in Conns \ {Current} : player'[c] = player[c]
  BY <1>1, <1>2 DEF TypeInv, TypeOK
<1> QED BY <1>1, <1>2, <1>3, NoPlayerAssumption DEF Present, Live, LiveIn

(* What a join does to the players: those who sit in the newcomer's slot (out) *)
(* are marked and announced, and the newcomer's PID is nobody's.              *)
Newcomer(c, name, lan, out, pid) ==
    /\ c \notin Present /\ out \subseteq Live
    /\ player'[c] = [name |-> name, pid |-> pid, reserved |-> IsReserved(name),
                     spoofed |-> lan, deleteMe |-> FALSE, leftMessageSent |-> FALSE]
    /\ Present' = Present \cup {c} /\ Live' = (Live \ out) \cup {c}
    /\ \A d \in Live \ out : player'[d] = player[d]
    /\ virtualHostPID' \in {virtualHostPID, None}
    /\ pid \in PIDs /\ pid \notin {virtualHostPID', fakePlayerPID}
    /\ \A d \in Live \ out : player[d].pid # pid
    /\ shown' = (shown \ ({player[d].pid : d \in out} \cup
                         (IF virtualHostPID' = None THEN {virtualHostPID} ELSE {})))
                   \cup {pid}
    /\ countDownStarted' = FALSE /\ fakePlayerPID' = fakePlayerPID /\ owner' = owner

\* What a join does to players and slots, with the newcomer's PID.
LEMMA JoinPlayers ==
  ASSUME TypeInv, NEW c \in Conns, NEW name \in Names, NEW lan \in BOOLEAN,
         Join(c, name, lan)
  PROVE  /\ Newcomer(c, name, lan, SeatedAt(SlotFor(name)), player'[c].pid)
         /\ slots' = [slots EXCEPT ![SlotFor(name)] = PlayersSlot(player'[c].pid, 255)]
<1> DEFINE sid  == SlotFor(name)
           out  == SeatedAt(sid)
           left == [d \in Conns |-> IF d \in out
                                    THEN [player[d] EXCEPT !.deleteMe = TRUE,
                                                           !.leftMessageSent = TRUE]
                                    ELSE player[d]]
           host == HostMakingRoom(NumPlayersIn(left, fakePlayerPID))
           pid  == NewPID(left, host, fakePlayerPID)
           new  == [name |-> name, pid |-> pid, reserved |-> IsReserved(name),
                    spoofed |-> lan, deleteMe |-> FALSE, leftMessageSent |-> FALSE]
           gone == {player[d].pid : d \in out}
                     \cup (IF host = None THEN {virtualHostPID} ELSE {})
<1>1. out \subseteq Live /\ Live \subseteq Present /\ Present \subseteq Conns
  BY SeatedIsPresent
<1>2. ASSUME NEW d \in out
      PROVE  /\ player[d] \in Player /\ left[d] \in Player
             /\ left[d].leftMessageSent = TRUE
  <2>1. player[d] \in Player
    BY <1>1 DEF TypeInv, TypeOK, Present
  <2>2. left[d] = [player[d] EXCEPT !.deleteMe = TRUE, !.leftMessageSent = TRUE]
    BY <1>1
  <2> HIDE DEF left
  <2> QED BY <2>1, <2>2 DEF Player
<1>3. \A d \in Conns \ out : left[d] = player[d]
  OBVIOUS
<1>4. left \in PlayerTable
  <2>1. \A d \in Conns : left[d] \in Player \cup {NoPlayer}
    BY <1>2, <1>3 DEF TypeInv, TypeOK
  <2> QED BY <2>1 DEF PlayerTable
<1> HIDE DEF left
<1>5. LiveIn(left) = Live \ out
  BY <1>1, <1>2, <1>3, NoPlayerAssumption DEF Live, LiveIn
<1>6. host \in {virtualHostPID, None}
  BY DEF HostMakingRoom
<1> HIDE DEF host, out
<1>7. pid \in PIDs \ UsedPIDs(left, host, fakePlayerPID)
  BY <1>4, <1>6, NewPIDIsFresh DEF PlayerTable, TypeInv, TypeOK
<1> HIDE DEF pid
<1>8. pid \in PIDs /\ pid \notin {host, fakePlayerPID}
        /\ \A d \in Live \ out : player[d].pid # pid
  BY <1>1, <1>3, <1>5, <1>7 DEF UsedPIDs
<1> HIDE DEF gone, new
<1>9. /\ player[c] = NoPlayer /\ virtualHostPID' = host
      /\ player' = [left EXCEPT ![c] = new]
      /\ shown' = (shown \ gone) \cup {pid}
      /\ slots' = [slots EXCEPT ![SlotFor(name)] = PlayersSlot(pid, 255)]
      /\ countDownStarted' = FALSE /\ fakePlayerPID' = fakePlayerPID /\ owner' = owner
  BY DEF Join, AbortCountDown, settings, sid, out, left, host, pid, gone, new
<1>10. c \notin Present
  BY <1>9 DEF Present
<1>11. player'[c] = new /\ \A d \in Conns \ {c} : player'[d] = left[d]
  BY <1>4, <1>9 DEF PlayerTable
<1>12. new.pid = pid /\ new # NoPlayer /\ new.leftMessageSent = FALSE
  <2>1. new \in Player
    BY <1>8 DEF new, Player, IsReserved
  <2> QED BY <2>1, NoPlayerAssumption DEF new
<1>13. Present' = Present \cup {c}
  BY <1>1, <1>2, <1>3, <1>11, <1>12, NoPlayerAssumption DEF Present
<1>14. Live' = (Live \ out) \cup {c}
  BY <1>5, <1>11, <1>12 DEF Live, LiveIn
<1>15. \A d \in Live \ out : player'[d] = player[d]
  BY <1>1, <1>3, <1>10, <1>11
<1>16. player'[c] = [name |-> name, pid |-> player'[c].pid, reserved |-> IsReserved(name),
                     spoofed |-> lan, deleteMe |-> FALSE, leftMessageSent |-> FALSE]
  BY <1>11, <1>12 DEF new
<1> QED BY <1>1, <1>6, <1>8, <1>9, <1>10, <1>11, <1>12, <1>13, <1>14, <1>15, <1>16
        DEF Newcomer, out, sid, gone

Identity == PIDsUnique /\ ShownAccurate

\* Who keeps players, PIDs and what was shown keeps what clients know.
LEMMA SameIdentity ==
  ASSUME Identity, SamePlayers, UNCHANGED << virtualHostPID, fakePlayerPID, shown >>
  PROVE  Identity'
BY DEF Identity, SamePlayers, PIDsUnique, ShownAccurate

\* Every action keeps PIDs unique and clients informed.
LEMMA StepIdentity == TypeInv /\ Identity /\ [Next]_vars => Identity'
<1> SUFFICES ASSUME TypeInv, Identity, [Next]_vars PROVE Identity'
  OBVIOUS
<1>p. \A c \in Live : player[c] \in Player /\ player[c].pid \in PIDs
  BY DEF Live, LiveIn, TypeInv, TypeOK, Player
<1>n. None \notin PIDs
  BY PIDsAssumption DEF PIDs
<1>t. /\ virtualHostPID \in PIDs \cup {None} /\ fakePlayerPID \in PIDs \cup {None}
      /\ player \in PlayerTable
  BY DEF TypeInv, TypeOK, PlayerTable
<1>1. CASE DeletePlayer
  <2>1. /\ Live' = Live \ {Current} /\ Current \in Present
        /\ \A c \in Live \ {Current} : player'[c] = player[c]
    BY <1>1, DeletedIsGone, SeatedIsPresent
  <2>2. UNCHANGED << virtualHostPID, fakePlayerPID >>
    BY <1>1 DEF DeletePlayer
  <2>3. PIDsUnique'
    BY <2>1, <2>2 DEF Identity, PIDsUnique
  <2>4. CASE AlreadyAnnounced(Current)
    <3>1. Current \notin Live /\ shown' = shown
      BY <1>1, <2>4 DEF DeletePlayer, AlreadyAnnounced, Live, LiveIn
    <3> QED BY <2>1, <2>2, <2>3, <3>1 DEF Identity, ShownAccurate
  <2>5. CASE ~AlreadyAnnounced(Current)
    <3>1. Current \in Live /\ shown' = shown \ {player[Current].pid}
      BY <1>1, <2>1, <2>5 DEF DeletePlayer, AlreadyAnnounced, Live, LiveIn, Present
    <3> QED BY <2>1, <2>2, <2>3, <3>1 DEF Identity, PIDsUnique, ShownAccurate
  <2> QED BY <2>4, <2>5
<1>2. CASE \E c \in Conns, name \in Names, lan \in BOOLEAN : Join(c, name, lan)
  <2>1. PICK c \in Conns, name \in Names, lan \in BOOLEAN : Join(c, name, lan)
    BY <1>2
  <2> DEFINE out == SeatedAt(SlotFor(name))
             pid == player'[c].pid
             gone == {player[d].pid : d \in out}
                       \cup (IF virtualHostPID' = None THEN {virtualHostPID} ELSE {})
  <2>2. /\ c \notin Live /\ out \subseteq Live
        /\ Live' = (Live \ out) \cup {c}
        /\ \A d \in Live \ out : player'[d] = player[d] /\ player[d].pid # pid
        /\ virtualHostPID' \in {virtualHostPID, None} /\ fakePlayerPID' = fakePlayerPID
        /\ pid \in PIDs /\ pid \notin {virtualHostPID', fakePlayerPID}
        /\ shown' = (shown \ gone) \cup {pid}
    <3>1. Newcomer(c, name, lan, out, pid)
      BY <2>1, JoinPlayers
    <3>2. c \notin Live
      BY <3>1 DEF Newcomer, Live, LiveIn, Present
    <3> HIDE DEF out, pid
    <3> QED BY <3>1, <3>2 DEF Newcomer
  <2> HIDE DEF out, pid
  <2>3. PIDsUnique'
    <3>1. \A d, e \in Live' : d # e => player'[d].pid # player'[e].pid
      BY <2>2 DEF pid, Identity, PIDsUnique
    <3>2. \A d \in Live' : player'[d].pid \notin {virtualHostPID', fakePlayerPID'}
      <4>1. player'[c].pid \notin {virtualHostPID', fakePlayerPID'}
        BY <2>2 DEF pid
      <4>2. \A d \in Live \ out : player'[d].pid \notin {virtualHostPID', fakePlayerPID'}
        BY <2>2, <1>p, <1>n DEF Identity, PIDsUnique
      <4> QED BY <2>2, <4>1, <4>2
    <3>3. virtualHostPID' = None \/ virtualHostPID' # fakePlayerPID'
      BY <2>2 DEF Identity, PIDsUnique
    <3> QED BY <3>1, <3>2, <3>3 DEF PIDsUnique
  <2>4. shown \ gone = {player[d].pid : d \in Live \ out}
                          \cup ({virtualHostPID', fakePlayerPID} \ {None})
    <3>1. {player[d].pid : d \in Live} \ gone = {player[d].pid : d \in Live \ out}
      BY <2>2, <1>p, <1>n DEF Identity, PIDsUnique
    <3>2. ({virtualHostPID, fakePlayerPID} \ {None}) \ gone
            = {virtualHostPID', fakePlayerPID} \ {None}
      BY <2>2, <1>p, <1>n DEF Identity, PIDsUnique
    <3> HIDE DEF gone
    <3> QED BY <3>1, <3>2 DEF Identity, ShownAccurate
  <2>5. {player'[d].pid : d \in Live'} = {player[d].pid : d \in Live \ out} \cup {pid}
    BY <2>2 DEF pid
  <2> QED BY <2>2, <2>3, <2>4, <2>5 DEF Identity, ShownAccurate
<1>3. CASE ~ Removal
  <2>1. SamePlayers
    BY <1>3, OthersKeepPlayers
  <2>2. CASE CreateFakePlayer
    <3>1. /\ fakePlayerPID = None /\ player' = player
          /\ virtualHostPID' \in {virtualHostPID, None}
          /\ shown' = (IF virtualHostPID' = None THEN shown \ {virtualHostPID} ELSE shown)
                        \cup {fakePlayerPID'}
      BY <2>2 DEF CreateFakePlayer, HostMakingRoom
    <3>2. fakePlayerPID' = NewPID(player, virtualHostPID', None)
      BY <2>2 DEF CreateFakePlayer
    <3>3. fakePlayerPID' \in PIDs \ UsedPIDs(player, virtualHostPID', None)
      BY <3>1, <3>2, <1>t, NewPIDIsFresh DEF PlayerTable
    <3>4. fakePlayerPID' # virtualHostPID' /\ \A c \in Live : player[c].pid # fakePlayerPID'
      BY <3>3 DEF UsedPIDs, Live
    <3>5. PIDsUnique'
      BY <2>1, <3>1, <3>3, <3>4, <1>p, <1>n DEF SamePlayers, Identity, PIDsUnique
    <3>6. ShownAccurate'
      BY <2>1, <3>1, <3>3, <3>4, <1>p, <1>n
         DEF SamePlayers, Identity, PIDsUnique, ShownAccurate
    <3> QED BY <3>5, <3>6 DEF Identity
  <2>3. CASE DeleteFakePlayer
    <3>1. /\ fakePlayerPID # None /\ shown' = shown \ {fakePlayerPID}
          /\ fakePlayerPID' = None /\ virtualHostPID' = virtualHostPID
      BY <2>3 DEF DeleteFakePlayer
    <3> QED BY <2>1, <3>1, <1>p, <1>n
            DEF SamePlayers, Identity, PIDsUnique, ShownAccurate
  <2>4. CASE VirtualHostCommand \/ EventGameStarted
    <3>1. /\ virtualHostPID' = None /\ shown' = shown \ {virtualHostPID}
          /\ fakePlayerPID' = fakePlayerPID
      BY <2>4 DEF VirtualHostCommand, EventGameStarted
    <3> QED BY <2>1, <3>1, <1>p, <1>n
            DEF SamePlayers, Identity, PIDsUnique, ShownAccurate
  <2>5. CASE EndOfPotentials
    <3>1. NewPID(player, None, fakePlayerPID) \in PIDs \ UsedPIDs(player, None, fakePlayerPID)
      BY <1>t, NewPIDIsFresh DEF PlayerTable
    <3>2. \/ UNCHANGED << virtualHostPID, shown >>
          \/ /\ virtualHostPID = None
             /\ virtualHostPID' = NewPID(player, None, fakePlayerPID)
             /\ shown' = shown \cup {virtualHostPID'}
      BY <2>5 DEF EndOfPotentials
    <3>3. fakePlayerPID' = fakePlayerPID
      BY <2>5 DEF EndOfPotentials
    <3>4. CASE UNCHANGED << virtualHostPID, shown >>
      BY <2>1, <3>3, <3>4, SameIdentity
    <3>5. CASE virtualHostPID = None
                 /\ virtualHostPID' = NewPID(player, None, fakePlayerPID)
                 /\ shown' = shown \cup {virtualHostPID'}
      <4>1. virtualHostPID' \in PIDs /\ virtualHostPID' # fakePlayerPID
              /\ \A c \in Live : player[c].pid # virtualHostPID'
        BY <3>1, <3>5 DEF UsedPIDs, Live
      <4> QED BY <2>1, <3>3, <3>5, <4>1, <1>n
              DEF SamePlayers, Identity, PIDsUnique, ShownAccurate
    <3> QED BY <3>2, <3>4, <3>5
  <2>6. CASE UNCHANGED << virtualHostPID, fakePlayerPID, shown >>
    BY <2>1, <2>6, SameIdentity
  <2>7. CASE Command
    BY <2>7, <2>2, <2>3, <2>4, <2>6
       DEF Command, KickCommand, OpenCommand, CloseCommand, ComputerCommand, SlotCommand,
           OpenAllCommand, CloseAllCommand, AllSlotsCommand, SwapCommand, ShuffleCommand,
           NothingButSlots, HoldCommand, OwnerCommand, UnhostCommand, StartCommand,
           StartNowCommand, BeginCountDown, AbortCommand
  <2>8. CASE \/ ReadPackets \/ KeepPlayer \/ EndOfPlayers \/ LeaveByPacket \/ MapSize
             \/ ChangeTeam \/ KickUnspoofed \/ AutoStart \/ NoAutoStart \/ CountDown
             \/ NoCountDown \/ AddToSpoofed \/ NextUpdate \/ UNCHANGED vars
    BY <2>8, <2>6 DEF ReadPackets, KeepPlayer, EndOfPlayers, LeaveByPacket, MapSize,
          ChangeTeam, NothingButSlots, KickUnspoofed, AutoStart, BeginCountDown,
          NoAutoStart, CountDown, NoCountDown, AddToSpoofed, NextUpdate, vars
  <2> QED BY <1>3, <2>4, <2>5, <2>7, <2>8 DEF Removal, Next, Over
<1> QED BY <1>1, <1>2, <1>3 DEF Removal

(* For any number of players, names and slots, and whatever the order of      *)
(* kicks, displacements, joins and deletions: no two players that count have  *)
(* one PID, nor do the virtual host and the fake player, and the clients were *)
(* told of exactly these (GetNewPID, EventPlayerJoined, EventPlayerDeleted).  *)
THEOREM ClientsKnowWhoIsThere == Spec => []ClientsViewOK
<1>1. Init => Identity
  BY DEF Init, Identity, PIDsUnique, ShownAccurate, Live, LiveIn
<1>2. TypeInv /\ Identity => ClientsViewOK
  BY DEF TypeInv, Identity, ClientsViewOK
<1> QED BY <1>1, <1>2, InitTypeInv, StepTypeInv, StepIdentity, PTL DEF Spec

-----------------------------------------------------------------------------
(* The lobby does not change while it counts down, except by abortion.        *)

(* A game starts with the players its countdown was started for (the abortion *)
(* of the countdown in EventPlayerDeleted and EventPlayerJoined).             *)
THEOREM CountDownKeepsPlayers == Spec => LobbyFrozen
<1>1. TypeInv /\ [Next]_vars => (Live' # Live => ~countDownStarted')
  <2> SUFFICES ASSUME TypeInv, [Next]_vars, Live' # Live PROVE ~countDownStarted'
    OBVIOUS
  <2>1. CASE DeletePlayer
    <3>1. Current \in Live
      BY <2>1, DeletedIsGone
    <3>2. ~AlreadyAnnounced(Current)
      BY <3>1 DEF AlreadyAnnounced, Live, LiveIn
    <3> QED BY <2>1, <3>2 DEF DeletePlayer, AbortCountDown
  <2>2. CASE \E c \in Conns, name \in Names, lan \in BOOLEAN : Join(c, name, lan)
    BY <2>2, JoinPlayers DEF Newcomer
  <2>3. CASE ~ Removal
    BY <2>3, OthersKeepPlayers DEF SamePlayers
  <2> QED BY <2>1, <2>2, <2>3 DEF Removal
<1> QED BY <1>1, InitTypeInv, StepTypeInv, PTL DEF Spec, LobbyFrozen

-----------------------------------------------------------------------------
(* Spoof checks.                                                              *)

Joining == \E c \in Conns, name \in Names, lan \in BOOLEAN : Join(c, name, lan)

\* Nobody joins, and nobody who was spoof checked no longer is.
KeepsSpoofed ==
    \A c \in Present' : c \in Present /\ (player[c].spoofed => player'[c].spoofed)

\* Marking players changes nobody's spoof check.
LEMMA MarkedKeepsSpoofed ==
  ASSUME TypeOK, NEW T \in SUBSET Present,
         player' = [c \in Conns |-> IF c \in T
                        THEN [player[c] EXCEPT !.deleteMe = TRUE] ELSE player[c]]
  PROVE  KeepsSpoofed
<1>1. ASSUME NEW c \in Present' PROVE c \in Present /\ (player[c].spoofed => player'[c].spoofed)
  <2>1. CASE c \in T
    <3>1. player[c] \in Player /\ player'[c] = [player[c] EXCEPT !.deleteMe = TRUE]
      BY <2>1 DEF TypeOK, Present
    <3> QED BY <2>1, <3>1 DEF Player
  <2>2. CASE c \notin T
    BY <2>2 DEF Present
  <2> QED BY <2>1, <2>2
<1> QED BY <1>1 DEF KeepsSpoofed

\* Only a join brings in a player who is not spoof checked.
LEMMA OthersKeepSpoofed ==
  ASSUME TypeInv, [Next]_vars, ~ Joining
  PROVE  KeepsSpoofed
<1>1. CASE player' = player
  BY <1>1 DEF KeepsSpoofed, Present
<1>2. ASSUME NEW c \in Present, Kick(c) PROVE KeepsSpoofed
  <2>1. player' = [d \in Conns |-> IF d \in {c} THEN [player[d] EXCEPT !.deleteMe = TRUE]
                                   ELSE player[d]]
    BY <1>2 DEF Kick, TypeInv, TypeOK
  <2> QED BY <2>1, MarkedKeepsSpoofed DEF TypeInv
<1>3. CASE LeaveByPacket
  BY <1>3, <1>2, CurrentIsPresent, NoPlayerAssumption
     DEF LeaveByPacket, TypeInv, LoopOK, Present
<1>4. CASE KickCommand
  BY <1>4, <1>2, SeatedIsPresent DEF KickCommand
<1>5. ASSUME NEW command, NEW newSlot, SlotCommand(command, newSlot)
      PROVE  KeepsSpoofed
  BY <1>5, MarkedKeepsSpoofed, SeatedIsPresent DEF SlotCommand, EvictedFrom, TypeInv
<1>6. CASE HoldCommand
  <2>1. PICK name : player' = [c \in Conns |->
                        IF c \in Present /\ player[c].name = name
                        THEN [player[c] EXCEPT !.reserved = TRUE] ELSE player[c]]
    BY <1>6 DEF HoldCommand
  <2>2. ASSUME NEW c \in Present'
        PROVE  c \in Present /\ (player[c].spoofed => player'[c].spoofed)
    <3>1. CASE c \in Present
      <4>1. /\ player[c] \in Player
            /\ player'[c] \in {player[c], [player[c] EXCEPT !.reserved = TRUE]}
        BY <2>1, <3>1 DEF TypeInv, TypeOK, Present
      <4> QED BY <3>1, <4>1 DEF Player
    <3>2. CASE c \notin Present
      BY <2>1, <3>2 DEF Present
    <3> QED BY <3>1, <3>2
  <2> QED BY <2>2 DEF KeepsSpoofed
<1>7. CASE KickUnspoofed
  <2>1. PICK k \in 0 .. settled :
          LET late == IF countDownStarted \/ ~RequireSpoofChecks THEN {}
                      ELSE {c \in Present : ~player[c].spoofed
                                              /\ \E i \in 1 .. k : players[i] = c}
          IN  player' = [c \in Conns |->
                            IF c \in late THEN [player[c] EXCEPT !.deleteMe = TRUE]
                            ELSE player[c]]
    BY <1>7 DEF KickUnspoofed
  <2> QED BY <2>1, MarkedKeepsSpoofed DEF TypeInv
<1>8. CASE AddToSpoofed
  <2>1. PICK c \in Live : player' = [player EXCEPT ![c].spoofed = TRUE]
    BY <1>8 DEF AddToSpoofed
  <2>2. c \in Conns /\ player[c] \in Player /\ player[c] # NoPlayer
    BY DEF Live, LiveIn, TypeInv, TypeOK
  <2>3. /\ \A d \in Conns \ {c} : player'[d] = player[d]
        /\ player'[c].spoofed = TRUE
    BY <2>1, <2>2 DEF TypeInv, TypeOK, Player
  <2> QED BY <2>2, <2>3 DEF KeepsSpoofed, Present
<1>9. CASE DeletePlayer
  BY <1>9, DeletedIsGone DEF KeepsSpoofed
<1>10. CASE Command
  BY <1>10, <1>1, <1>4, <1>5, <1>6
     DEF Command, OpenCommand, CloseCommand, ComputerCommand, OpenAllCommand,
         CloseAllCommand, AllSlotsCommand, SwapCommand, ShuffleCommand, NothingButSlots,
         OwnerCommand, CreateFakePlayer, DeleteFakePlayer, VirtualHostCommand,
         UnhostCommand, StartCommand, StartNowCommand, BeginCountDown, AbortCommand
<1>11. CASE \/ ReadPackets \/ KeepPlayer \/ EndOfPlayers \/ MapSize \/ ChangeTeam
            \/ EndOfPotentials \/ AutoStart \/ NoAutoStart \/ CountDown \/ NoCountDown
            \/ EventGameStarted \/ NextUpdate \/ UNCHANGED vars
  BY <1>11, <1>1 DEF ReadPackets, KeepPlayer, EndOfPlayers, MapSize, ChangeTeam,
        NothingButSlots, EndOfPotentials, AutoStart, BeginCountDown, NoAutoStart,
        CountDown, NoCountDown, EventGameStarted, NextUpdate, vars
<1> QED BY <1>3, <1>7, <1>8, <1>9, <1>10, <1>11 DEF Joining, Next, Over

(* Only a start makes the lobby count down, and only a countdown ends in the *)
(* start of the game.                                                        *)
LEMMA StartsAreChecked ==
  ASSUME [Next]_vars
  PROVE  /\ countDownStarted' /\ ~countDownStarted
              => player' = player /\ AllSpoofChecked /\ phase # "started"
         /\ phase' = "started" /\ phase # "started" => countDownStarted
         /\ countDownStarted' \/ phase' = "started" => ~ Joining
<1> DEFINE Checked ==
        /\ countDownStarted' /\ ~countDownStarted
              => player' = player /\ AllSpoofChecked /\ phase # "started"
        /\ phase' = "started" /\ phase # "started" => countDownStarted
<1>1. Joining => ~countDownStarted' /\ phase = "potentials" /\ phase' = "potentials"
  BY DEF Joining, Join, AbortCountDown, position
<1>2. CASE UNCHANGED << countDownStarted, phase >>
  BY <1>1, <1>2
<1>3. CASE StartCommand \/ StartNowCommand \/ AutoStart
  BY <1>1, <1>3 DEF StartCommand, StartNowCommand, AutoStart, BeginCountDown,
       CountDownMayStart, position, Issued
<1>4. CASE AbortCommand \/ DeletePlayer
  <2>1. Checked
    BY <1>4 DEF AbortCommand, DeletePlayer, AbortCountDown, position
  <2> QED BY <1>1, <2>1
<1>5. CASE Command
  BY <1>2, <1>3, <1>4, <1>5
     DEF Command, KickCommand, OpenCommand, CloseCommand, ComputerCommand, SlotCommand,
       OpenAllCommand, CloseAllCommand, AllSlotsCommand, SwapCommand, ShuffleCommand,
       NothingButSlots, HoldCommand, OwnerCommand, CreateFakePlayer, DeleteFakePlayer,
       VirtualHostCommand, UnhostCommand, position, countdown
<1>6. CASE \/ ReadPackets \/ KeepPlayer \/ EndOfPlayers \/ EndOfPotentials \/ KickUnspoofed
           \/ NoAutoStart \/ CountDown \/ NoCountDown \/ EventGameStarted \/ NextUpdate
  <2>1. Checked
    BY <1>6 DEF ReadPackets, KeepPlayer, EndOfPlayers, EndOfPotentials, KickUnspoofed,
         NoAutoStart, CountDown, NoCountDown, EndOfUpdate, EventGameStarted, NextUpdate,
         position, countdown
  <2> QED BY <1>1, <2>1
<1>7. CASE LeaveByPacket \/ MapSize \/ ChangeTeam \/ AddToSpoofed \/ UNCHANGED vars
  BY <1>2, <1>7 DEF LeaveByPacket, MapSize, ChangeTeam, NothingButSlots, AddToSpoofed,
       position, countdown, vars
<1> QED BY <1>1, <1>3, <1>4, <1>5, <1>6, <1>7 DEF Next, Over, Joining

(* No player who is not spoof checked is in a game that starts, when spoof     *)
(* checks are required: the one check, in StartCountDown, is enough since      *)
(* every later join aborts the countdown.                                      *)
THEOREM OnlyTheSpoofCheckedStart == Spec => []OnlySpoofCheckedStart
<1>1. Init => OnlySpoofCheckedStart
  BY DEF Init, OnlySpoofCheckedStart
<1>2. TypeInv /\ OnlySpoofCheckedStart /\ [Next]_vars => OnlySpoofCheckedStart'
  <2> SUFFICES ASSUME TypeInv, OnlySpoofCheckedStart, [Next]_vars, RequireSpoofChecks,
                      countDownStarted' \/ phase' = "started"
               PROVE  \A c \in Present' : player'[c].spoofed
    BY DEF OnlySpoofCheckedStart
  <2>1. KeepsSpoofed
    BY StartsAreChecked, OthersKeepSpoofed
  <2>2. \A c \in Present : player[c].spoofed
    BY StartsAreChecked DEF OnlySpoofCheckedStart, AllSpoofChecked
  <2> QED BY <2>1, <2>2 DEF KeepsSpoofed
<1> QED BY <1>1, <1>2, InitTypeInv, StepTypeInv, PTL DEF Spec

-----------------------------------------------------------------------------
(* Displacements.                                                             *)

\* Nobody sits in a slot that is open or closed.
FreeSlotsEmpty == \A i \in SIDs : slots[i].status # "occupied" => slots[i].pid = 0

\* Every action leaves open and closed slots without a PID.
LEMMA StepFreeSlotsEmpty == TypeInv /\ FreeSlotsEmpty /\ [Next]_vars => FreeSlotsEmpty'
<1> SUFFICES ASSUME TypeInv, FreeSlotsEmpty, [Next]_vars PROVE FreeSlotsEmpty'
  OBVIOUS
<1>t. slots \in [SIDs -> Slot]
  BY DEF TypeInv, TypeOK
<1>1. CASE slots' = slots
  BY <1>1 DEF FreeSlotsEmpty
<1>2. ASSUME NEW pid, slots' = OpenSlotOf(pid) PROVE FreeSlotsEmpty'
  BY <1>2 DEF OpenSlotOf, OpenedSlot, FreeSlotsEmpty
<1>3. ASSUME NEW i \in SIDs, NEW j \in SIDs, slots' = Swapped(i, j) PROVE FreeSlotsEmpty'
  BY <1>3, <1>t DEF Swapped, FreeSlotsEmpty
<1>4. ASSUME NEW i \in SIDs, NEW new, slots' = [slots EXCEPT ![i] = new],
             new.status # "occupied" => new.pid = 0
      PROVE  FreeSlotsEmpty'
  BY <1>4, <1>t DEF FreeSlotsEmpty
<1>5. CASE DeletePlayer
  BY <1>5, <1>1, <1>2 DEF DeletePlayer
<1>6. CASE LeaveByPacket \/ KickCommand
  BY <1>6, <1>2 DEF LeaveByPacket, KickCommand, Kick
<1>7. CASE MapSize
  <2>1. PICK download \in DownloadStatus :
            LET sid == SIDFromPID(slots, player[Current].pid)
            IN  sid # None /\ slots' = [slots EXCEPT ![sid].download = download]
    BY <1>7 DEF MapSize
  <2> DEFINE sid == SIDFromPID(slots, player[Current].pid)
  <2>2. sid \in SIDs /\ slots' = [slots EXCEPT ![sid].download = download]
    BY <2>1, SIDFromPIDFinds
  <2> HIDE DEF sid
  <2>3. /\ \A i \in SIDs \ {sid} : slots'[i] = slots[i]
        /\ slots'[sid].status = slots[sid].status /\ slots'[sid].pid = slots[sid].pid
    BY <2>2, <1>t DEF Slot
  <2> QED BY <2>3 DEF FreeSlotsEmpty
<1>8. CASE ChangeTeam
  BY <1>8, <1>3, SIDFromPIDFinds DEF ChangeTeam, SlotsThatAre
<1>9. CASE OpenCommand \/ CloseCommand \/ ComputerCommand
  <2>1. \A new \in {OpenedSlot, ClosedSlot, ComputersSlot} :
            new.status # "occupied" => new.pid = 0
    BY DEF OpenedSlot, ClosedSlot, ComputersSlot
  <2> QED BY <1>9, <1>4, <2>1 DEF OpenCommand, CloseCommand, ComputerCommand, SlotCommand
<1>10. CASE OpenAllCommand \/ CloseAllCommand
  <2>1. PICK from \in {"open", "closed"}, to \in {"open", "closed"} :
            slots' = [i \in SIDs |-> IF slots[i].status = from
                                    THEN [slots[i] EXCEPT !.status = to] ELSE slots[i]]
    BY <1>10 DEF OpenAllCommand, CloseAllCommand, AllSlotsCommand
  <2>2. ASSUME NEW i \in SIDs, slots'[i].status # "occupied" PROVE slots'[i].pid = 0
    <3>1. CASE slots[i].status = from
      <4>1. slots[i].pid = 0
        BY <2>1, <3>1 DEF FreeSlotsEmpty
      <4>2. slots'[i] = [slots[i] EXCEPT !.status = to] /\ slots[i] \in Slot
        BY <2>1, <3>1, <1>t
      <4> QED BY <4>1, <4>2 DEF Slot
    <3>2. CASE slots[i].status # from
      BY <2>1, <2>2, <3>2 DEF FreeSlotsEmpty
    <3> QED BY <3>1, <3>2
  <2> QED BY <2>2 DEF FreeSlotsEmpty
<1>11. CASE SwapCommand
  BY <1>11, <1>3 DEF SwapCommand
<1>12. CASE ShuffleCommand
  <2>1. PICK moved \in SUBSET HumanSlots : \E p \in [moved -> moved] :
            slots' = [i \in SIDs |-> IF i \in moved THEN slots[p[i]] ELSE slots[i]]
    BY <1>12 DEF ShuffleCommand
  <2> QED BY <2>1 DEF FreeSlotsEmpty, HumanSlots, SlotsThatAre
<1>13. CASE CreateFakePlayer
  <2>1. EmptySlot \in SIDs
    <3>1. SlotsThatAre("open") \subseteq SIDs /\ SIDs \subseteq Nat
      BY SlotsAssumption DEF SlotsThatAre, SIDs
    <3> QED BY <1>13, <3>1, MinIsIn DEF CreateFakePlayer, EmptySlot
  <2> QED BY <1>13, <1>4, <2>1 DEF CreateFakePlayer, PlayersSlot
<1>14. CASE DeleteFakePlayer
  BY <1>14 DEF DeleteFakePlayer, OpenedSlot, FreeSlotsEmpty
<1>15. CASE Command
  BY <1>15, <1>1, <1>6, <1>9, <1>10, <1>11, <1>12, <1>13, <1>14
     DEF Command, HoldCommand, OwnerCommand, VirtualHostCommand, UnhostCommand,
       StartCommand, StartNowCommand, BeginCountDown, AbortCommand
<1>16. CASE Joining
  <2>1. PICK c \in Conns, name \in Names, lan \in BOOLEAN : Join(c, name, lan)
    BY <1>16 DEF Joining
  <2>2. SlotFor(name) \in SIDs
    BY <2>1, SlotForIsSlot DEF Join
  <2>3. \E pid : slots' = [slots EXCEPT ![SlotFor(name)] = PlayersSlot(pid, 255)]
    BY <2>1 DEF Join
  <2> QED BY <2>2, <2>3, <1>4 DEF PlayersSlot
<1>17. CASE KickUnspoofed
  BY <1>17 DEF KickUnspoofed, OpenedSlot, FreeSlotsEmpty
<1>18. CASE \/ ReadPackets \/ KeepPlayer \/ EndOfPlayers \/ EndOfPotentials \/ AutoStart
            \/ NoAutoStart \/ CountDown \/ NoCountDown \/ EventGameStarted
            \/ AddToSpoofed \/ NextUpdate \/ UNCHANGED vars
  BY <1>18, <1>1 DEF ReadPackets, KeepPlayer, EndOfPlayers, EndOfPotentials, AutoStart,
       BeginCountDown, NoAutoStart, CountDown, NoCountDown, EventGameStarted,
       AddToSpoofed, NextUpdate, vars
<1> QED BY <1>5, <1>6, <1>7, <1>8, <1>15, <1>16, <1>17, <1>18 DEF Next, Over, Joining

(* Whom a newcomer may displace: players without reserved status, and, for   *)
(* the owner, anybody.                                                       *)
LEMMA DisplacedByWhom ==
  ASSUME TypeInv, PIDsUnique, FreeSlotsEmpty, NEW name, SlotFor(name) # None,
         NEW c \in SeatedAt(SlotFor(name)), player[c].reserved
  PROVE  IsOwner(name)
<1> DEFINE sid == SlotFor(name)
<1>1. c \in Live /\ player[c].pid = slots[sid].pid /\ sid \in SIDs
  BY SlotForIsSlot DEF SeatedAt
<1>2. player[c].pid # 0
  BY <1>1 DEF TypeInv, TypeOK, Player, PIDs, Live, LiveIn
<1>3. slots[sid].status = "occupied"
  BY <1>1, <1>2 DEF FreeSlotsEmpty
<1>4. \A d \in SeatedAt(sid) : d = c
  BY <1>1 DEF PIDsUnique, SeatedAt
<1>5. sid \notin SlotsThatAre("open") \cup SlotsThatAre("closed") \cup Displaceable
  BY <1>3, <1>4 DEF SlotsThatAre, Displaceable
<1>6. SIDs \subseteq Nat /\ SlotsThatAre("open") \subseteq SIDs
        /\ SlotsThatAre("closed") \subseteq SIDs /\ LeastDownloaded \subseteq Displaceable
        /\ Displaceable \subseteq SIDs
  BY SlotsAssumption DEF SIDs, SlotsThatAre, Displaceable, LeastDownloaded
<1>7. EmptySlot # None => EmptySlot \in SlotsThatAre("open")
  BY <1>6, MinIsIn DEF EmptySlot
<1>8. ReservedSlot # None => ReservedSlot \in SlotsThatAre("closed") \cup Displaceable
  BY <1>6, MinIsIn DEF ReservedSlot
<1> QED BY <1>5, <1>7, <1>8 DEF SlotFor

(* A player with reserved status, whatever admins, votes, swaps and other      *)
(* joins do, is displaced by nobody but the owner (GetEmptySlot, IsReserved    *)
(* and EventPlayerJoined).                                                     *)
THEOREM ReservedPlayersStay == Spec => OnlyOwnerDisplacesReserved
<1>1. Init => Identity /\ FreeSlotsEmpty
  BY DEF Init, Identity, PIDsUnique, ShownAccurate, Live, LiveIn, FreeSlotsEmpty, OpenedSlot
<1>2. TypeInv /\ Identity /\ FreeSlotsEmpty /\ [Next]_vars =>
        \A c \in Live :
            player[c].reserved /\ player'[c] # NoPlayer /\ player'[c].leftMessageSent
              => \E d \in Conns : /\ player[d] = NoPlayer /\ player'[d] # NoPlayer
                                 /\ player'[d].name = owner
  <2> SUFFICES ASSUME TypeInv, Identity, FreeSlotsEmpty, [Next]_vars, NEW c \in Live,
                      player[c].reserved, player'[c] # NoPlayer,
                      player'[c].leftMessageSent
               PROVE  \E d \in Conns : /\ player[d] = NoPlayer /\ player'[d] # NoPlayer
                                      /\ player'[d].name = owner
    OBVIOUS
  <2>1. c \in Conns /\ c \notin Live'
    BY DEF Live, LiveIn
  <2>2. CASE ~ Removal
    BY <2>1, <2>2, OthersKeepPlayers DEF SamePlayers
  <2>3. CASE DeletePlayer
    <3>1. c = Current
      BY <2>1, <2>3, DeletedIsGone
    <3>2. player'[c] = NoPlayer
      BY <2>1, <2>3, <3>1, DeletedIsGone DEF TypeInv, TypeOK
    <3> QED BY <3>2
  <2>4. CASE Joining
    <3>1. PICK d \in Conns, name \in Names, lan \in BOOLEAN : Join(d, name, lan)
      BY <2>4 DEF Joining
    <3>2. Newcomer(d, name, lan, SeatedAt(SlotFor(name)), player'[d].pid)
      BY <3>1, JoinPlayers
    <3>3. c \in SeatedAt(SlotFor(name))
      BY <2>1, <3>2 DEF Newcomer
    <3>4. SlotFor(name) # None
      BY <3>1 DEF Join
    <3>5. IsOwner(name)
      BY <3>3, <3>4, DisplacedByWhom DEF Identity
    <3>6. d \notin Present /\ d \in Present' /\ player'[d].name = name
      BY <3>2 DEF Newcomer
    <3> QED BY <3>5, <3>6 DEF Present, IsOwner
  <2> QED BY <2>2, <2>3, <2>4 DEF Removal, Joining
<1> QED BY <1>1, <1>2, InitTypeInv, StepTypeInv, StepIdentity, StepFreeSlotsEmpty, PTL
        DEF Spec, OnlyOwnerDisplacesReserved

-----------------------------------------------------------------------------
(* Slots and players.                                                         *)

\* Every player's departure is announced when it is deleted, and not before.
NobodyDisplaced == \A c \in Present : ~player[c].leftMessageSent

\* The players who are not being removed.
Staying == {c \in Live : ~player[c].deleteMe}

\* Slot by slot and player by player: the slots of humans, and no others, have a
\* PID; it is the fake player's or that of a player who stays; nobody has two slots
\* and whoever stays has one.
Matched ==
    /\ \A i \in HumanSlots : slots[i].pid \in PIDs
    /\ \A i \in SIDs \ HumanSlots : slots[i].pid = 0
    /\ \A i \in HumanSlots : \/ slots[i].pid = fakePlayerPID
                             \/ \E c \in Staying : slots[i].pid = player[c].pid
    /\ \A i, j \in HumanSlots : slots[i].pid = slots[j].pid => i = j
    /\ \A c \in Staying : \E i \in HumanSlots : slots[i].pid = player[c].pid

\* The matching of slots and players in terms of each PID is that of SlotsMatchPlayers.
LEMMA MatchedMatches ==
  ASSUME PIDsUnique, Matched
  PROVE  SlotsMatchPlayers
BY DEF Matched, SlotsMatchPlayers, SlotsBacked, SeatedOnce, Seated, Staying, SeatedAt

\* A slot is a human's if it is occupied and no computer's.
LEMMA HumanSlotsAre ==
  HumanSlots = {i \in SIDs : slots[i].status = "occupied" /\ ~slots[i].computer}
BY DEF HumanSlots, SlotsThatAre

(* A slot is told by its PID.                                                 *)
LEMMA ToldByPID ==
  ASSUME Matched, NEW i \in SIDs, NEW j \in SIDs, slots[i].pid = slots[j].pid,
         slots[i].pid # 0
  PROVE  i = j
BY DEF Matched

(* GetSIDFromPID finds a slot that has the PID if there is one.               *)
LEMMA SIDFromPIDExists ==
  ASSUME NEW pid, NEW i \in SIDs, slots[i].pid = pid
  PROVE  SIDFromPID(slots, pid) \in SIDs /\ slots[SIDFromPID(slots, pid)].pid = pid
<1> DEFINE held == {j \in SIDs : slots[j].pid = pid}
<1>1. held \in SUBSET Nat /\ held # {}
  BY SlotsAssumption DEF SIDs
<1>2. SIDFromPID(slots, pid) = Min(held)
  BY <1>1 DEF SIDFromPID
<1>3. Min(held) \in held
  <2> HIDE DEF held
  <2> QED BY <1>1, MinIsIn
<1> QED BY <1>2, <1>3

(* Nothing happens to the players who stay, and slots at most trade places.   *)
LEMMA TradedMatch ==
  ASSUME Matched, NEW g \in [SIDs -> SIDs],
         \A i, j \in SIDs : g[i] = g[j] => i = j,
         \A j \in SIDs : \E i \in SIDs : g[i] = j,
         \A i \in SIDs : /\ slots'[i].pid = slots[g[i]].pid
                         /\ i \in HumanSlots' <=> g[i] \in HumanSlots,
         Staying' = Staying, \A c \in Staying : player'[c].pid = player[c].pid,
         fakePlayerPID' = fakePlayerPID
  PROVE  Matched'
<1>1. HumanSlots' \subseteq SIDs /\ HumanSlots \subseteq SIDs
  BY DEF HumanSlots, SlotsThatAre
<1>2. \A i \in HumanSlots' : slots'[i].pid \in PIDs
  BY <1>1 DEF Matched
<1>3. \A i \in SIDs \ HumanSlots' : slots'[i].pid = 0
  BY DEF Matched
<1>4. \A i \in HumanSlots' : \/ slots'[i].pid = fakePlayerPID'
                             \/ \E c \in Staying' : slots'[i].pid = player'[c].pid
  BY <1>1 DEF Matched
<1>5. \A i, j \in HumanSlots' : slots'[i].pid = slots'[j].pid => i = j
  BY <1>1 DEF Matched
<1>6. ASSUME NEW c \in Staying' PROVE \E i \in HumanSlots' : slots'[i].pid = player'[c].pid
  <2>1. c \in Staying /\ player'[c].pid = player[c].pid
    OBVIOUS
  <2>2. PICK j \in HumanSlots : slots[j].pid = player[c].pid
    BY <2>1 DEF Matched
  <2>3. PICK i \in SIDs : g[i] = j
    BY <1>1
  <2>4. i \in HumanSlots' /\ slots'[i].pid = slots[j].pid
    BY <2>3
  <2> QED BY <2>1, <2>2, <2>4
<1> QED BY <1>2, <1>3, <1>4, <1>5, <1>6 DEF Matched

(* Whoever is kicked loses his slot, and nobody else does.                    *)
LEMMA KickedMatch ==
  ASSUME TypeInv, PIDsUnique, Matched, NEW T \in SUBSET Live,
         slots' = [i \in SIDs |-> IF \E c \in T : i = SIDFromPID(slots, player[c].pid)
                                 THEN OpenedSlot ELSE slots[i]],
         Staying' = Staying \ T, \A c \in Staying \ T : player'[c].pid = player[c].pid,
         fakePlayerPID' = fakePlayerPID
  PROVE  Matched'
<1> DEFINE Opened(i) == \E c \in T : i = SIDFromPID(slots, player[c].pid)
           gone == {player[c].pid : c \in T}
<1>1. \A i \in SIDs : slots'[i] = IF Opened(i) THEN OpenedSlot ELSE slots[i]
  OBVIOUS
<1>2. \A c \in Live : c \in Conns /\ player[c].pid \in PIDs
  BY DEF TypeInv, TypeOK, Live, LiveIn, Player
<1>3. 0 \notin PIDs /\ None \notin SIDs /\ HumanSlots \subseteq SIDs
  <2>1. 0 \notin PIDs
    BY DEF PIDs
  <2>2. None \notin SIDs
    BY SlotsAssumption DEF SIDs, None
  <2> QED BY <2>1, <2>2 DEF HumanSlots, SlotsThatAre
<1>4. ASSUME NEW i \in SIDs, NEW c \in T, slots[i].pid = player[c].pid PROVE Opened(i)
  <2>1. /\ SIDFromPID(slots, player[c].pid) \in SIDs
        /\ slots[SIDFromPID(slots, player[c].pid)].pid = player[c].pid
    BY <1>4, SIDFromPIDExists
  <2>2. slots[i].pid # 0
    BY <1>2, <1>3, <1>4
  <2> QED BY <1>4, <2>1, <2>2, ToldByPID
<1>5. ASSUME NEW i \in SIDs, Opened(i) PROVE slots[i].pid \in gone
  BY <1>3, <1>5, SIDFromPIDFinds
<1> HIDE DEF Opened
<1>6. OpenedSlot.pid = 0 /\ OpenedSlot.status # "occupied"
  BY DEF OpenedSlot
<1>7. HumanSlots' = {i \in HumanSlots : slots[i].pid \notin gone}
  <2>1. ASSUME NEW i \in SIDs
        PROVE  i \in HumanSlots' <=> i \in HumanSlots /\ slots[i].pid \notin gone
    <3>1. CASE Opened(i)
      BY <1>1, <1>5, <1>6, <3>1 DEF HumanSlots, SlotsThatAre
    <3>2. CASE ~Opened(i)
      <4>1. slots[i].pid \notin gone
        BY <1>4, <3>2
      <4> QED BY <1>1, <3>2, <4>1 DEF HumanSlots, SlotsThatAre
    <3> QED BY <3>1, <3>2
  <2>2. HumanSlots' \subseteq SIDs
    BY DEF HumanSlots, SlotsThatAre
  <2> QED BY <1>3, <2>1, <2>2
<1>8. \A i \in HumanSlots' : slots'[i] = slots[i]
  BY <1>1, <1>3, <1>5, <1>7
<1>9. \A i \in SIDs \ HumanSlots' : slots'[i].pid = 0
  <2>1. ASSUME NEW i \in SIDs \ HumanSlots' PROVE slots'[i].pid = 0
    <3>1. CASE Opened(i)
      BY <1>1, <1>6, <3>1
    <3>2. CASE ~Opened(i)
      <4>1. i \notin HumanSlots
        BY <1>4, <1>7, <3>2
      <4> QED BY <1>1, <3>2, <4>1 DEF Matched
    <3> QED BY <3>1, <3>2
  <2> QED BY <2>1
<1>10. ASSUME NEW i \in HumanSlots'
       PROVE  \/ slots'[i].pid = fakePlayerPID'
              \/ \E c \in Staying' : slots'[i].pid = player'[c].pid
  <2>1. i \in HumanSlots /\ slots[i].pid \notin gone /\ slots'[i] = slots[i]
    BY <1>7, <1>8
  <2>2. \/ slots[i].pid = fakePlayerPID
        \/ \E c \in Staying : slots[i].pid = player[c].pid
    BY <2>1 DEF Matched
  <2> QED BY <2>1, <2>2
<1>11. ASSUME NEW c \in Staying' PROVE \E i \in HumanSlots' : slots'[i].pid = player'[c].pid
  <2>1. c \in Staying \ T /\ c \in Live
    BY DEF Staying
  <2>2. PICK i \in HumanSlots : slots[i].pid = player[c].pid
    BY <2>1 DEF Matched
  <2>3. player[c].pid \notin gone
    BY <2>1 DEF PIDsUnique
  <2>4. i \in HumanSlots' /\ slots'[i] = slots[i]
    BY <1>7, <1>8, <2>2, <2>3
  <2> QED BY <2>1, <2>2, <2>4
<1>12. /\ \A i \in HumanSlots' : slots'[i].pid \in PIDs
       /\ \A i, j \in HumanSlots' : slots'[i].pid = slots'[j].pid => i = j
  <2> HIDE DEF gone
  <2>1. \A i \in HumanSlots' : i \in HumanSlots /\ slots'[i].pid = slots[i].pid
    BY <1>7, <1>8
  <2>2. \A i \in HumanSlots : slots[i].pid \in PIDs
    BY DEF Matched
  <2>3. \A i, j \in HumanSlots : slots[i].pid = slots[j].pid => i = j
    BY DEF Matched
  <2>4. \A i \in HumanSlots' : slots'[i].pid \in PIDs
    BY <2>1, <2>2, Zenon
  <2>5. \A i, j \in HumanSlots' : slots'[i].pid = slots'[j].pid => i = j
    <3> SUFFICES ASSUME NEW i \in HumanSlots', NEW j \in HumanSlots',
                        slots'[i].pid = slots'[j].pid
                 PROVE  i = j
      BY Zenon
    <3>1. slots[i].pid = slots[j].pid /\ i \in HumanSlots /\ j \in HumanSlots
      BY <2>1, Zenon
    <3> QED BY <2>3, <3>1, Zenon
  <2> QED BY <2>4, <2>5, Zenon
<1> QED BY <1>9, <1>10, <1>11, <1>12, Zenon DEF Matched

(* A slot is overwritten, and whoever was in it is removed.                   *)
LEMMA OverwrittenMatch ==
  ASSUME TypeInv, PIDsUnique, Matched, NEW sid \in SIDs,
         NEW new \in {OpenedSlot, ClosedSlot, ComputersSlot},
         slots' = [slots EXCEPT ![sid] = new],
         Staying' = Staying \ SeatedAt(sid),
         \A c \in Staying' : player'[c].pid = player[c].pid,
         fakePlayerPID' = fakePlayerPID
  PROVE  Matched'
<1>1. new.pid = 0 /\ ~(new.status = "occupied" /\ ~new.computer)
  BY DEF OpenedSlot, ClosedSlot, ComputersSlot
<1>2. slots'[sid] = new /\ \A i \in SIDs \ {sid} : slots'[i] = slots[i]
  BY DEF TypeInv, TypeOK
<1>3. HumanSlots' = HumanSlots \ {sid} /\ HumanSlots \subseteq SIDs
  BY <1>1, <1>2 DEF HumanSlots, SlotsThatAre
<1>4. \A i \in SIDs \ HumanSlots' : slots'[i].pid = 0
  BY <1>1, <1>2, <1>3 DEF Matched
<1>5. ASSUME NEW i \in HumanSlots'
      PROVE  \/ slots'[i].pid = fakePlayerPID'
             \/ \E c \in Staying' : slots'[i].pid = player'[c].pid
  <2>1. i \in HumanSlots /\ i # sid /\ slots'[i] = slots[i] /\ slots[i].pid # 0
    BY <1>2, <1>3, PIDsAssumption DEF Matched, PIDs
  <2>2. \/ slots[i].pid = fakePlayerPID
        \/ \E c \in Staying : slots[i].pid = player[c].pid
    BY <2>1 DEF Matched
  <2>3. slots[i].pid # slots[sid].pid
    BY <1>3, <2>1, ToldByPID
  <2> QED BY <2>1, <2>2, <2>3 DEF SeatedAt
<1>6. ASSUME NEW c \in Staying' PROVE \E i \in HumanSlots' : slots'[i].pid = player'[c].pid
  <2>1. c \in Staying /\ c \in Live /\ c \notin SeatedAt(sid)
    BY DEF Staying
  <2>2. PICK i \in HumanSlots : slots[i].pid = player[c].pid
    BY <2>1 DEF Matched
  <2>3. i # sid
    BY <2>1, <2>2 DEF SeatedAt
  <2> QED BY <1>2, <1>3, <2>2, <2>3
<1> QED BY <1>2, <1>3, <1>4, <1>5, <1>6 DEF Matched

(* Somebody is given a slot that no player has: a newcomer or the fake player. *)
SeatGiven(sid, pid) ==
    /\ SeatedAt(sid) = {}
    /\ pid # fakePlayerPID /\ \A c \in Live : player[c].pid # pid
    /\ slots'[sid].pid = pid /\ sid \in HumanSlots'
    /\ \A i \in SIDs \ {sid} : slots'[i] = slots[i]
    /\ Staying \subseteq Staying'
    /\ \A c \in Staying : player'[c].pid = player[c].pid
    /\ \A c \in Staying' \ Staying : player'[c].pid = pid
    /\ \/ fakePlayerPID' = fakePlayerPID /\ Staying' # Staying
       \/ fakePlayerPID = None /\ fakePlayerPID' = pid

\* A free slot that is given to a new PID keeps the matching.
LEMMA SeatGivenMatch ==
  ASSUME Matched, NEW sid \in SIDs, NEW pid \in PIDs, SeatGiven(sid, pid)
  PROVE  Matched'
<1> USE DEF SeatGiven
<1>1. HumanSlots' = HumanSlots \cup {sid} /\ HumanSlots \subseteq SIDs
  BY DEF HumanSlots, SlotsThatAre
<1>2. \A c \in Staying : c \in Live
  BY DEF Staying
<1>3. None \notin PIDs
  BY PIDsAssumption DEF PIDs, None
<1>4. ASSUME NEW i \in HumanSlots, i # sid
      PROVE  slots'[i] = slots[i] /\ slots[i].pid # pid
  <2>1. slots'[i] = slots[i]
    BY <1>1, <1>4
  <2>2. \/ slots[i].pid = fakePlayerPID
        \/ \E c \in Staying : slots[i].pid = player[c].pid
    BY DEF Matched
  <2>3. slots[i].pid # pid
    BY <1>2, <2>2
  <2> QED BY <2>1, <2>3
<1>5. \A i \in HumanSlots' : slots'[i].pid \in PIDs
  BY <1>1, <1>4 DEF Matched
<1>6. \A i \in SIDs \ HumanSlots' : slots'[i].pid = 0
  BY <1>1 DEF Matched
<1>7. ASSUME NEW i \in HumanSlots'
      PROVE  \/ slots'[i].pid = fakePlayerPID'
             \/ \E c \in Staying' : slots'[i].pid = player'[c].pid
  <2>1. CASE i = sid
    BY <2>1
  <2>2. CASE i # sid
    <3>1. i \in HumanSlots /\ slots'[i] = slots[i] /\ slots[i].pid \in PIDs
      BY <1>1, <1>4, <2>2 DEF Matched
    <3>2. \/ slots[i].pid = fakePlayerPID
          \/ \E c \in Staying : slots[i].pid = player[c].pid
      BY <3>1 DEF Matched
    <3> QED BY <1>3, <3>1, <3>2
  <2> QED BY <2>1, <2>2
<1>8. ASSUME NEW i \in HumanSlots', NEW j \in HumanSlots', slots'[i].pid = slots'[j].pid
       PROVE  i = j
  <2>1. CASE i = sid \/ j = sid
    BY <1>1, <1>4, <1>8, <2>1
  <2>2. CASE i # sid /\ j # sid
    <3>1. i \in HumanSlots /\ j \in HumanSlots /\ slots[i].pid = slots[j].pid
      BY <1>1, <1>4, <1>8, <2>2
    <3> QED BY <3>1 DEF Matched
  <2> QED BY <2>1, <2>2
<1>9. ASSUME NEW c \in Staying' PROVE \E i \in HumanSlots' : slots'[i].pid = player'[c].pid
  <2>1. CASE c \in Staying
    <3>1. PICK i \in HumanSlots : slots[i].pid = player[c].pid
      BY <2>1 DEF Matched
    <3>2. i # sid
      BY <1>2, <2>1, <3>1 DEF SeatedAt
    <3> QED BY <1>1, <1>4, <2>1, <3>1, <3>2
  <2>2. CASE c \notin Staying
    BY <1>1, <2>2
  <2> QED BY <2>1, <2>2
<1> QED BY <1>5, <1>6, <1>7, <1>8, <1>9 DEF Matched

(* Nobody is seated in a slot that is not a human's.                           *)
LEMMA FreeSlotSeatsNobody ==
  ASSUME TypeInv, Matched, NEW sid \in SIDs \ HumanSlots
  PROVE  SeatedAt(sid) = {}
<1>1. slots[sid].pid = 0
  BY DEF Matched
<1>2. ASSUME NEW c \in Live PROVE player[c].pid # 0
  BY DEF TypeInv, TypeOK, Player, PIDs, Live, LiveIn
<1> QED BY <1>1, <1>2 DEF SeatedAt

\* A newcomer who displaces nobody keeps the matching.
LEMMA JoinMatch ==
  ASSUME TypeInv, Matched, NobodyDisplaced',
         NEW c \in Conns, NEW name \in Names, NEW lan \in BOOLEAN, Join(c, name, lan)
  PROVE  Matched'
<1> DEFINE sid == SlotFor(name)
           pid == player'[c].pid
           out == SeatedAt(sid)
<1>1. Newcomer(c, name, lan, out, pid) /\ slots' = [slots EXCEPT ![sid] = PlayersSlot(pid, 255)]
  BY JoinPlayers
<1>2. sid \in SIDs
  BY SlotForIsSlot DEF Join
<1> HIDE DEF sid, pid, out
<1>3. /\ c \notin Live /\ Live' = (Live \ out) \cup {c} /\ out \subseteq Live
      /\ Present' = Present \cup {c} /\ Live \subseteq Present /\ Present \subseteq Conns
      /\ \A d \in Live \ out : player'[d] = player[d] /\ player[d].pid # pid
      /\ pid \in PIDs /\ pid # fakePlayerPID /\ fakePlayerPID' = fakePlayerPID
      /\ player'[c].deleteMe = FALSE
  BY <1>1, SeatedIsPresent DEF Newcomer
<1>4. out = {}
  <2>1. \A d \in Present' : d \in Live'
    BY DEF NobodyDisplaced, Present, Live, LiveIn
  <2> QED BY <1>3, <2>1
<1>5. Staying' = Staying \cup {c} /\ c \notin Staying /\ Staying \subseteq Live
  BY <1>3, <1>4 DEF Staying
<1>6. SeatedAt(sid) = {}
  BY <1>4 DEF out
<1>7. \A d \in Staying : player'[d].pid = player[d].pid
  BY <1>3, <1>4, <1>5
<1>8. \A d \in Staying' \ Staying : player'[d].pid = pid
  BY <1>5 DEF pid
<1>9. \A d \in Live : player[d].pid # pid
  BY <1>3, <1>4
<1>10. /\ Staying \subseteq Staying' /\ Staying' # Staying
       /\ fakePlayerPID' = fakePlayerPID /\ pid \in PIDs /\ pid # fakePlayerPID
       /\ slots' = [slots EXCEPT ![sid] = PlayersSlot(pid, 255)]
  BY <1>1, <1>3, <1>5
<1>11. slots'[sid].pid = pid /\ sid \in HumanSlots' /\ \A i \in SIDs \ {sid} : slots'[i] = slots[i]
  <2>1. slots'[sid] = PlayersSlot(pid, 255) /\ \A i \in SIDs \ {sid} : slots'[i] = slots[i]
    BY <1>1, <1>2 DEF TypeInv, TypeOK
  <2> QED BY <1>2, <2>1 DEF PlayersSlot, HumanSlots, SlotsThatAre
<1>12. SeatGiven(sid, pid)
  BY <1>6, <1>7, <1>8, <1>9, <1>10, <1>11 DEF SeatGiven
<1> QED BY <1>2, <1>10, <1>12, SeatGivenMatch

(* The fake player comes and goes (!fakeplayer).                               *)
LEMMA FakePlayerComesMatch ==
  ASSUME TypeInv, Matched, CreateFakePlayer
  PROVE  Matched'
<1> DEFINE pid == fakePlayerPID'
<1>1. EmptySlot \in SlotsThatAre("open") /\ EmptySlot \in SIDs
  <2>1. SlotsThatAre("open") \in SUBSET SIDs /\ SIDs \subseteq Nat
    BY SlotsAssumption DEF SlotsThatAre, SIDs
  <2>2. EmptySlot \in SlotsThatAre("open")
    BY <2>1, MinIsIn DEF EmptySlot, CreateFakePlayer
  <2> QED BY <2>1, <2>2
<1>2. EmptySlot \notin HumanSlots
  BY <1>1 DEF HumanSlots, SlotsThatAre
<1>3. SeatedAt(EmptySlot) = {}
  BY <1>1, <1>2, FreeSlotSeatsNobody
<1>4. virtualHostPID' \in PIDs \cup {None}
  BY DEF CreateFakePlayer, HostMakingRoom, TypeInv, TypeOK
<1>5. pid = NewPID(player, virtualHostPID', None)
  BY DEF CreateFakePlayer
<1>6. pid \in PIDs \ UsedPIDs(player, virtualHostPID', None)
  BY <1>4, <1>5, NewPIDIsFresh DEF TypeInv, TypeOK
<1>7. /\ pid \in PIDs /\ fakePlayerPID = None /\ pid # None
      /\ \A c \in Live : player[c].pid # pid
  BY <1>6 DEF UsedPIDs, Live, CreateFakePlayer
<1>8. slots'[EmptySlot] = PlayersSlot(pid, 100) /\ \A i \in SIDs \ {EmptySlot} : slots'[i] = slots[i]
  BY <1>1 DEF CreateFakePlayer, TypeInv, TypeOK
<1>9. slots'[EmptySlot].pid = pid /\ EmptySlot \in HumanSlots'
  BY <1>1, <1>8 DEF PlayersSlot, HumanSlots, SlotsThatAre
<1>10. player' = player /\ Staying' = Staying
  BY DEF CreateFakePlayer, Staying, Live, LiveIn
<1>11. SeatGiven(EmptySlot, pid)
  BY <1>3, <1>7, <1>8, <1>9, <1>10 DEF SeatGiven
<1> QED BY <1>1, <1>7, <1>11, SeatGivenMatch

\* The fake player's slot is opened when the fake player goes.
LEMMA FakePlayerGoesMatch ==
  ASSUME TypeInv, PIDsUnique, Matched, DeleteFakePlayer
  PROVE  Matched'
<1>1. /\ fakePlayerPID \in PIDs /\ fakePlayerPID # 0 /\ fakePlayerPID' = None
      /\ player' = player /\ Staying' = Staying
  BY PIDsAssumption DEF DeleteFakePlayer, TypeInv, TypeOK, PIDs, Staying, Live, LiveIn
<1>2. \A i \in SIDs : slots'[i] = IF slots[i].pid = fakePlayerPID THEN OpenedSlot ELSE slots[i]
  BY DEF DeleteFakePlayer
<1>3. OpenedSlot.pid = 0 /\ OpenedSlot.status # "occupied"
  BY DEF OpenedSlot
<1>4. HumanSlots \subseteq SIDs /\ HumanSlots' = {i \in HumanSlots : slots[i].pid # fakePlayerPID}
  BY <1>2, <1>3 DEF HumanSlots, SlotsThatAre
<1>5. \A i \in HumanSlots' : i \in HumanSlots /\ slots'[i] = slots[i]
  BY <1>2, <1>4
<1>6. \A i \in HumanSlots' : slots'[i].pid \in PIDs
  BY <1>5 DEF Matched
<1>7. \A i \in SIDs \ HumanSlots' : slots'[i].pid = 0
  BY <1>2, <1>3, <1>4 DEF Matched
<1>8. ASSUME NEW i \in HumanSlots'
      PROVE  \E c \in Staying' : slots'[i].pid = player'[c].pid
  <2>1. i \in HumanSlots /\ slots[i].pid # fakePlayerPID
    BY <1>4
  <2>2. \E c \in Staying : slots[i].pid = player[c].pid
    BY <2>1 DEF Matched
  <2> QED BY <1>1, <1>5, <2>2
<1>9. ASSUME NEW i \in HumanSlots', NEW j \in HumanSlots', slots'[i].pid = slots'[j].pid
      PROVE  i = j
  <2>1. i \in HumanSlots /\ j \in HumanSlots /\ slots[i].pid = slots[j].pid
    BY <1>5, <1>9
  <2> QED BY <2>1 DEF Matched
<1>10. ASSUME NEW c \in Staying' PROVE \E i \in HumanSlots' : slots'[i].pid = player'[c].pid
  <2>1. c \in Staying /\ c \in Live /\ player'[c] = player[c]
    BY <1>1 DEF Staying
  <2>2. PICK i \in HumanSlots : slots[i].pid = player[c].pid
    BY <2>1 DEF Matched
  <2>3. player[c].pid # fakePlayerPID
    BY <2>1 DEF PIDsUnique
  <2> QED BY <1>4, <1>5, <2>1, <2>2, <2>3
<1> QED BY <1>6, <1>7, <1>8, <1>9, <1>10 DEF Matched

(* Slots keep their places.                                                    *)
LEMMA SlotsStayMatch ==
  ASSUME Matched,
         \A i \in SIDs : /\ slots'[i].pid = slots[i].pid
                         /\ i \in HumanSlots' <=> i \in HumanSlots,
         Staying' = Staying, \A c \in Staying : player'[c].pid = player[c].pid,
         fakePlayerPID' = fakePlayerPID
  PROVE  Matched'
<1> DEFINE g == [i \in SIDs |-> i]
<1>1. g \in [SIDs -> SIDs] /\ \A i \in SIDs : g[i] = i
  OBVIOUS
<1> HIDE DEF g
<1>2. \A i, j \in SIDs : g[i] = g[j] => i = j
  BY <1>1
<1>3. \A j \in SIDs : \E i \in SIDs : g[i] = j
  BY <1>1
<1>4. \A i \in SIDs : slots'[i].pid = slots[g[i]].pid /\ (i \in HumanSlots' <=> g[i] \in HumanSlots)
  BY <1>1
<1> QED BY <1>1, <1>2, <1>3, <1>4, TradedMatch

\* Two slots that are exchanged keep the matching.
LEMMA SwappedMatch ==
  ASSUME TypeInv, Matched, NEW i \in SIDs, NEW j \in SIDs, slots' = Swapped(i, j),
         NothingButSlots
  PROVE  Matched'
<1> DEFINE g == [k \in SIDs |-> IF k = i THEN j ELSE IF k = j THEN i ELSE k]
<1>1. g \in [SIDs -> SIDs] /\ \A k \in SIDs : g[k] = IF k = i THEN j ELSE IF k = j THEN i ELSE k
  OBVIOUS
<1> HIDE DEF g
<1>2. \A k, l \in SIDs : g[k] = g[l] => k = l
  BY <1>1
<1>3. \A k \in SIDs : \E l \in SIDs : g[l] = k
  <2>1. \A k \in SIDs : g[k] \in SIDs /\ g[g[k]] = k
    BY <1>1
  <2> QED BY <2>1
<1>4. \A k \in SIDs : slots'[k] = slots[g[k]]
  BY <1>1 DEF Swapped, TypeInv, TypeOK
<1>5. \A k \in SIDs : k \in HumanSlots' <=> g[k] \in HumanSlots
  BY <1>1, <1>4 DEF HumanSlots, SlotsThatAre
<1>6. Staying' = Staying /\ player' = player /\ fakePlayerPID' = fakePlayerPID
  BY DEF NothingButSlots, Staying, Live, LiveIn
<1> QED BY <1>1, <1>2, <1>3, <1>4, <1>5, <1>6, TradedMatch

(* !sp: an injection of the slots it moves into themselves reaches all of them. *)
LEMMA ShuffledMatch ==
  ASSUME TypeInv, Matched, ShuffleCommand
  PROVE  Matched'
<1>a. PICK moved \in SUBSET HumanSlots : \E p \in [moved -> moved] :
        /\ \A i, j \in moved : i # j => p[i] # p[j]
        /\ slots' = [i \in SIDs |-> IF i \in moved THEN slots[p[i]] ELSE slots[i]]
  BY DEF ShuffleCommand
<1>1. PICK p \in [moved -> moved] :
        /\ \A i, j \in moved : i # j => p[i] # p[j]
        /\ slots' = [i \in SIDs |-> IF i \in moved THEN slots[p[i]] ELSE slots[i]]
  BY <1>a
<1>2. moved \subseteq SIDs /\ moved \subseteq HumanSlots /\ IsFiniteSet(moved)
  <2>1. moved \in SUBSET SIDs
    BY DEF HumanSlots, SlotsThatAre
  <2>2. IsFiniteSet(SIDs)
    BY FS_Interval, SlotsAssumption DEF SIDs
  <2> QED BY <2>1, <2>2, FS_Subset
<1>3. p \in Surjection(moved, moved)
  <2>1. p \in Injection(moved, moved)
    BY <1>1 DEF Injection, IsInjective
  <2> QED BY <1>2, <2>1, FS_Injection
<1>4. \A j \in moved : \E i \in moved : p[i] = j
  BY <1>3 DEF Surjection
<1> DEFINE g == [i \in SIDs |-> IF i \in moved THEN p[i] ELSE i]
<1>5. \A i \in SIDs : g[i] = IF i \in moved THEN p[i] ELSE i
  OBVIOUS
<1>6. g \in [SIDs -> SIDs]
  BY <1>1, <1>2
<1> HIDE DEF g
<1>7. \A i \in moved : g[i] \in moved
  BY <1>2, <1>5
<1>8. \A i, j \in SIDs : g[i] = g[j] => i = j
  BY <1>1, <1>5, <1>7
<1>9. \A j \in SIDs : \E i \in SIDs : g[i] = j
  BY <1>2, <1>4, <1>5
<1>10. \A i \in SIDs : slots'[i] = slots[g[i]]
  BY <1>1, <1>5
<1>11. \A i \in SIDs : i \in HumanSlots' <=> g[i] \in HumanSlots
  BY <1>6, <1>10 DEF HumanSlots, SlotsThatAre
<1>12. Staying' = Staying /\ player' = player /\ fakePlayerPID' = fakePlayerPID
  BY DEF ShuffleCommand, NothingButSlots, Staying, Live, LiveIn
<1> QED BY <1>6, <1>8, <1>9, <1>10, <1>11, <1>12, TradedMatch

(* Players who are marked for deletion stay no longer.                         *)
LEMMA MarkedLeave ==
  ASSUME TypeOK, NEW T \in SUBSET Live,
         player' = [c \in Conns |-> IF c \in T
                        THEN [player[c] EXCEPT !.deleteMe = TRUE] ELSE player[c]]
  PROVE  /\ Staying' = Staying \ T
         /\ \A c \in Live : player'[c].pid = player[c].pid
<1>1. T \in SUBSET Present /\ Live \subseteq Conns
  BY DEF Live, LiveIn, Present
<1>2. Live' = Live /\ \A c \in Live : player'[c].pid = player[c].pid
  BY <1>1, MarkedSame DEF SamePlayers
<1>3. ASSUME NEW c \in T PROVE player'[c].deleteMe = TRUE
  <2>1. c \in Conns /\ player[c] # NoPlayer
    BY <1>1 DEF Present
  <2>2. player[c] \in Player
    BY <2>1 DEF TypeOK
  <2>3. player'[c] = [player[c] EXCEPT !.deleteMe = TRUE]
    BY <2>1
  <2> QED BY <2>2, <2>3 DEF Player
<1>4. \A c \in Live \ T : player'[c] = player[c]
  BY <1>1
<1> QED BY <1>2, <1>3, <1>4 DEF Staying

\* A kick opens the slot of the player whom it marks.
LEMMA KickMatch ==
  ASSUME TypeInv, PIDsUnique, Matched, NEW c \in Live, Kick(c),
         fakePlayerPID' = fakePlayerPID
  PROVE  Matched'
<1>1. player' = [d \in Conns |-> IF d \in {c} THEN [player[d] EXCEPT !.deleteMe = TRUE]
                                 ELSE player[d]]
  BY DEF Kick, TypeInv, TypeOK
<1>2. Staying' = Staying \ {c} /\ \A d \in Live : player'[d].pid = player[d].pid
  <2>1. {c} \in SUBSET Live
    OBVIOUS
  <2> QED BY <1>1, <2>1, MarkedLeave DEF TypeInv
<1>3. slots' = [i \in SIDs |-> IF \E d \in {c} : i = SIDFromPID(slots, player[d].pid)
                               THEN OpenedSlot ELSE slots[i]]
  BY DEF Kick, OpenSlotOf
<1>4. {c} \in SUBSET Live /\ \A d \in Staying \ {c} : player'[d].pid = player[d].pid
  BY <1>2 DEF Staying
<1> QED BY <1>2, <1>3, <1>4, KickedMatch

\* A deletion opens the slot of its player, unless that was done before.
LEMMA DeletePlayerMatch ==
  ASSUME TypeInv, PIDsUnique, Matched, NobodyDisplaced, DeletePlayer
  PROVE  Matched'
<1>1. /\ Current \in Live /\ Live' = Live \ {Current}
      /\ \A c \in Live \ {Current} : player'[c] = player[c]
  BY DeletedIsGone DEF NobodyDisplaced, Live, LiveIn, Present
<1>2. Staying' = Staying \ {Current}
        /\ \A c \in Staying \ {Current} : player'[c].pid = player[c].pid
  BY <1>1 DEF Staying
<1>3. fakePlayerPID' = fakePlayerPID
  BY DEF DeletePlayer
<1>4. PICK lost \in BOOLEAN :
        /\ lost \/ Deleting(Current)
        /\ slots' = IF lost THEN OpenSlotOf(player[Current].pid) ELSE slots
  BY DEF DeletePlayer
<1>5. CASE lost
  <2>1. slots' = [i \in SIDs |-> IF \E d \in {Current} : i = SIDFromPID(slots, player[d].pid)
                                 THEN OpenedSlot ELSE slots[i]]
    BY <1>4, <1>5 DEF OpenSlotOf
  <2>2. {Current} \in SUBSET Live
    BY <1>1
  <2> QED BY <1>2, <1>3, <2>1, <2>2, KickedMatch
<1>6. CASE ~lost
  <2>1. slots' = slots /\ Current \notin Staying
    BY <1>4, <1>6 DEF Deleting, Staying
  <2>2. \A i \in SIDs : slots'[i].pid = slots[i].pid /\ (i \in HumanSlots' <=> i \in HumanSlots)
    BY <2>1 DEF HumanSlots, SlotsThatAre
  <2> QED BY <1>2, <1>3, <2>1, <2>2, SlotsStayMatch
<1> QED BY <1>5, <1>6

\* A command that overwrites a slot evicts its player.
LEMMA SlotCommandMatch ==
  ASSUME TypeInv, PIDsUnique, Matched, NEW command,
         NEW new \in {OpenedSlot, ClosedSlot, ComputersSlot}, SlotCommand(command, new)
  PROVE  Matched'
<1>1. PICK sid \in SIDs : /\ player' = EvictedFrom(sid)
                          /\ slots' = [slots EXCEPT ![sid] = new]
  BY DEF SlotCommand
<1>2. SeatedAt(sid) \in SUBSET Live
  BY DEF SeatedAt
<1>3. Staying' = Staying \ SeatedAt(sid) /\ \A c \in Live : player'[c].pid = player[c].pid
  BY <1>1, <1>2, MarkedLeave DEF EvictedFrom, TypeInv
<1>4. \A c \in Staying' : player'[c].pid = player[c].pid
  BY <1>3 DEF Staying
<1>5. fakePlayerPID' = fakePlayerPID
  BY DEF SlotCommand
<1> QED BY <1>1, <1>3, <1>4, <1>5, OverwrittenMatch

\* The spoof kick opens the slots of all whom it marks.
LEMMA KickUnspoofedMatch ==
  ASSUME TypeInv, PIDsUnique, Matched, NobodyDisplaced, KickUnspoofed
  PROVE  Matched'
<1>1. PICK k \in 0 .. settled :
        LET late == IF countDownStarted \/ ~RequireSpoofChecks THEN {}
                    ELSE {c \in Present : ~player[c].spoofed
                                            /\ \E i \in 1 .. k : players[i] = c}
        IN  /\ player' = [c \in Conns |->
                            IF c \in late THEN [player[c] EXCEPT !.deleteMe = TRUE]
                            ELSE player[c]]
            /\ slots' = [i \in SIDs |->
                            IF \E c \in late : i = SIDFromPID(slots, player[c].pid)
                            THEN OpenedSlot ELSE slots[i]]
  BY DEF KickUnspoofed
<1> DEFINE late == IF countDownStarted \/ ~RequireSpoofChecks THEN {}
                   ELSE {c \in Present : ~player[c].spoofed
                                           /\ \E i \in 1 .. k : players[i] = c}
<1>2. late \in SUBSET Live
  BY DEF NobodyDisplaced, Live, LiveIn, Present
<1>3. /\ player' = [c \in Conns |-> IF c \in late THEN [player[c] EXCEPT !.deleteMe = TRUE]
                                    ELSE player[c]]
      /\ slots' = [i \in SIDs |-> IF \E c \in late : i = SIDFromPID(slots, player[c].pid)
                                  THEN OpenedSlot ELSE slots[i]]
  BY <1>1
<1> HIDE DEF late
<1>4. Staying' = Staying \ late /\ \A c \in Live : player'[c].pid = player[c].pid
  BY <1>2, <1>3, MarkedLeave DEF TypeInv
<1>5. \A c \in Staying \ late : player'[c].pid = player[c].pid
  BY <1>4 DEF Staying
<1>6. fakePlayerPID' = fakePlayerPID
  BY DEF KickUnspoofed
<1> QED BY <1>2, <1>3, <1>4, <1>5, <1>6, KickedMatch

(* A step that leaves the slots and the players' PIDs and marks alone.          *)
LEMMA SameSlotsMatch ==
  ASSUME Matched, slots' = slots, fakePlayerPID' = fakePlayerPID, Staying' = Staying,
         \A c \in Staying : player'[c].pid = player[c].pid
  PROVE  Matched'
<1>1. \A i \in SIDs : slots'[i].pid = slots[i].pid /\ (i \in HumanSlots' <=> i \in HumanSlots)
  BY DEF HumanSlots, SlotsThatAre
<1> QED BY <1>1, SlotsStayMatch

(* !hold and a confirmation from battle.net change who is reserved or spoof     *)
(* checked, nothing else.                                                       *)
LEMMA HoldMatch ==
  ASSUME TypeInv, Matched, HoldCommand \/ AddToSpoofed
  PROVE  Matched'
<1>1. ASSUME NEW c \in Conns
      PROVE  /\ (player'[c] # NoPlayer) <=> (player[c] # NoPlayer)
             /\ c \in Present => /\ player'[c].pid = player[c].pid
                                 /\ player'[c].deleteMe = player[c].deleteMe
                                 /\ player'[c].leftMessageSent = player[c].leftMessageSent
  <2>1. /\ player'[c] \in {player[c], [player[c] EXCEPT !.reserved = TRUE],
                           [player[c] EXCEPT !.spoofed = TRUE]}
        /\ c \notin Present => player'[c] = player[c]
    BY DEF HoldCommand, AddToSpoofed, TypeInv, TypeOK, Live, LiveIn, Present
  <2>2. CASE c \in Present
    <3>1. player[c] \in Player
      BY <2>2 DEF Present, TypeInv, TypeOK
    <3>2. player'[c] \in Player
      BY <2>1, <3>1 DEF Player
    <3> QED BY <2>1, <2>2, <3>1, <3>2, NoPlayerAssumption DEF Player, Present
  <2>3. CASE c \notin Present
    BY <2>1, <2>3
  <2> QED BY <2>2, <2>3
<1>2. Staying' = Staying /\ \A c \in Staying : player'[c].pid = player[c].pid
  BY <1>1 DEF Staying, Live, LiveIn, Present
<1>3. slots' = slots /\ fakePlayerPID' = fakePlayerPID
  BY DEF HoldCommand, AddToSpoofed
<1> QED BY <1>2, <1>3, SameSlotsMatch

\* Every action keeps the matching while nobody is displaced.
LEMMA StepMatched ==
  TypeInv /\ PIDsUnique /\ Matched /\ NobodyDisplaced /\ NobodyDisplaced' /\ [Next]_vars
    => Matched'
<1> SUFFICES ASSUME TypeInv, PIDsUnique, Matched, NobodyDisplaced, NobodyDisplaced',
                    [Next]_vars
             PROVE  Matched'
  OBVIOUS
<1>1. CASE DeletePlayer
  BY <1>1, DeletePlayerMatch
<1>2. CASE LeaveByPacket
  <2>1. Current \in Live
    BY <1>2, CurrentIsPresent, NoPlayerAssumption
       DEF LeaveByPacket, TypeInv, LoopOK, NobodyDisplaced, Live, LiveIn, Present
  <2> QED BY <1>2, <2>1, KickMatch DEF LeaveByPacket
<1>3. CASE MapSize
  <2>1. PICK download \in DownloadStatus, sid \in SIDs :
            slots' = [slots EXCEPT ![sid].download = download]
    BY <1>3, SIDFromPIDFinds DEF MapSize
  <2>2. \A i \in SIDs : /\ slots'[i].pid = slots[i].pid /\ slots'[i].status = slots[i].status
                        /\ slots'[i].computer = slots[i].computer
    <3>1. slots[sid] \in Slot /\ slots'[sid] = [slots[sid] EXCEPT !.download = download]
            /\ \A i \in SIDs \ {sid} : slots'[i] = slots[i]
      BY <2>1 DEF TypeInv, TypeOK
    <3>2. /\ slots'[sid].pid = slots[sid].pid /\ slots'[sid].status = slots[sid].status
          /\ slots'[sid].computer = slots[sid].computer
      BY <3>1 DEF Slot
    <3> QED BY <3>1, <3>2
  <2>3. \A i \in SIDs : i \in HumanSlots' <=> i \in HumanSlots
    BY <2>2 DEF HumanSlots, SlotsThatAre
  <2>4. Staying' = Staying /\ player' = player /\ fakePlayerPID' = fakePlayerPID
    BY <1>3 DEF MapSize, NothingButSlots, Staying, Live, LiveIn
  <2> QED BY <2>2, <2>3, <2>4, SlotsStayMatch
<1>4. CASE ChangeTeam
  <2>1. PICK new \in SlotsThatAre("open"), sid \in SIDs : slots' = Swapped(sid, new)
    BY <1>4, SIDFromPIDFinds DEF ChangeTeam
  <2> QED BY <1>4, <2>1, SwappedMatch DEF ChangeTeam, SlotsThatAre
<1>5. CASE Joining
  BY <1>5, JoinMatch DEF Joining
<1>6. CASE KickUnspoofed
  BY <1>6, KickUnspoofedMatch
<1>7. CASE AddToSpoofed
  BY <1>7, HoldMatch
<1>8. CASE Command
  <2>1. CASE KickCommand
    BY <2>1, KickMatch DEF KickCommand
  <2>2. CASE OpenCommand \/ CloseCommand \/ ComputerCommand
    BY <2>2, SlotCommandMatch DEF OpenCommand, CloseCommand, ComputerCommand
  <2>3. ASSUME NEW command, NEW from \in {"open", "closed"}, NEW to \in {"open", "closed"},
               AllSlotsCommand(command, from, to)
        PROVE  Matched'
    <3>1. ASSUME NEW i \in SIDs
          PROVE  slots'[i].pid = slots[i].pid /\ (i \in HumanSlots' <=> i \in HumanSlots)
      <4>1. slots[i] \in Slot
        BY DEF TypeInv, TypeOK
      <4>2. CASE slots[i].status = from
        <5>1. slots'[i] = [slots[i] EXCEPT !.status = to]
          BY <2>3, <4>2 DEF AllSlotsCommand
        <5>2. slots'[i].pid = slots[i].pid /\ slots'[i].status = to
          BY <4>1, <5>1 DEF Slot
        <5> QED BY <4>2, <5>2 DEF HumanSlots, SlotsThatAre
      <4>3. CASE slots[i].status # from
        <5>1. slots'[i] = slots[i]
          BY <2>3, <4>3 DEF AllSlotsCommand
        <5> QED BY <5>1 DEF HumanSlots, SlotsThatAre
      <4> QED BY <4>2, <4>3
    <3>2. Staying' = Staying /\ player' = player /\ fakePlayerPID' = fakePlayerPID
      BY <2>3 DEF AllSlotsCommand, NothingButSlots, Staying, Live, LiveIn
    <3> QED BY <3>1, <3>2, SlotsStayMatch
  <2>4. CASE OpenAllCommand \/ CloseAllCommand
    BY <2>3, <2>4 DEF OpenAllCommand, CloseAllCommand
  <2>5. CASE SwapCommand
    BY <2>5, SwappedMatch DEF SwapCommand
  <2>6. CASE ShuffleCommand
    BY <2>6, ShuffledMatch
  <2>7. CASE HoldCommand
    BY <2>7, HoldMatch
  <2>8. CASE CreateFakePlayer
    BY <2>8, FakePlayerComesMatch
  <2>9. CASE DeleteFakePlayer
    BY <2>9, FakePlayerGoesMatch
  <2>10. CASE OwnerCommand \/ VirtualHostCommand \/ UnhostCommand
    <3>1. slots' = slots /\ player' = player /\ fakePlayerPID' = fakePlayerPID
      BY <2>10 DEF OwnerCommand, VirtualHostCommand, UnhostCommand
    <3>2. Staying' = Staying
      BY <3>1 DEF Staying, Live, LiveIn
    <3> QED BY <3>1, <3>2, SameSlotsMatch
  <2>11. CASE StartCommand \/ StartNowCommand \/ AbortCommand
    <3>1. slots' = slots /\ player' = player /\ fakePlayerPID' = fakePlayerPID
      BY <2>11 DEF StartCommand, BeginCountDown, StartNowCommand, AbortCommand
    <3>2. Staying' = Staying
      BY <3>1 DEF Staying, Live, LiveIn
    <3> QED BY <3>1, <3>2, SameSlotsMatch
  <2> QED BY <1>8, <2>1, <2>2, <2>4, <2>5, <2>6, <2>7, <2>8, <2>9, <2>10, <2>11 DEF Command
<1>9. CASE \/ ReadPackets \/ KeepPlayer \/ EndOfPlayers \/ EndOfPotentials \/ AutoStart
           \/ NoAutoStart \/ CountDown \/ NoCountDown \/ EventGameStarted \/ NextUpdate
           \/ UNCHANGED vars
  <2>1. slots' = slots /\ player' = player /\ fakePlayerPID' = fakePlayerPID
    BY <1>9 DEF ReadPackets, KeepPlayer, EndOfPlayers, EndOfPotentials, AutoStart,
          BeginCountDown, NoAutoStart, CountDown, NoCountDown, EventGameStarted,
          NextUpdate, vars
  <2>2. Staying' = Staying
    BY <2>1 DEF Staying, Live, LiveIn
  <2> QED BY <2>1, <2>2, SameSlotsMatch
<1> QED BY <1>1, <1>2, <1>3, <1>4, <1>5, <1>6, <1>7, <1>8, <1>9 DEF Next, Over, Joining

\* The lobby that CGHost creates matches: nobody is there.
LEMMA InitMatched == Init => Identity /\ FreeSlotsEmpty /\ Matched /\ NobodyDisplaced
<1> SUFFICES ASSUME Init PROVE Identity /\ FreeSlotsEmpty /\ Matched /\ NobodyDisplaced
  OBVIOUS
<1>1. /\ \A i \in SIDs : slots[i].pid = 0 /\ slots[i].status = "open"
      /\ Present = {} /\ Live = {}
      /\ virtualHostPID = None /\ fakePlayerPID = None /\ shown = {}
  BY DEF Init, OpenedSlot, Present, Live, LiveIn
<1>2. HumanSlots = {} /\ Staying = {}
  BY <1>1 DEF HumanSlots, SlotsThatAre, Staying
<1>3. Identity
  BY <1>1 DEF Identity, PIDsUnique, ShownAccurate
<1>4. Matched
  BY <1>1, <1>2 DEF Matched
<1> QED BY <1>1, <1>3, <1>4 DEF FreeSlotsEmpty, NobodyDisplaced

(* Slots and players match, whatever commands, kicks, leavers and joins do, as  *)
(* long as no newcomer displaces a player whose departure would be announced    *)
(* before its object is gone (EventPlayerJoined, EventPlayerDeleted, OpenSlot). *)
THEOREM SlotsMatchUnlessDisplaced == Spec /\ []NobodyDisplaced => []SlotsMatchPlayers
<1>1. TypeInv /\ Identity /\ Matched => SlotsMatchPlayers
  BY MatchedMatches DEF Identity
<1>2. TypeInv /\ Identity /\ Matched /\ NobodyDisplaced /\ NobodyDisplaced' /\ [Next]_vars
        => Matched'
  BY StepMatched DEF Identity
<1> QED BY <1>1, <1>2, InitTypeInv, StepTypeInv, StepIdentity, InitMatched, PTL DEF Spec

\* A host without hold list, with its owner elsewhere and no reserved admins: nobody
\* has a claim to a slot that is taken.
NobodyHasAClaim ==
    /\ Holds = {} /\ ReserveAdmins = FALSE /\ FirstOwner \notin Names
    /\ "hold" \notin Commands /\ "owner" \notin Commands

Unclaimed == reserved = {} /\ owner = FirstOwner /\ NobodyDisplaced

\* Where nobody has a claim no action makes one, and nobody is displaced.
LEMMA StepUnclaimed ==
  ASSUME NobodyHasAClaim, TypeInv, FreeSlotsEmpty, Unclaimed, [Next]_vars
  PROVE  Unclaimed'
<1>1. reserved' = reserved /\ owner' = owner
  <2>1. CASE Command
    <3>1. ~HoldCommand /\ ~OwnerCommand
      BY DEF NobodyHasAClaim, HoldCommand, OwnerCommand, Issued
    <3> QED BY <2>1, <3>1 DEF Command, KickCommand, OpenCommand, CloseCommand,
          ComputerCommand, SlotCommand, OpenAllCommand, CloseAllCommand, AllSlotsCommand,
          SwapCommand, ShuffleCommand, NothingButSlots, CreateFakePlayer, DeleteFakePlayer,
          VirtualHostCommand, UnhostCommand, StartCommand, BeginCountDown, StartNowCommand,
          AbortCommand, settings
  <2>2. CASE \E c \in Conns, name \in Names, lan \in BOOLEAN : Join(c, name, lan)
    BY <2>2 DEF Join, settings
  <2>3. CASE \/ ReadPackets \/ DeletePlayer \/ KeepPlayer \/ EndOfPlayers \/ LeaveByPacket
             \/ MapSize \/ ChangeTeam \/ EndOfPotentials \/ KickUnspoofed \/ AutoStart
             \/ NoAutoStart \/ CountDown \/ NoCountDown \/ EventGameStarted \/ AddToSpoofed
             \/ NextUpdate \/ UNCHANGED vars
    BY <2>3 DEF ReadPackets, DeletePlayer, KeepPlayer, EndOfPlayers, LeaveByPacket,
          MapSize, ChangeTeam, NothingButSlots, EndOfPotentials, KickUnspoofed, AutoStart,
          BeginCountDown, NoAutoStart, CountDown, NoCountDown, EventGameStarted,
          AddToSpoofed, NextUpdate, settings, vars
  <2> QED BY <2>1, <2>2, <2>3 DEF Next, Over
<1>2. Live \subseteq Present /\ Present \subseteq Live
  BY DEF Unclaimed, NobodyDisplaced, Live, LiveIn, Present
<1>3. Present' \subseteq Live'
  <2>1. CASE Joining
    <3>1. PICK c \in Conns, name \in Names, lan \in BOOLEAN : Join(c, name, lan)
      BY <2>1 DEF Joining
    <3>2. Newcomer(c, name, lan, SeatedAt(SlotFor(name)), player'[c].pid)
      BY <3>1, JoinPlayers
    <3>3. ~IsReserved(name) /\ ~IsOwner(name)
      BY DEF Unclaimed, NobodyHasAClaim, IsReserved, IsOwner
    <3>4. SlotFor(name) = EmptySlot /\ EmptySlot # None
      BY <3>1, <3>3 DEF Join, SlotFor
    <3>5. SlotFor(name) \in SIDs /\ slots[SlotFor(name)].status = "open"
      <4>1. SlotsThatAre("open") \in SUBSET SIDs /\ SIDs \subseteq Nat
        BY SlotsAssumption DEF SlotsThatAre, SIDs
      <4>2. EmptySlot \in SlotsThatAre("open")
        BY <3>4, <4>1, MinIsIn DEF EmptySlot
      <4> QED BY <3>4, <4>1, <4>2 DEF SlotsThatAre
    <3>6. SeatedAt(SlotFor(name)) = {}
      <4>1. slots[SlotFor(name)].pid = 0
        BY <3>5 DEF FreeSlotsEmpty
      <4>2. ASSUME NEW d \in Live PROVE player[d].pid # 0
        BY DEF TypeInv, TypeOK, Player, PIDs, Live, LiveIn
      <4> QED BY <4>1, <4>2 DEF SeatedAt
    <3> QED BY <1>2, <3>2, <3>6 DEF Newcomer
  <2>2. CASE DeletePlayer
    BY <1>2, <2>2, DeletedIsGone
  <2>3. CASE ~Removal
    <3>1. ~Joining
      BY <2>3 DEF Removal, Joining
    <3>2. Present' \subseteq Present
      BY <3>1, OthersKeepSpoofed DEF KeepsSpoofed
    <3>3. Live' = Live
      BY <2>3, OthersKeepPlayers DEF SamePlayers
    <3> QED BY <1>2, <3>2, <3>3
  <2> QED BY <2>1, <2>2, <2>3 DEF Removal, Joining
<1>4. NobodyDisplaced'
  BY <1>3 DEF NobodyDisplaced, Live, LiveIn, Present
<1> QED BY <1>1, <1>4 DEF Unclaimed

(* Slots and players match in every lobby in which nobody has a claim to a      *)
(* taken slot: without a reserved name or a present owner, GetEmptySlot never    *)
(* returns a slot that a player is in.                                          *)
THEOREM SlotsMatchWithoutClaims ==
  ASSUME NobodyHasAClaim
  PROVE  Spec => []SlotsMatchPlayers
<1>1. Init => Unclaimed
  BY InitMatched, NobodyHasAClaim DEF NobodyHasAClaim, Unclaimed, Init
<1>2. TypeInv /\ FreeSlotsEmpty /\ Unclaimed /\ [Next]_vars => Unclaimed'
  BY StepUnclaimed, NobodyHasAClaim
<1>3. Unclaimed => NobodyDisplaced
  BY DEF Unclaimed
<1> QED BY <1>1, <1>2, <1>3, InitTypeInv, StepTypeInv, InitMatched, StepFreeSlotsEmpty,
           SlotsMatchUnlessDisplaced, PTL DEF Spec
=============================================================================
