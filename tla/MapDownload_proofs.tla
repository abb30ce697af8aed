-------------------------- MODULE MapDownload_proofs --------------------------
(***************************************************************************)
(* Proofs about map downloads, for any players, size of the map, window    *)
(* and limits.                                                             *)
(***************************************************************************)
EXTENDS MapDownload, SequenceTheorems, TLAPS

USE MapDownloadAssumption

(* RemoveAt removes one element and keeps the others in their order.       *)
LEMMA RemoveAtProperties ==
  ASSUME NEW S, NEW s \in Seq(S), NEW n \in 1 .. Len(s)
  PROVE  /\ RemoveAt(s, n) \in Seq(S) /\ Len(RemoveAt(s, n)) = Len(s) - 1
         /\ \A i \in 1 .. Len(s) - 1 :
                RemoveAt(s, n)[i] = IF i < n THEN s[i] ELSE s[i + 1]
<1> DEFINE before == SubSeq(s, 1, n - 1)
           after  == SubSeq(s, n + 1, Len(s))
<1>1. /\ before \in Seq(S) /\ Len(before) = n - 1
      /\ \A i \in 1 .. n - 1 : before[i] = s[i]
  OBVIOUS
<1>2. /\ after \in Seq(S) /\ Len(after) = Len(s) - n
      /\ \A i \in 1 .. Len(s) - n : after[i] = s[n + i]
  OBVIOUS
<1>3. RemoveAt(s, n) = before \o after
  BY DEF RemoveAt
<1> HIDE DEF before, after
<1>4. /\ before \o after \in Seq(S) /\ Len(before \o after) = Len(s) - 1
      /\ \A i \in 1 .. Len(s) - 1 :
            (before \o after)[i] = IF i <= n - 1 THEN before[i] ELSE after[i - (n - 1)]
  <2>1. (n - 1) + (Len(s) - n) = Len(s) - 1
    OBVIOUS
  <2>2. /\ before \o after \in Seq(S) /\ Len(before \o after) = Len(before) + Len(after)
        /\ \A i \in 1 .. Len(before) + Len(after) :
              (before \o after)[i]
                 = IF i <= Len(before) THEN before[i] ELSE after[i - Len(before)]
    BY <1>1, <1>2, ConcatProperties
  <2> QED BY <1>1, <1>2, <2>1, <2>2
<1>5. ASSUME NEW i \in 1 .. Len(s) - 1
      PROVE  (before \o after)[i] = IF i < n THEN s[i] ELSE s[i + 1]
  <2>1. CASE i < n
    BY <1>1, <1>4, <2>1
  <2>2. CASE ~(i < n)
    <3>1. i - (n - 1) \in 1 .. Len(s) - n /\ n + (i - (n - 1)) = i + 1
      BY <2>2
    <3> QED BY <1>2, <1>4, <2>2, <3>1
  <2> QED BY <2>1, <2>2
<1> QED BY <1>3, <1>4, <1>5

-----------------------------------------------------------------------------
(* The inductive invariant.                                                *)

\* What is on its way to a client follows what it got.
PartsInOrder(p) ==
    /\ Len(toClient[p]) = lastSent[p] - got[p]
    /\ \A k \in 1 .. Len(toClient[p]) : toClient[p][k] = got[p] + k

\* Reports say no more than is true and never less than the one before, and only the
\* last part makes a map whole.
ReportsTrue(p) ==
    \A k \in 1 .. Len(toBot[p]) :
        /\ IF p \in hadMap THEN Whole(toBot[p][k]) ELSE toBot[p][k].size <= got[p]
        /\ toBot[p][k].size >= lastAcked[p]
        /\ Whole(toBot[p][k]) \/ toBot[p][k].size < MapParts
        /\ \A j \in 1 .. k : toBot[p][j].size <= toBot[p][k].size

\* Nothing is left of a player who was here before.
Fresh(p) ==
    /\ lastSent[p] = 0 /\ lastAcked[p] = 0 /\ got[p] = 0
    /\ toClient[p] = << >> /\ toBot[p] = << >> /\ p \notin hadMap

WithinWindow(p) == lastAcked[p] <= got[p] /\ lastSent[p] <= lastAcked[p] + Window

WithinLimit == MaxDownloadSpeed # 0 => downloadCounter <= MaxDownloadSpeed + 1

\* A slot that says 100 percent is right, and a marked player has no slot.
StatusTrue(p) ==
    /\ p \in Seated /\ status[p] = 100 => HasMap(p)
    /\ p \in marked => status[p] = Unknown

DInv ==
    /\ TypeOK
    /\ \A p \in Players : PartsInOrder(p) /\ ReportsTrue(p) /\ WithinWindow(p) /\ StatusTrue(p)
    /\ \A p \in Players \ Present : Fresh(p)
    /\ WithinLimit
    /\ EveryoneHasTheMap

\* A lobby without players keeps the invariant.
LEMMA InitDInv == Init => DInv
<1> SUFFICES ASSUME Init PROVE DInv
  OBVIOUS
<1>1. TypeOK
  <2>2. allowDownloads \in 0 .. 2
    BY DEF Init
  <2>3. toClient \in [Players -> Seq(1 .. MapParts)] /\ toBot \in [Players -> Seq(Reports)]
    BY DEF Init
  <2>4. players \in Seq(Players)
    BY DEF Init
  <2>5. /\ lastSent \in [Players -> 0 .. MapParts] /\ lastAcked \in [Players -> 0 .. MapParts]
        /\ got \in [Players -> 0 .. MapParts]
    <3>1. 0 \in 0 .. MapParts
      OBVIOUS
    <3> QED BY <3>1 DEF Init
  <2>8. status \in [Players -> (0 .. 100) \cup {Unknown}]
    BY DEF Init
  <2>6. /\ marked \subseteq Players /\ allowed \subseteq Players /\ started \subseteq Players
        /\ finished \subseteq Players /\ hadMap \subseteq Players
        /\ downloadCounter \in Nat /\ cursor \in Nat
    BY DEF Init
  <2>7. countDownStarted \in BOOLEAN /\ forced \in BOOLEAN /\ inGame \in BOOLEAN
    BY DEF Init
  <2> QED BY <2>2, <2>3, <2>4, <2>5, <2>6, <2>7, <2>8 DEF TypeOK
<1>2. ASSUME NEW p \in Players
      PROVE  PartsInOrder(p) /\ ReportsTrue(p) /\ WithinWindow(p) /\ StatusTrue(p) /\ Fresh(p)
  BY DEF Init, PartsInOrder, ReportsTrue, WithinWindow, StatusTrue, Fresh, Seated, Present
<1>3. WithinLimit /\ EveryoneHasTheMap
  BY DEF Init, WithinLimit, EveryoneHasTheMap, Seated, Present
<1> QED BY <1>1, <1>2, <1>3 DEF DInv

-----------------------------------------------------------------------------
(* Lemmas about the definitions.                                           *)

\* Only the whole map is 100 percent of it.
LEMMA WholePercent ==
  ASSUME NEW n \in 0 .. MapParts
  PROVE  Percent(n) \in 0 .. 100 /\ (n < MapParts => Percent(n) # 100)
<1> DEFINE q == (n * 100) \div MapParts
<1>1. q \in Int /\ MapParts * q <= n * 100 /\ n * 100 < MapParts * (q + 1)
  BY Z3
<1>2. q >= 0
  <2> SUFFICES ASSUME q + 1 <= 0 PROVE FALSE
    BY <1>1
  <2>1. MapParts * (q + 1) <= 0
    BY <1>1, Z3
  <2> QED BY <1>1, <2>1
<1>3. n < MapParts => q < 100
  <2> SUFFICES ASSUME n < MapParts, q >= 100 PROVE FALSE
    BY <1>1
  <2>1. MapParts * 100 <= MapParts * q
    BY <1>1, Z3
  <2> QED BY <1>1, <2>1
<1>4. q <= 100
  <2> SUFFICES ASSUME q >= 101 PROVE FALSE
    BY <1>1
  <2>1. MapParts * 101 <= MapParts * q
    BY <1>1, Z3
  <2> QED BY <1>1, <2>1
<1> QED BY <1>1, <1>2, <1>3, <1>4 DEF Percent

\* Deleting one player leaves the others where they are.
LEMMA Deleted ==
  ASSUME players \in Seq(Players), NEW i \in DOMAIN players, players' = RemoveAt(players, i)
  PROVE  /\ players' \in Seq(Players) /\ Present' \subseteq Present
         /\ \A q \in Present : q # players[i] => q \in Present'
<1>1. /\ players' \in Seq(Players) /\ Len(players') = Len(players) - 1
      /\ \A j \in 1 .. Len(players) - 1 :
            players'[j] = IF j < i THEN players[j] ELSE players[j + 1]
  BY RemoveAtProperties
<1>2. ASSUME NEW j \in 1 .. Len(players) - 1 PROVE players'[j] \in Present
  <2>1. j \in DOMAIN players /\ j + 1 \in DOMAIN players
    OBVIOUS
  <2> QED BY <1>1, <2>1 DEF Present
<1>3. ASSUME NEW j \in DOMAIN players, j # i PROVE players[j] \in Present'
  <2>1. CASE j < i
    <3>1. j \in DOMAIN players' /\ players'[j] = players[j]
      BY <1>1, <2>1
    <3> QED BY <3>1 DEF Present
  <2>2. CASE j > i
    <3>1. j - 1 \in 1 .. Len(players) - 1 /\ ~(j - 1 < i) /\ (j - 1) + 1 = j
      BY <2>2
    <3>2. players'[j - 1] = players[j] /\ DOMAIN players' = 1 .. Len(players) - 1
      BY <1>1, <3>1
    <3> QED BY <3>1, <3>2 DEF Present
  <2>3. j < i \/ j > i
    BY <1>3
  <2> QED BY <2>1, <2>2, <2>3
<1>4. Present' \subseteq Present
  <2>1. DOMAIN players' = 1 .. Len(players) - 1
    BY <1>1
  <2> QED BY <1>2, <2>1 DEF Present
<1>5. \A q \in Present : q # players[i] => q \in Present'
  BY <1>3 DEF Present
<1> QED BY <1>1, <1>4, <1>5

-----------------------------------------------------------------------------
(* The steps.                                                              *)

\* Nothing happens to a player's download.
Unaffected(p) ==
    /\ lastSent'[p] = lastSent[p] /\ lastAcked'[p] = lastAcked[p] /\ got'[p] = got[p]
    /\ toClient'[p] = toClient[p] /\ toBot'[p] = toBot[p]
    /\ p \in hadMap' <=> p \in hadMap

\* What concerns another player leaves a player's download as it is.
LEMMA UnaffectedKeeps ==
  ASSUME DInv, NEW p \in Players, Unaffected(p)
  PROVE  /\ PartsInOrder(p)' /\ ReportsTrue(p)' /\ WithinWindow(p)'
         /\ HasMap(p)' <=> HasMap(p)
         /\ Fresh(p) => Fresh(p)'
<1>1. PartsInOrder(p)' /\ WithinWindow(p)'
  BY DEF DInv, Unaffected, PartsInOrder, WithinWindow
<1>2. ReportsTrue(p)'
  BY DEF DInv, Unaffected, ReportsTrue
<1>3. (HasMap(p)' <=> HasMap(p)) /\ (Fresh(p) => Fresh(p)')
  BY DEF Unaffected, HasMap, Fresh
<1> QED BY <1>1, <1>2, <1>3

\* Commands and timers touch no download, and what they do to the countdown is right.
LEMMA NoDownloadChanges ==
  ASSUME DInv, TypeOK', UNCHANGED << players, window, clients >>,
         marked \subseteq marked',
         \A p \in Seated' : status'[p] = 100 => status[p] = 100,
         \A p \in marked' : status'[p] = Unknown \/ (p \in marked /\ status'[p] = status[p]),
         WithinLimit', EveryoneHasTheMap'
  PROVE  DInv'
<1>1. ASSUME NEW p \in Players PROVE Unaffected(p)
  BY DEF Unaffected, window, clients
<1>2. Present' = Present /\ Seated' \subseteq Seated
  BY DEF Present, Seated
<1>3. ASSUME NEW p \in Players PROVE StatusTrue(p)'
  BY <1>1, <1>2, UnaffectedKeeps DEF DInv, StatusTrue
<1>4. ASSUME NEW p \in Players \ Present' PROVE Fresh(p)'
  BY <1>1, <1>2, UnaffectedKeeps DEF DInv
<1> QED BY <1>1, <1>3, <1>4, UnaffectedKeeps DEF DInv

\* The players who matter to a countdown or a game stay and keep the map.
LEMMA StillEveryoneHasTheMap ==
  ASSUME DInv, UNCHANGED << players, forced >>, marked \subseteq marked',
         \A p \in Seated : HasMap(p) => HasMap(p)',
         inGame' \/ countDownStarted' => inGame \/ countDownStarted
  PROVE  EveryoneHasTheMap'
<1>1. Seated' \subseteq Seated
  BY DEF Present, Seated
<1> QED BY <1>1 DEF DInv, EveryoneHasTheMap

\* A player who leaves is only marked.
LEMMA LeaveStep == ASSUME DInv, NEW p \in Players, Leave(p) PROVE DInv'
<1>1. TypeOK'
  <2>1. status' \in [Players -> (0 .. 100) \cup {Unknown}]
    BY DEF DInv, TypeOK, Leave
  <2> QED BY <2>1 DEF DInv, TypeOK, Leave, permits, window, limits, clients
<1>2. /\ \A q \in Seated' : status'[q] = status[q]
      /\ \A q \in marked' : status'[q] = Unknown \/ (q \in marked /\ status'[q] = status[q])
  <2>1. /\ marked' = marked \cup {p} /\ marked \subseteq Players
        /\ status' = [status EXCEPT ![p] = Unknown] /\ DOMAIN status = Players
        /\ players \in Seq(Players) /\ players' = players
    BY DEF DInv, TypeOK, Leave
  <2>2. status'[p] = Unknown /\ \A q \in Players \ {p} : status'[q] = status[q]
    BY <2>1
  <2>3. Seated' \subseteq Players \ {p}
    BY <2>1 DEF Seated, Present
  <2> QED BY <2>1, <2>2, <2>3
<1>3. WithinLimit'
  BY DEF DInv, WithinLimit, Leave, limits
<1>4. EveryoneHasTheMap'
  BY StillEveryoneHasTheMap DEF Leave, HasMap, clients
<1> QED BY <1>1, <1>2, <1>3, <1>4, NoDownloadChanges DEF Leave

\* The counter of parts starts again.
LEMMA ResetStep == ASSUME DInv, ResetDownloadCounter PROVE DInv'
<1>1. status' = status
  BY DEF ResetDownloadCounter
<1>2. TypeOK'
  BY <1>1 DEF DInv, TypeOK, ResetDownloadCounter, lobby, permits, window, clients
<1>3. WithinLimit'
  BY DEF DInv, WithinLimit, ResetDownloadCounter, lobby
<1>4. EveryoneHasTheMap'
  BY StillEveryoneHasTheMap DEF ResetDownloadCounter, lobby, HasMap, clients
<1> QED BY <1>1, <1>2, <1>3, <1>4, NoDownloadChanges DEF ResetDownloadCounter, lobby

\* Permissions and the mode are free to change.
LEMMA CommandStep ==
  ASSUME DInv,
         \/ \E p \in Players : DownloadCommand(p)
         \/ \E mode \in Modes : SetDownloads(mode)
  PROVE  DInv'
<1>1. /\ UNCHANGED << lobby, window, limits, status, clients >>
      /\ allowDownloads' \in 0 .. 2
      /\ allowed' \subseteq Players /\ started' \subseteq Players /\ finished' \subseteq Players
  BY DEF DInv, TypeOK, DownloadCommand, SetDownloads, permits
<1>2. TypeOK'
  BY <1>1 DEF DInv, TypeOK, lobby, window, limits, clients
<1>3. WithinLimit'
  BY <1>1 DEF DInv, WithinLimit, limits, lobby
<1>4. EveryoneHasTheMap'
  BY <1>1, StillEveryoneHasTheMap DEF lobby, HasMap, clients
<1> QED BY <1>1, <1>2, <1>3, <1>4, NoDownloadChanges DEF lobby

\* A countdown that is aborted promised nothing.
LEMMA AbortStep == ASSUME DInv, AbortCommand PROVE DInv'
<1>1. TypeOK'
  BY DEF DInv, TypeOK, AbortCommand, AbortCountDown, permits, window, limits, clients
<1>2. WithinLimit'
  BY DEF DInv, WithinLimit, AbortCommand, limits
<1>3. EveryoneHasTheMap'
  BY DEF EveryoneHasTheMap, AbortCommand, AbortCountDown, Idle
<1> QED BY <1>1, <1>2, <1>3, NoDownloadChanges DEF AbortCommand

\* A countdown that is not forced starts when every player's slot shows the map.
LEMMA StartCountDownStep ==
  ASSUME DInv, NEW force \in BOOLEAN, StartCountDown(force) PROVE DInv'
<1>1. TypeOK'
  BY DEF DInv, TypeOK, StartCountDown, permits, window, limits, clients
<1>2. WithinLimit'
  BY DEF DInv, WithinLimit, StartCountDown, limits
<1>3. EveryoneHasTheMap'
  <2> SUFFICES ASSUME ~forced', NEW p \in Seated' PROVE HasMap(p)'
    BY DEF EveryoneHasTheMap
  <2>1. p \in Seated /\ (HasMap(p)' <=> HasMap(p))
    BY DEF StartCountDown, Seated, Present, HasMap, clients
  <2>2. p \in Players
    BY <2>1 DEF DInv, TypeOK, Seated, Present
  <2>3. status[p] = 100
    BY <2>1 DEF StartCountDown, EveryoneReported, StillDownloading
  <2> QED BY <2>1, <2>2, <2>3 DEF DInv, StatusTrue
<1> QED BY <1>1, <1>2, <1>3, NoDownloadChanges DEF StartCountDown

\* The slots that the countdown asked are still true when the game starts.
LEMMA StartGameStep == ASSUME DInv, EventGameStarted PROVE DInv'
<1>1. status' = status
  BY DEF EventGameStarted
<1>2. TypeOK'
  BY <1>1 DEF DInv, TypeOK, EventGameStarted, permits, window, limits,
     clients
<1>3. WithinLimit'
  BY DEF DInv, WithinLimit, EventGameStarted, limits
<1>4. EveryoneHasTheMap'
  BY StillEveryoneHasTheMap DEF EventGameStarted, HasMap, clients
<1> QED BY <1>1, <1>2, <1>3, <1>4, NoDownloadChanges DEF EventGameStarted

\* A player who joins starts afresh, whatever its connection was used for before.
LEMMA JoinStep == ASSUME DInv, NEW p \in Players, Join(p) PROVE DInv'
<1>1. /\ Present' = Present \cup {p} /\ players' \in Seq(Players)
      /\ Fresh(p) /\ lastSent' = lastSent /\ lastAcked' = lastAcked /\ got' = got /\ toClient' = toClient
  <2>1. players \in Seq(Players) /\ players' = Append(players, p)
    BY DEF DInv, TypeOK, Join
  <2>2. Present' = Present \cup {p}
    BY <2>1 DEF Present
  <2> QED BY <2>1, <2>2 DEF DInv, Join, window
<1>2. PICK whole \in BOOLEAN :
        /\ hadMap' = IF whole THEN hadMap \cup {p} ELSE hadMap
        /\ toBot' = [toBot EXCEPT ![p] = << Report(1, IF whole THEN MapParts ELSE 0) >>]
  BY DEF Join
<1> DEFINE r == Report(1, IF whole THEN MapParts ELSE 0)
<1>3. r \in Reports /\ r.size = (IF whole THEN MapParts ELSE 0) /\ r.flag = 1
  BY DEF Report, Reports
<1>4. toBot'[p] = << r >> /\ \A q \in Players \ {p} : toBot'[q] = toBot[q]
  BY <1>2 DEF DInv, TypeOK
<1>5. TypeOK'
  <2>1. toBot' \in [Players -> Seq(Reports)] /\ hadMap' \subseteq Players
    BY <1>2, <1>3 DEF DInv, TypeOK
  <2>2. status' \in [Players -> (0 .. 100) \cup {Unknown}]
    BY DEF DInv, TypeOK, Join
  <2> QED BY <1>1, <2>1, <2>2 DEF DInv, TypeOK, Join, AbortCountDown, permits, window, limits
<1>6. PartsInOrder(p)' /\ WithinWindow(p)'
  BY <1>1 DEF DInv, PartsInOrder, WithinWindow
<1>7. ReportsTrue(p)'
  <2>1. Len(toBot'[p]) = 1 /\ toBot'[p][1] = r
    BY <1>4
  <2>2. p \in hadMap' <=> whole
    BY <1>1, <1>2 DEF Fresh
  <2> HIDE DEF r
  <2>3. IF p \in hadMap' THEN Whole(r) ELSE r.size <= got'[p]
    BY <1>1, <1>3, <2>2 DEF Fresh, Whole
  <2>4. r.size >= lastAcked'[p] /\ (Whole(r) \/ r.size < MapParts) /\ r.size <= r.size
    BY <1>1, <1>3 DEF Fresh, Whole
  <2> QED BY <2>1, <2>3, <2>4 DEF ReportsTrue
<1>8. StatusTrue(p)'
  <2>1. status'[p] = Unknown
    BY DEF DInv, TypeOK, Join
  <2> QED BY <2>1 DEF StatusTrue
<1>9. ASSUME NEW q \in Players \ {p}
      PROVE  /\ PartsInOrder(q)' /\ ReportsTrue(q)' /\ WithinWindow(q)' /\ StatusTrue(q)'
             /\ q \notin Present' => Fresh(q)'
  <2>1. Unaffected(q)
    BY <1>1, <1>2, <1>4 DEF Unaffected
  <2>2. status'[q] = status[q]
    BY DEF DInv, TypeOK, Join
  <2>3. StatusTrue(q)'
    BY <1>1, <2>1, <2>2, UnaffectedKeeps DEF DInv, StatusTrue, Seated, Join
  <2> QED BY <1>1, <2>1, <2>3, UnaffectedKeeps DEF DInv
<1>10. WithinLimit' /\ EveryoneHasTheMap'
  <2>1. WithinLimit'
    BY DEF DInv, WithinLimit, Join, limits
  <2>2. EveryoneHasTheMap'
    BY DEF EveryoneHasTheMap, Join, AbortCountDown, Idle
  <2> QED BY <2>1, <2>2
<1>11. \A q \in Players : PartsInOrder(q)' /\ ReportsTrue(q)' /\ WithinWindow(q)' /\ StatusTrue(q)'
  BY <1>6, <1>7, <1>8, <1>9
<1>12. \A q \in Players \ Present' : Fresh(q)'
  BY <1>1, <1>9
<1> QED BY <1>5, <1>10, <1>11, <1>12 DEF DInv

\* Nothing is left of a player who is deleted.
LEMMA DeleteStep == ASSUME DInv, NEW p \in Players, EventPlayerDeleted(p) PROVE DInv'
<1>1. /\ players' \in Seq(Players) /\ Present' \subseteq Present
      /\ \A q \in Present : q # p => q \in Present'
  <2>1. PICK i \in DOMAIN players : players[i] = p /\ players' = RemoveAt(players, i)
    BY DEF EventPlayerDeleted
  <2> QED BY <2>1, Deleted DEF DInv, TypeOK
<1>2. /\ Fresh(p)'
      /\ \A q \in Players \ {p} : Unaffected(q)
  BY DEF DInv, TypeOK, EventPlayerDeleted, Fresh, Unaffected
<1>3. TypeOK'
  <2>1. /\ lastSent' \in [Players -> 0 .. MapParts] /\ lastAcked' \in [Players -> 0 .. MapParts]
        /\ got' \in [Players -> 0 .. MapParts]
        /\ toClient' \in [Players -> Seq(1 .. MapParts)] /\ toBot' \in [Players -> Seq(Reports)]
    <3>1. 0 \in 0 .. MapParts
      OBVIOUS
    <3>2. /\ lastSent \in [Players -> 0 .. MapParts] /\ lastSent' = [lastSent EXCEPT ![p] = 0]
          /\ lastAcked \in [Players -> 0 .. MapParts] /\ lastAcked' = [lastAcked EXCEPT ![p] = 0]
          /\ got \in [Players -> 0 .. MapParts] /\ got' = [got EXCEPT ![p] = 0]
          /\ toClient \in [Players -> Seq(1 .. MapParts)]
          /\ toClient' = [toClient EXCEPT ![p] = << >>]
          /\ toBot \in [Players -> Seq(Reports)] /\ toBot' = [toBot EXCEPT ![p] = << >>]
      BY DEF DInv, TypeOK, EventPlayerDeleted
    <3> QED BY <3>1, <3>2
  <2> QED BY <1>1, <2>1 DEF DInv, TypeOK, EventPlayerDeleted, AbortCountDown, limits
<1>4. PartsInOrder(p)' /\ ReportsTrue(p)' /\ WithinWindow(p)'
  BY <1>2 DEF Fresh, PartsInOrder, ReportsTrue, WithinWindow
<1>5. StatusTrue(p)'
  <2>1. status'[p] = Unknown
    BY DEF DInv, StatusTrue, EventPlayerDeleted
  <2> QED BY <2>1 DEF StatusTrue
<1>6. ASSUME NEW q \in Players \ {p} PROVE StatusTrue(q)'
  <2>1. (q \in Seated' => q \in Seated) /\ (q \in marked' => q \in marked) /\ status' = status
    BY <1>1 DEF EventPlayerDeleted, Seated
  <2> QED BY <1>2, <2>1, UnaffectedKeeps DEF DInv, StatusTrue
<1>7. ASSUME NEW q \in Players \ {p}, q \notin Present' PROVE Fresh(q)'
  <2>1. q \notin Present
    BY <1>1, <1>7
  <2> QED BY <1>2, <2>1, UnaffectedKeeps DEF DInv
<1>8. WithinLimit' /\ EveryoneHasTheMap'
  <2>1. WithinLimit'
    BY DEF DInv, WithinLimit, EventPlayerDeleted, limits
  <2>2. EveryoneHasTheMap'
    BY DEF EveryoneHasTheMap, EventPlayerDeleted, AbortCountDown, Idle
  <2> QED BY <2>1, <2>2
<1>9. \A q \in Players : PartsInOrder(q)' /\ ReportsTrue(q)' /\ WithinWindow(q)' /\ StatusTrue(q)'
  BY <1>2, <1>4, <1>5, <1>6, UnaffectedKeeps
<1>10. \A q \in Players \ Present' : Fresh(q)'
  BY <1>2, <1>7
<1> QED BY <1>3, <1>8, <1>9, <1>10 DEF DInv

-----------------------------------------------------------------------------
(* Reports, parts and what the client makes of them.                       *)

\* Reading the first report leaves true reports, of which none says less.
LEMMA ReportRemoved ==
  ASSUME DInv, NEW p \in Players, toBot[p] # << >>, toBot' = [toBot EXCEPT ![p] = Tail(@)],
         got'[p] = got[p], hadMap' = hadMap,
         lastAcked'[p] \in {lastAcked[p], Head(toBot[p]).size}
  PROVE  ReportsTrue(p)'
<1> DEFINE s == toBot[p]
<1>1. s \in Seq(Reports) /\ s # << >> /\ toBot'[p] = Tail(s)
  BY DEF DInv, TypeOK
<1>2. /\ Len(toBot'[p]) = Len(s) - 1
      /\ \A k \in 1 .. Len(s) - 1 : toBot'[p][k] = s[k + 1]
      /\ Head(s) = s[1] /\ Len(s) \in Nat \ {0}
  <2> HIDE DEF s
  <2>1. Len(Tail(s)) = Len(s) - 1 /\ \A k \in 1 .. Len(Tail(s)) : Tail(s)[k] = s[k + 1]
    BY <1>1, HeadTailProperties
  <2>2. Head(s) = s[1] /\ Len(s) \in Nat \ {0}
    BY <1>1, EmptySeq, LenProperties
  <2> QED BY <1>1, <2>1, <2>2
<1>3. /\ \A k \in 1 .. Len(s) : s[k].size >= lastAcked[p] /\ (Whole(s[k]) \/ s[k].size < MapParts)
      /\ \A k \in 1 .. Len(s) : IF p \in hadMap THEN Whole(s[k]) ELSE s[k].size <= got[p]
      /\ \A k \in 1 .. Len(s) : \A j \in 1 .. k : s[j].size <= s[k].size
  BY DEF DInv, ReportsTrue
<1>4. \A k \in 1 .. Len(s) : s[k].size \in Nat
  <2>1. \A k \in 1 .. Len(s) : s[k] \in Reports
    BY <1>1
  <2>2. \A r \in Reports : r.size \in Nat
    BY DEF Reports
  <2> QED BY <2>1, <2>2
<1> HIDE DEF s
<1>5. ASSUME NEW k \in 1 .. Len(s) - 1
      PROVE  /\ IF p \in hadMap' THEN Whole(s[k + 1]) ELSE s[k + 1].size <= got'[p]
             /\ s[k + 1].size >= lastAcked'[p]
             /\ Whole(s[k + 1]) \/ s[k + 1].size < MapParts
             /\ \A j \in 1 .. k : s[j + 1].size <= s[k + 1].size
  <2>1. k + 1 \in 1 .. Len(s) /\ 1 \in 1 .. k + 1 /\ \A j \in 1 .. k : j + 1 \in 1 .. k + 1
    BY <1>2
  <2>2. s[k + 1].size >= lastAcked[p] /\ s[1].size <= s[k + 1].size
    BY <1>3, <2>1
  <2>3. s[k + 1].size >= lastAcked'[p]
    BY <1>2, <1>4, <2>1, <2>2 DEF s
  <2> QED BY <1>3, <2>1, <2>3
<1>6. ASSUME NEW k \in 1 .. Len(toBot'[p])
      PROVE  /\ IF p \in hadMap' THEN Whole(toBot'[p][k]) ELSE toBot'[p][k].size <= got'[p]
             /\ toBot'[p][k].size >= lastAcked'[p]
             /\ Whole(toBot'[p][k]) \/ toBot'[p][k].size < MapParts
             /\ \A j \in 1 .. k : toBot'[p][j].size <= toBot'[p][k].size
  <2>1. k \in 1 .. Len(s) - 1 /\ \A j \in 1 .. k : j \in 1 .. Len(s) - 1
    BY <1>2
  <2>2. toBot'[p][k] = s[k + 1] /\ \A j \in 1 .. k : toBot'[p][j] = s[j + 1]
    BY <1>2, <2>1
  <2> QED BY <1>5, <2>1, <2>2
<1> QED BY <1>6 DEF ReportsTrue

\* What happens to one player's download does not touch the others.
LEMMA OneDownload ==
  ASSUME DInv, TypeOK', NEW p \in Present, p \in Players, players' = players,
         marked \subseteq marked', marked' \subseteq marked \cup {p},
         \A q \in Players \ {p} : Unaffected(q) /\ status'[q] = status[q],
         PartsInOrder(p)', ReportsTrue(p)', WithinWindow(p)', StatusTrue(p)',
         WithinLimit', EveryoneHasTheMap'
  PROVE  DInv'
<1>1. Present' = Present /\ Seated' \subseteq Seated
  BY DEF Present, Seated
<1>2. ASSUME NEW q \in Players \ {p} PROVE StatusTrue(q)'
  BY <1>1, UnaffectedKeeps DEF DInv, StatusTrue
<1>3. \A q \in Players : PartsInOrder(q)' /\ ReportsTrue(q)' /\ WithinWindow(q)' /\ StatusTrue(q)'
  BY <1>2, UnaffectedKeeps
<1>4. \A q \in Players \ Present' : Fresh(q)'
  BY <1>1, UnaffectedKeeps DEF DInv
<1> QED BY <1>3, <1>4 DEF DInv

\* A report is true, and so is the status that is noted for it.
LEMMA FirstReport ==
  ASSUME DInv, NEW p \in Players, Reporting(p), NEW r, r = Head(toBot[p])
  PROVE  /\ r \in Reports /\ r.size \in 0 .. MapParts
         /\ Tail(toBot[p]) \in Seq(Reports)
         /\ Whole(r) => HasMap(p)
         /\ ~Whole(r) => r.size < MapParts /\ r.size <= got[p] /\ r.size >= lastAcked[p]
         /\ p \in Present /\ p \notin marked
<1>1. toBot[p] \in Seq(Reports) /\ toBot[p] # << >> /\ got[p] \in 0 .. MapParts
  BY DEF DInv, TypeOK, Reporting
<1>2. r \in Reports /\ Tail(toBot[p]) \in Seq(Reports)
  BY <1>1, HeadTailProperties
<1>3. r.size \in 0 .. MapParts
  BY <1>2 DEF Reports
<1>4. 1 \in 1 .. Len(toBot[p]) /\ toBot[p][1] = r
  BY <1>1, EmptySeq, LenProperties
<1>5. /\ IF p \in hadMap THEN Whole(r) ELSE r.size <= got[p]
      /\ r.size >= lastAcked[p] /\ (Whole(r) \/ r.size < MapParts)
  BY <1>4 DEF DInv, ReportsTrue
<1>6. Whole(r) => HasMap(p)
  BY <1>1, <1>3, <1>5 DEF Whole, HasMap
<1> QED BY <1>2, <1>3, <1>5, <1>6 DEF Reporting, Seated

\* A report moves what is acknowledged forward, to what has arrived.
LEMMA ReportStep == ASSUME DInv, NEW p \in Players, EventPlayerMapSize(p) PROVE DInv'
<1> DEFINE r == Head(toBot[p])
<1>1. Reporting(p) /\ ReportRead(p)
  BY DEF EventPlayerMapSize, ReportWhole, ReportKicks, ReportPart
<1>2. /\ r.size \in 0 .. MapParts /\ Tail(toBot[p]) \in Seq(Reports)
      /\ Whole(r) => HasMap(p)
      /\ ~Whole(r) => r.size < MapParts /\ r.size <= got[p] /\ r.size >= lastAcked[p]
      /\ p \in Present /\ p \notin marked
  BY <1>1, FirstReport
<1>3. Percent(r.size) \in 0 .. 100 /\ Percent(MapParts) \in 0 .. 100
      /\ (~Whole(r) => Percent(r.size) # 100)
  <2> HIDE DEF r
  <2>1. MapParts \in 0 .. MapParts
    OBVIOUS
  <2> QED BY <1>2, <2>1, WholePercent
<1>4. /\ lastAcked' = lastAcked \/ (~Whole(r) /\ lastAcked' = [lastAcked EXCEPT ![p] = r.size])
      /\ finished' \subseteq finished \cup {p} /\ started' \subseteq started \cup {p}
      /\ marked' = marked \/ marked' = marked \cup {p}
      /\ status' = [status EXCEPT ![p] = status'[p]]
      /\ \/ Whole(r) /\ status'[p] = Percent(MapParts) /\ marked' = marked
         \/ status'[p] = Unknown
         \/ ~Whole(r) /\ status'[p] = Percent(r.size) /\ marked' = marked
  <2>1. CASE ReportWhole(p)
    <3>1. status' = [status EXCEPT ![p] = Percent(MapParts)]
      BY <2>1 DEF ReportWhole, NoteStatus
    <3> QED BY <2>1, <3>1 DEF DInv, TypeOK, ReportWhole
  <2>2. CASE ReportKicks(p)
    <3>1. status' = [status EXCEPT ![p] = Unknown]
      BY <2>2 DEF ReportKicks
    <3>2. status'[p] = Unknown /\ status' = [status EXCEPT ![p] = status'[p]]
      BY <3>1 DEF DInv, TypeOK
    <3>3. /\ lastAcked' = lastAcked /\ finished' = finished /\ started' = started
          /\ marked' = marked \cup {p}
      BY <2>2 DEF ReportKicks
    <3> QED BY <3>1, <3>2, <3>3
  <2>3. CASE ReportPart(p)
    <3>1. status' = [status EXCEPT ![p] = Percent(r.size)]
      BY <2>3 DEF ReportPart, NoteStatus
    <3> QED BY <2>3, <3>1 DEF DInv, TypeOK, ReportPart
  <2> QED BY <2>1, <2>2, <2>3 DEF EventPlayerMapSize
<1> HIDE DEF r
<1>5. TypeOK'
  <2>1. toBot' \in [Players -> Seq(Reports)]
    BY <1>1, <1>2 DEF DInv, TypeOK, ReportRead
  <2>2. lastAcked' \in [Players -> 0 .. MapParts]
    BY <1>2, <1>4 DEF DInv, TypeOK
  <2>3. status'[p] \in (0 .. 100) \cup {Unknown}
    BY <1>3, <1>4
  <2>4. status' \in [Players -> (0 .. 100) \cup {Unknown}]
    BY <1>4, <2>3 DEF DInv, TypeOK
  <2> QED BY <1>1, <1>4, <2>1, <2>2, <2>4 DEF DInv, TypeOK, ReportRead, limits
<1>6. \A q \in Players \ {p} : Unaffected(q) /\ status'[q] = status[q]
  BY <1>1, <1>4 DEF DInv, TypeOK, ReportRead, Unaffected
<1>7. lastAcked'[p] \in {lastAcked[p], r.size} /\ (lastAcked'[p] # lastAcked[p] => ~Whole(r))
  BY <1>4 DEF DInv, TypeOK
<1>8. PartsInOrder(p)' /\ WithinWindow(p)'
  <2>1. PartsInOrder(p)'
    BY <1>1 DEF DInv, PartsInOrder, ReportRead
  <2>2. /\ lastAcked[p] \in Nat /\ got[p] \in Nat /\ lastSent[p] \in Nat /\ r.size \in Nat
        /\ WithinWindow(p)
    BY <1>2 DEF DInv, TypeOK
  <2> QED BY <1>1, <1>2, <1>7, <2>1, <2>2 DEF WithinWindow, ReportRead
<1>9. ReportsTrue(p)'
  BY <1>1, <1>7, ReportRemoved DEF r, Reporting, ReportRead
<1>10. \A q : HasMap(q)' <=> HasMap(q)
  BY <1>1 DEF HasMap, ReportRead
<1>11. StatusTrue(p)'
  <2>1. p \in marked' => status'[p] = Unknown
    BY <1>2, <1>4
  <2>2. Unknown # 100
    OBVIOUS
  <2>3. status'[p] = 100 => HasMap(p)'
    BY <1>2, <1>3, <1>4, <1>10, <2>2
  <2> QED BY <2>1, <2>3 DEF StatusTrue
<1>12. WithinLimit' /\ EveryoneHasTheMap'
  <2>1. WithinLimit'
    BY <1>1 DEF DInv, WithinLimit, ReportRead, limits
  <2>2. EveryoneHasTheMap'
    BY <1>1, <1>4, <1>10, StillEveryoneHasTheMap DEF ReportRead
  <2> QED BY <2>1, <2>2
<1> QED BY <1>1, <1>2, <1>4, <1>5, <1>6, <1>8, <1>9, <1>11, <1>12, OneDownload DEF ReportRead

\* The loop sends no more than the window, the map and the limit leave room for.
LEMMA PartsForBounds ==
  ASSUME DInv, NEW p \in Players
  PROVE  /\ PartsFor(p) \in Nat
         /\ lastSent[p] + PartsFor(p) <= MapParts
         /\ lastSent[p] + PartsFor(p) <= lastAcked[p] + Window
         /\ MaxDownloadSpeed # 0 => downloadCounter + PartsFor(p) <= MaxDownloadSpeed + 1
<1>1. /\ lastSent[p] \in 0 .. MapParts /\ lastAcked[p] \in 0 .. MapParts /\ downloadCounter \in Nat
      /\ lastSent[p] <= lastAcked[p] + Window
      /\ MaxDownloadSpeed # 0 => downloadCounter <= MaxDownloadSpeed + 1
  BY DEF DInv, TypeOK, WithinWindow, WithinLimit
<1>2. /\ Room(p) \in Nat /\ lastSent[p] + Room(p) <= MapParts
      /\ lastSent[p] + Room(p) <= lastAcked[p] + Window
  BY <1>1 DEF Room
<1> QED BY <1>1, <1>2 DEF PartsFor, Throttled

\* A part continues what was sent, within window and speed limit.
LEMMA SendStep == ASSUME DInv, NEW p \in Players, SendMapParts(p) PROVE DInv'
<1> DEFINE n == PartsFor(p)
           sent == [k \in 1 .. n |-> lastSent[p] + k]
           s == toClient[p]
<1>1. /\ n \in Nat /\ lastSent[p] + n <= MapParts /\ lastSent[p] + n <= lastAcked[p] + Window
      /\ MaxDownloadSpeed # 0 => downloadCounter + n <= MaxDownloadSpeed + 1
  BY PartsForBounds
<1>2. /\ UNCHANGED << lobby, allowDownloads, permits, lastAcked, status, hadMap, got, toBot >>
      /\ toClient' = [toClient EXCEPT ![p] = s \o sent]
      /\ lastSent' = [lastSent EXCEPT ![p] = @ + n]
      /\ downloadCounter' = IF MaxDownloadSpeed = 0 THEN 0 ELSE downloadCounter + n
      /\ cursor' = 0 \/ cursor' = cursor + 1
      /\ p \in Present /\ ~inGame
  BY DEF SendMapParts, Downloading
<1>3. /\ lastSent[p] \in 0 .. MapParts /\ lastAcked[p] \in 0 .. MapParts /\ got[p] \in 0 .. MapParts
      /\ s \in Seq(1 .. MapParts) /\ Len(s) = lastSent[p] - got[p]
      /\ \A k \in 1 .. Len(s) : s[k] = got[p] + k
      /\ lastAcked[p] <= got[p] /\ Len(s) \in Nat
  BY LenProperties DEF DInv, TypeOK, PartsInOrder, WithinWindow
<1> HIDE DEF n, s
<1>4. /\ sent \in Seq(1 .. MapParts) /\ Len(sent) = n
      /\ \A k \in 1 .. n : sent[k] = lastSent[p] + k
  <2>1. \A k \in 1 .. n : lastSent[p] + k \in 1 .. MapParts
    BY <1>1, <1>3
  <2>2. sent \in [1 .. n -> 1 .. MapParts]
    BY <2>1
  <2> QED BY <1>1, <2>2
<1> HIDE DEF sent
<1>5. /\ s \o sent \in Seq(1 .. MapParts) /\ Len(s \o sent) = lastSent[p] + n - got[p]
      /\ \A k \in 1 .. Len(s \o sent) : (s \o sent)[k] = got[p] + k
  <2>1. /\ s \o sent \in Seq(1 .. MapParts) /\ Len(s \o sent) = Len(s) + n
        /\ \A k \in 1 .. Len(s) + n :
              (s \o sent)[k] = IF k <= Len(s) THEN s[k] ELSE sent[k - Len(s)]
    <3>1. s \in Seq(1 .. MapParts) /\ sent \in Seq(1 .. MapParts) /\ Len(sent) = n
      BY <1>3, <1>4
    <3>2. /\ s \o sent \in Seq(1 .. MapParts) /\ Len(s \o sent) = Len(s) + Len(sent)
          /\ \A k \in 1 .. Len(s) + Len(sent) :
                (s \o sent)[k] = IF k <= Len(s) THEN s[k] ELSE sent[k - Len(s)]
      BY <3>1, ConcatProperties
    <3> QED BY <3>1, <3>2
  <2>2. ASSUME NEW k \in 1 .. Len(s) + n PROVE (s \o sent)[k] = got[p] + k
    <3>1. CASE k <= Len(s)
      <4>1. k \in 1 .. Len(s)
        BY <1>3, <3>1
      <4> QED BY <1>3, <2>1, <3>1, <4>1
    <3>2. CASE k > Len(s)
      <4>0. /\ k \in Int /\ Len(s) \in Int /\ n \in Int /\ lastSent[p] \in Int /\ got[p] \in Int
            /\ Len(s) = lastSent[p] - got[p] /\ k <= Len(s) + n
        BY <1>1, <1>3
      <4>1. k - Len(s) \in 1 .. n /\ lastSent[p] + (k - Len(s)) = got[p] + k
        BY <3>2, <4>0
      <4> QED BY <1>3, <1>4, <2>1, <3>2, <4>1
    <3>3. k \in Int /\ Len(s) \in Int
      BY <1>1, <1>3
    <3>4. k <= Len(s) \/ k > Len(s)
      BY <3>3
    <3> QED BY <3>1, <3>2, <3>4, Zenon
  <2>3. Len(s) + n = lastSent[p] + n - got[p]
    BY <1>1, <1>3
  <2> QED BY <2>1, <2>2, <2>3
<1>6. toClient'[p] = s \o sent /\ lastSent'[p] = lastSent[p] + n
  BY <1>2 DEF DInv, TypeOK
<1>7. TypeOK'
  <2>1. lastSent' \in [Players -> 0 .. MapParts]
    <3>1. lastSent[p] + n \in 0 .. MapParts
      BY <1>1, <1>3
    <3> QED BY <1>2, <3>1 DEF DInv, TypeOK
  <2>2. toClient' \in [Players -> Seq(1 .. MapParts)]
    BY <1>2, <1>5 DEF DInv, TypeOK
  <2>3. downloadCounter' \in Nat /\ cursor' \in Nat
    BY <1>1, <1>2 DEF DInv, TypeOK
  <2> QED BY <1>2, <2>1, <2>2, <2>3 DEF DInv, TypeOK, lobby, permits
<1>8. \A q \in Players \ {p} : Unaffected(q) /\ status'[q] = status[q]
  BY <1>2 DEF DInv, TypeOK, Unaffected
<1>9. PartsInOrder(p)' /\ WithinWindow(p)'
  <2>1. got' = got /\ lastAcked' = lastAcked
    BY <1>2
  <2>2. PartsInOrder(p)'
    <3>1. /\ Len(toClient'[p]) = lastSent'[p] - got'[p]
          /\ \A k \in 1 .. Len(toClient'[p]) : toClient'[p][k] = got'[p] + k
      <4>1. toClient'[p] = s \o sent /\ lastSent'[p] = lastSent[p] + n /\ got'[p] = got[p]
        BY <1>6, <2>1
      <4>2. Len(toClient'[p]) = lastSent'[p] - got'[p]
        BY <1>1, <1>3, <1>5, <4>1
      <4>3. \A k \in 1 .. Len(toClient'[p]) : toClient'[p][k] = got'[p] + k
        BY <1>5, <4>1, Zenon
      <4> QED BY <4>2, <4>3
    <3> QED BY <3>1 DEF PartsInOrder
  <2> QED BY <1>1, <1>3, <1>6, <2>1, <2>2 DEF WithinWindow
<1>10. ReportsTrue(p)'
  <2>1. toBot' = toBot /\ got' = got /\ lastAcked' = lastAcked /\ hadMap' = hadMap /\ ReportsTrue(p)
    BY <1>2 DEF DInv
  <2> QED BY <2>1 DEF ReportsTrue
<1>11. \A q : HasMap(q)' <=> HasMap(q)
  BY <1>2 DEF HasMap
<1>12. StatusTrue(p)'
  <2>1. StatusTrue(p) /\ status' = status /\ marked' = marked /\ players' = players
    BY <1>2 DEF DInv, lobby
  <2> QED BY <1>11, <2>1 DEF StatusTrue, Seated, Present
<1>13. WithinLimit' /\ EveryoneHasTheMap'
  <2>1. WithinLimit'
    BY <1>1, <1>2 DEF WithinLimit
  <2>2. EveryoneHasTheMap'
    BY <1>2, <1>11, StillEveryoneHasTheMap DEF lobby
  <2> QED BY <2>1, <2>2
<1>14. players' = players /\ marked' = marked
  BY <1>2 DEF lobby
<1> QED BY <1>2, <1>7, <1>8, <1>9, <1>10, <1>12, <1>13, <1>14, OneDownload

\* A client takes the part that continues what it has, and reports it.
LEMMA ReceiveStep == ASSUME DInv, NEW p \in Players, ReceivePart(p) PROVE DInv'
<1> DEFINE s == toClient[p]
           b == toBot[p]
           part == got[p] + 1
           r == Report(IF part = MapParts THEN 1 ELSE 3, part)
<1>1. /\ UNCHANGED << lobby, allowDownloads, permits, window, limits, status, hadMap >>
      /\ got' = [got EXCEPT ![p] = Head(s)] /\ toClient' = [toClient EXCEPT ![p] = Tail(s)]
      /\ toBot' = IF p \in hadMap THEN toBot
                  ELSE [toBot EXCEPT ![p] =
                          Append(b, Report(IF Head(s) = MapParts THEN 1 ELSE 3, Head(s)))]
      /\ p \in Present /\ s # << >> /\ ~inGame
  BY DEF ReceivePart, Idle
<1>2. /\ lastSent[p] \in 0 .. MapParts /\ lastAcked[p] \in 0 .. MapParts /\ got[p] \in 0 .. MapParts
      /\ s \in Seq(1 .. MapParts) /\ Len(s) = lastSent[p] - got[p]
      /\ \A k \in 1 .. Len(s) : s[k] = got[p] + k
      /\ b \in Seq(Reports) /\ Len(s) \in Nat
      /\ lastAcked[p] <= got[p] /\ lastSent[p] <= lastAcked[p] + Window
  BY LenProperties DEF DInv, TypeOK, PartsInOrder, WithinWindow
<1> HIDE DEF s
<1>3. /\ Head(s) = part /\ part \in 1 .. MapParts
      /\ Tail(s) \in Seq(1 .. MapParts) /\ Len(Tail(s)) = Len(s) - 1
      /\ \A k \in 1 .. Len(Tail(s)) : Tail(s)[k] = part + k
  <2>1. Head(s) = s[1] /\ 1 \in 1 .. Len(s)
    BY <1>1, <1>2, EmptySeq, LenProperties
  <2>2. s[1] = part
    BY <1>2, <2>1
  <2>3. /\ Head(s) \in 1 .. MapParts /\ Tail(s) \in Seq(1 .. MapParts) /\ Len(Tail(s)) = Len(s) - 1
        /\ \A k \in 1 .. Len(Tail(s)) : Tail(s)[k] = s[k + 1]
    BY <1>1, <1>2, HeadTailProperties
  <2>4. ASSUME NEW k \in 1 .. Len(Tail(s)) PROVE Tail(s)[k] = part + k
    <3>1. k + 1 \in 1 .. Len(s) /\ got[p] + (k + 1) = part + k
      <4>1. k \in Int /\ Len(s) \in Int /\ got[p] \in Int /\ 1 <= k /\ k <= Len(s) - 1
        BY <1>2, <2>3
      <4> QED BY <4>1
    <3> QED BY <1>2, <2>3, <3>1
  <2> QED BY <2>1, <2>2, <2>3, <2>4
<1>4. r \in Reports /\ r.size = part /\ (Whole(r) \/ r.size < MapParts)
  BY <1>3 DEF Report, Reports, Whole
<1>5. /\ got'[p] = part /\ toClient'[p] = Tail(s)
      /\ p \in hadMap => toBot' = toBot
      /\ p \notin hadMap => toBot' = [toBot EXCEPT ![p] = Append(b, r)] /\ toBot'[p] = Append(b, r)
  BY <1>1, <1>3 DEF DInv, TypeOK
<1> HIDE DEF b, r
<1>6. /\ Append(b, r) \in Seq(Reports) /\ Len(Append(b, r)) = Len(b) + 1
      /\ \A k \in 1 .. Len(b) : Append(b, r)[k] = b[k]
      /\ Append(b, r)[Len(b) + 1] = r /\ Len(b) \in Nat
  BY <1>2, <1>4, AppendProperties, LenProperties
<1>7. TypeOK'
  <2>1. got' \in [Players -> 0 .. MapParts]
    <3>1. Head(s) \in 0 .. MapParts
      BY <1>3
    <3> QED BY <1>1, <3>1 DEF DInv, TypeOK
  <2>2. toClient' \in [Players -> Seq(1 .. MapParts)]
    BY <1>1, <1>3 DEF DInv, TypeOK
  <2>3. toBot' \in [Players -> Seq(Reports)]
    BY <1>5, <1>6 DEF DInv, TypeOK
  <2> QED BY <1>1, <2>1, <2>2, <2>3 DEF DInv, TypeOK, lobby, permits, window, limits
<1>8. \A q \in Players \ {p} : Unaffected(q) /\ status'[q] = status[q]
  BY <1>1 DEF DInv, TypeOK, Unaffected, window
<1>9. PartsInOrder(p)' /\ WithinWindow(p)'
  <2>1. lastSent' = lastSent /\ lastAcked' = lastAcked
    BY <1>1 DEF window
  <2>2. PartsInOrder(p)'
    <3>1. Len(toClient'[p]) = lastSent'[p] - got'[p]
      <4>1. Len(toClient'[p]) = Len(s) - 1 /\ got'[p] = got[p] + 1 /\ lastSent'[p] = lastSent[p]
        BY <1>3, <1>5, <2>1
      <4>2. lastSent[p] \in Int /\ got[p] \in Int /\ Len(s) = lastSent[p] - got[p]
        BY <1>2
      <4> HIDE DEF part
      <4> QED BY <4>1, <4>2
    <3>2. \A k \in 1 .. Len(toClient'[p]) : toClient'[p][k] = got'[p] + k
      BY <1>3, <1>5
    <3> QED BY <3>1, <3>2 DEF PartsInOrder
  <2>3. lastAcked[p] <= part
    BY <1>2
  <2>4. WithinWindow(p)'
    BY <1>2, <1>5, <2>1, <2>3 DEF WithinWindow
  <2> QED BY <2>2, <2>4
<1>10. /\ \A k \in 1 .. Len(b) :
             /\ IF p \in hadMap THEN Whole(b[k]) ELSE b[k].size <= got[p]
             /\ b[k].size >= lastAcked[p] /\ (Whole(b[k]) \/ b[k].size < MapParts)
             /\ b[k].size \in Nat
             /\ \A j \in 1 .. k : b[j].size <= b[k].size
  <2>1. \A k \in 1 .. Len(b) : b[k] \in Reports
    BY <1>2
  <2>2. \A x \in Reports : x.size \in Nat
    BY DEF Reports
  <2> QED BY <2>1, <2>2 DEF DInv, ReportsTrue, b
<1>11. ReportsTrue(p)'
  <2>1. hadMap' = hadMap /\ lastAcked' = lastAcked
    BY <1>1 DEF window
  <2>2. CASE p \in hadMap
    BY <1>5, <2>1, <2>2 DEF DInv, ReportsTrue
  <2>3. CASE p \notin hadMap
    <3> SUFFICES ASSUME NEW k \in 1 .. Len(b) + 1
                 PROVE  /\ Append(b, r)[k].size <= part
                        /\ Append(b, r)[k].size >= lastAcked[p]
                        /\ Whole(Append(b, r)[k]) \/ Append(b, r)[k].size < MapParts
                        /\ \A j \in 1 .. k : Append(b, r)[j].size <= Append(b, r)[k].size
      BY <1>5, <1>6, <2>1, <2>3 DEF ReportsTrue
    <3>1. CASE k \in 1 .. Len(b)
      <4>1. Append(b, r)[k] = b[k] /\ \A j \in 1 .. k : j \in 1 .. Len(b) /\ Append(b, r)[j] = b[j]
        BY <1>6, <3>1
      <4>2. b[k].size <= got[p] /\ b[k].size \in Nat
        BY <1>10, <2>3, <3>1
      <4>3. b[k].size >= lastAcked[p] /\ (Whole(b[k]) \/ b[k].size < MapParts)
        BY <1>10, <3>1
      <4>4. \A j \in 1 .. k : b[j].size <= b[k].size
        BY <1>10, <3>1
      <4>5. b[k].size <= part
        <5>1. got[p] \in Nat
          BY <1>2
        <5> QED BY <4>2, <5>1
      <4> QED BY <4>1, <4>3, <4>4, <4>5
    <3>2. CASE k = Len(b) + 1
      <4>1. Append(b, r)[k] = r
        BY <1>6, <3>2
      <4>2. ASSUME NEW j \in 1 .. k PROVE Append(b, r)[j].size <= part
        <5>1. CASE j \in 1 .. Len(b)
          <6>1. Append(b, r)[j] = b[j] /\ b[j].size <= got[p] /\ b[j].size \in Nat
            BY <1>6, <1>10, <2>3, <5>1
          <6>2. got[p] \in Nat
            BY <1>2
          <6> QED BY <6>1, <6>2
        <5>2. CASE j = Len(b) + 1
          <6>1. part \in Nat
            BY <1>2
          <6> QED BY <1>4, <1>6, <5>2, <6>1
        <5> QED BY <1>6, <3>2, <5>1, <5>2
      <4>3. r.size >= lastAcked[p]
        <5>1. r.size = got[p] + 1 /\ got[p] \in Nat /\ lastAcked[p] \in Nat /\ lastAcked[p] <= got[p]
          BY <1>2, <1>4
        <5> QED BY <5>1
      <4> QED BY <1>4, <4>1, <4>2, <4>3
    <3> QED BY <1>6, <3>1, <3>2
  <2> QED BY <2>2, <2>3
<1>12. \A q \in Players : HasMap(q) => HasMap(q)'
  <2>1. \A q \in Players \ {p} : HasMap(q) => HasMap(q)'
    BY <1>1, <1>8 DEF HasMap, Unaffected
  <2>2. HasMap(p) => HasMap(p)'
    BY <1>1, <1>2, <1>3 DEF HasMap
  <2> QED BY <2>1, <2>2
<1>13. StatusTrue(p)'
  <2>1. StatusTrue(p) /\ status' = status /\ marked' = marked /\ players' = players
    BY <1>1 DEF DInv, lobby
  <2> QED BY <1>12, <2>1 DEF StatusTrue, Seated, Present
<1>14. WithinLimit' /\ EveryoneHasTheMap'
  <2>1. WithinLimit'
    BY <1>1 DEF DInv, WithinLimit, limits, lobby
  <2>2. Seated \subseteq Players
    BY DEF DInv, TypeOK, Seated, Present
  <2>3. EveryoneHasTheMap'
    BY <1>1, <1>12, <2>2, StillEveryoneHasTheMap DEF lobby
  <2> QED BY <2>1, <2>3
<1>15. players' = players /\ marked' = marked
  BY <1>1 DEF lobby
<1> QED BY <1>1, <1>7, <1>8, <1>9, <1>11, <1>13, <1>14, <1>15, OneDownload

-----------------------------------------------------------------------------
(* The theorems.                                                           *)

\* Every action keeps the invariant.
LEMMA Step == DInv /\ [Next]_vars => DInv'
<1> SUFFICES ASSUME DInv, [Next]_vars PROVE DInv'
  OBVIOUS
<1>1. CASE UNCHANGED vars
  <2>1. UNCHANGED << lobby, allowDownloads, permits, window, limits, status, clients >>
    BY <1>1 DEF vars
  <2>2. TypeOK' /\ WithinLimit'
    BY <2>1 DEF DInv, TypeOK, WithinLimit, lobby, permits, window, limits, clients
  <2>3. EveryoneHasTheMap'
    BY <2>1, StillEveryoneHasTheMap DEF lobby, clients, HasMap
  <2> QED BY <2>1, <2>2, <2>3, NoDownloadChanges DEF lobby
<1>2. CASE \E p \in Players : \/ Join(p) \/ Leave(p) \/ EventPlayerDeleted(p) \/ EventPlayerMapSize(p)
                              \/ SendMapParts(p) \/ ReceivePart(p)
  BY <1>2, JoinStep, LeaveStep, DeleteStep, ReportStep, SendStep, ReceiveStep
<1>3. CASE \/ \E p \in Players : DownloadCommand(p)
           \/ \E mode \in Modes : SetDownloads(mode)
  BY <1>3, CommandStep
<1>4. CASE ResetDownloadCounter
  BY <1>4, ResetStep
<1>5. CASE AbortCommand
  BY <1>5, AbortStep
<1>6. CASE EventGameStarted
  BY <1>6, StartGameStep
<1>7. CASE \E force \in BOOLEAN : StartCountDown(force)
  BY <1>7, StartCountDownStep
<1> QED BY <1>1, <1>2, <1>3, <1>4, <1>5, <1>6, <1>7 DEF Next

\* The invariant holds in every reachable state.
LEMMA Invariance == Spec => []DInv
<1> QED BY InitDInv, Step, PTL DEF Spec

(* Whatever the window, the limits and the size of the map are, and whoever joins and      *)
(* leaves: parts arrive in order, at most the window is unreported, and the limit on the   *)
(* speed is kept (EventPlayerMapSize and the timer in Update that sends parts).            *)
THEOREM Flow == Spec => []FlowOK
<1>1. DInv => FlowOK
  <2> SUFFICES ASSUME DInv PROVE FlowOK
    OBVIOUS
  <2>1. ASSUME NEW p \in Players
        PROVE  /\ Len(toClient[p]) = lastSent[p] - got[p]
               /\ \A k \in DOMAIN toClient[p] : toClient[p][k] = got[p] + k
               /\ lastAcked[p] <= got[p] /\ lastSent[p] <= lastAcked[p] + Window
    <3>1. toClient[p] \in Seq(1 .. MapParts)
      BY DEF DInv, TypeOK
    <3>2. DOMAIN toClient[p] = 1 .. Len(toClient[p])
      BY <3>1, LenProperties
    <3> QED BY <3>2 DEF DInv, PartsInOrder, WithinWindow
  <2> QED BY <2>1 DEF DInv, FlowOK, WithinLimit
<1> QED BY <1>1, Invariance, PTL

(* A countdown that nobody forced, and the game it starts, has every player's map: what    *)
(* StartCountDown reads in the slots is true of the clients.                               *)
THEOREM MapsComplete == Spec => []EveryoneHasTheMap
<1>1. DInv => EveryoneHasTheMap
  BY DEF DInv
<1> QED BY <1>1, Invariance, PTL
=============================================================================
