---------------------------- MODULE Bnet_proofs ----------------------------
(***************************************************************************)
(* Proofs about what CGHost and its battle.net connections keep, which are *)
(* two modules with variables of their own:                                *)
(*   - the database queries (Database), for any names, any size of the pool*)
(*     and any number of open callables: the pool's books are right and a  *)
(*     nice exit that did not give up waiting leaves no thread behind;     *)
(*   - the games that are advertised (Hosting), for any servers and any    *)
(*     limits: no server goes on showing a game that is gone.              *)
(***************************************************************************)
EXTENDS Database, Hosting, FiniteSetTheorems, SequenceTheorems, WellFoundedInduction, TLAPS

-----------------------------------------------------------------------------
(* Database: callables and the pool.                                       *)

USE DatabaseAssumption

Stages == {"none", "running", "ready"}
Connections == {"open", "NULL"}
Callable == [stage : Stages, connection : Connections, ok : BOOLEAN, names : SUBSET Names]

\* Which queries there are and who owns them.
LEMMA QueryFacts ==
  /\ {BanList, GameAdd, GamePlayerAdd} \subseteq Queries
  /\ BanAdds("bnet") \cup BanAdds("game") \cup BanRemoves \subseteq Queries
  /\ BanList.owner = "bnet" /\ GameAdd.owner = "game" /\ GamePlayerAdd.owner = "orphans"
  /\ GameAdd # GamePlayerAdd
  /\ \A q \in Queries : q.owner \in {"bnet", "game", "orphans"}
  /\ \A q \in Queries : q.kind \in {"BanAdd", "BanRemove"} => q.name \in Names
  /\ \A q \in Queries : q.owner = "orphans" => q = GamePlayerAdd
  /\ \A n \in Names : /\ Query("BanAdd", "game", n) \in Queries
                      /\ Query("BanAdd", "game", n).owner = "game"
                      /\ Query("BanAdd", "bnet", n) \in Queries
                      /\ Query("BanAdd", "bnet", n).owner = "bnet"
                      /\ Query("BanRemove", "bnet", n) \in Queries
                      /\ Query("BanRemove", "bnet", n).owner = "bnet"
  /\ \A q \in BanAdds("bnet") \cup BanAdds("game") \cup BanRemoves : q.name \in Names
<1>1. /\ \A n \in Names : /\ Query("BanAdd", "game", n) \in BanAdds("game")
                          /\ Query("BanAdd", "bnet", n) \in BanAdds("bnet")
                          /\ Query("BanRemove", "bnet", n) \in BanRemoves
      /\ \A q \in BanAdds("game") : q.owner = "game" /\ q.kind = "BanAdd" /\ q.name \in Names
      /\ \A q \in BanAdds("bnet") : q.owner = "bnet" /\ q.kind = "BanAdd" /\ q.name \in Names
      /\ \A q \in BanRemoves : q.owner = "bnet" /\ q.kind = "BanRemove" /\ q.name \in Names
  BY DEF BanAdds, BanRemoves, Query
<1>2. /\ BanList.owner = "bnet" /\ GameAdd.owner = "game" /\ GamePlayerAdd.owner = "orphans"
      /\ BanList.kind = "BanList" /\ GameAdd.kind = "GameAdd" /\ GamePlayerAdd.kind = "GamePlayerAdd"
  BY DEF BanList, GameAdd, GamePlayerAdd, Query
<1>3. \A n : /\ Query("BanAdd", "game", n).owner = "game" /\ Query("BanAdd", "bnet", n).owner = "bnet"
            /\ Query("BanRemove", "bnet", n).owner = "bnet"
  BY DEF Query
<1>4. Queries = (BanAdds("bnet") \cup BanAdds("game")) \cup BanRemoves
                   \cup {BanList, GameAdd, GamePlayerAdd}
  BY DEF Queries
<1>5. \A q \in Queries : \/ q \in BanAdds("bnet") \/ q \in BanAdds("game") \/ q \in BanRemoves
                         \/ q = BanList \/ q = GameAdd \/ q = GamePlayerAdd
  BY <1>4
<1>6. \A q \in Queries : q.owner \in {"bnet", "game", "orphans"}
  BY <1>1, <1>2, <1>5
<1>7. \A q \in Queries : q.kind \in {"BanAdd", "BanRemove"} => q.name \in Names
  BY <1>1, <1>2, <1>5
<1>8. \A q \in Queries : q.owner = "orphans" => q = GamePlayerAdd
  BY <1>1, <1>2, <1>5
<1>9. \A q \in BanAdds("bnet") \cup BanAdds("game") \cup BanRemoves : q.name \in Names
  BY <1>1
<1>10. BanAdds("bnet") \cup BanAdds("game") \cup BanRemoves \subseteq Queries
  BY <1>4
<1>11. GameAdd # GamePlayerAdd
  BY <1>2
<1> QED BY <1>1, <1>2, <1>3, <1>4, <1>6, <1>7, <1>8, <1>9, <1>10, <1>11

-----------------------------------------------------------------------------
(* The inductive invariant: the types, the pool's books, and who owns what. *)

Typed ==
    /\ callable \in [Queries -> Callable] /\ orphans \subseteq Open
    /\ idle \in Seq(Connections) /\ Len(idle) <= MaxIdle + 1
    /\ bans \subseteq Names /\ database \subseteq Names
    /\ game \in {"playing", "saving", "gone"} /\ exiting \in {"no", "finished", "timeout"}
    /\ bnet \in BOOLEAN /\ gameRow \in BOOLEAN /\ playerRow \in BOOLEAN
    /\ exitingNice \in BOOLEAN /\ allFinished \in BOOLEAN /\ quiet \in BOOLEAN

Counted ==
    /\ IsFiniteSet(Open)
    /\ outstanding \in Nat /\ recounted \in Nat /\ numConnections \in Int
    /\ PoolCounted

(* An open callable that is no orphan has an owner that exists.             *)
Owned ==
    /\ \A q \in Open \ orphans :
        /\ q.owner = "bnet" => bnet
        /\ q.owner = "game" /\ game = "gone" => q = GameAdd /\ phase = "delete"
        /\ q.owner # "orphans"
    /\ phase = "delete" => GameAdd \in Ready
    /\ GameAdd \notin orphans
    /\ exiting = "finished" => game = "gone" /\ ~bnet /\ Open = {}

DInv == Typed /\ Counted /\ Owned

\* The bot starts without queries, connections and orphans.
LEMMA InitDInv == Init => DInv
<1> SUFFICES ASSUME Init PROVE DInv
  OBVIOUS
<1> USE DEF Init
<1>1. Open = {} /\ Absent \in Callable
  BY DEF Open, Absent, At, Callable, Stages, Connections
<1>2. idle \in Seq(Connections) /\ Len(idle) = 1
  BY DEF Connections
<1>3. Typed
  <2>1. callable \in [Queries -> Callable] /\ orphans \subseteq Open
    BY <1>1
  <2>2. bans \subseteq Names /\ database \subseteq Names
    OBVIOUS
  <2>3. Len(idle) <= MaxIdle + 1
    BY <1>2
  <2> QED BY <1>2, <2>1, <2>2, <2>3 DEF Typed
<1>4. Counted
  BY <1>1, <1>2, FS_EmptySet DEF Counted, PoolCounted
<1>5. Owned
  BY <1>1 DEF Owned
<1> QED BY <1>3, <1>4, <1>5 DEF DInv

-----------------------------------------------------------------------------
(* A thread takes an idle connection, or one more is counted.               *)
LEMMA ThreadDoes ==
  ASSUME Typed, Counted, NEW q \in Queries, Thread(q)
  PROVE  /\ callable' \in [Queries -> Callable] /\ Open' = Open \cup {q} /\ q \notin Open
         /\ \A r \in Queries \ {q} : callable'[r] = callable[r]
         /\ idle' \in Seq(Connections) /\ Len(idle') <= MaxIdle + 1
         /\ Counted'
<1>1. /\ callable[q].stage = "none"
      /\ idle' = IF idle = << >> THEN idle ELSE Tail(idle)
      /\ numConnections' = numConnections + IF GetIdleConnection = "NULL" THEN 1 ELSE 0
      /\ recounted' = recounted + IF GetIdleConnection = "NULL" /\ idle # << >> THEN 1 ELSE 0
      /\ outstanding' = outstanding + 1
  BY DEF Thread, WithoutFront
<1>2. PICK stage \in {"running", "ready"} :
        callable' = [callable EXCEPT ![q] = At(stage, GetIdleConnection)]
  BY DEF Thread
<1>3. idle \in Seq(Connections) /\ Len(idle) \in Nat /\ Len(idle) <= MaxIdle + 1
  BY DEF Typed
<1>4. GetIdleConnection \in Connections
  BY <1>3, HeadTailProperties DEF GetIdleConnection, Connections
<1>7. At(stage, GetIdleConnection) \in Callable /\ At(stage, GetIdleConnection).stage = stage
  BY <1>4 DEF At, Callable, Stages
<1>8. /\ callable' \in [Queries -> Callable] /\ callable'[q].stage = stage
      /\ \A r \in Queries \ {q} : callable'[r] = callable[r]
  BY <1>2, <1>7 DEF Typed
<1>9. Open' = Open \cup {q} /\ q \notin Open
  BY <1>1, <1>8 DEF Open
<1>10. idle' \in Seq(Connections) /\ Len(idle') = IF idle = << >> THEN 0 ELSE Len(idle) - 1
  <2>1. CASE idle = << >>
    BY <1>1, <1>3, <2>1
  <2>2. CASE idle # << >>
    BY <1>1, <1>3, <2>2, HeadTailProperties
  <2> QED BY <2>1, <2>2
<1>11. IsFiniteSet(Open') /\ Cardinality(Open') = Cardinality(Open) + 1
  BY <1>9, FS_AddElement DEF Counted
<1>12. Len(idle) = 0 <=> idle = << >>
  BY <1>3
<1>13. /\ outstanding \in Nat /\ recounted \in Nat /\ numConnections \in Int
       /\ outstanding = Cardinality(Open) /\ numConnections = Len(idle) + outstanding + recounted
  BY DEF Counted, PoolCounted
<1>14. /\ recounted' \in Nat /\ numConnections' \in Int
       /\ numConnections' = Len(idle') + (outstanding + 1) + recounted'
  <2>1. CASE idle = << >>
    <3>1. GetIdleConnection = "NULL"
      BY <2>1 DEF GetIdleConnection
    <3>2. numConnections' = numConnections + 1 /\ recounted' = recounted + 0
      BY <1>1, <2>1, <3>1
    <3>3. Len(idle') = 0 /\ Len(idle) = 0
      BY <1>10, <1>12, <2>1
    <3> QED BY <1>13, <3>2, <3>3
  <2>2. CASE idle # << >>
    <3>1. Len(idle') = Len(idle) - 1
      BY <1>10, <2>2
    <3>2. CASE GetIdleConnection = "NULL"
      <4>1. numConnections' = numConnections + 1 /\ recounted' = recounted + 1
        BY <1>1, <2>2, <3>2
      <4>2. Len(idle) \in Nat
        BY <1>3
      <4>3. Len(idle') \in Nat
        BY <1>10
      <4> QED BY <1>13, <3>1, <4>1, <4>2, <4>3
    <3>3. CASE GetIdleConnection # "NULL"
      <4>1. numConnections' = numConnections + 0 /\ recounted' = recounted + 0
        BY <1>1, <3>3
      <4>2. Len(idle) \in Nat
        BY <1>3
      <4>3. Len(idle') \in Nat
        BY <1>10
      <4> QED BY <1>13, <3>1, <4>1, <4>2, <4>3
    <3> QED BY <3>2, <3>3
  <2> QED BY <2>1, <2>2
<1>15. Counted'
  <2>1. outstanding' \in Nat /\ outstanding' = Cardinality(Open')
    BY <1>1, <1>11, <1>13
  <2> QED BY <1>1, <1>11, <1>14, <2>1 DEF Counted, PoolCounted
<1> QED BY <1>3, <1>8, <1>9, <1>10, <1>15

(* Each recovered connection goes back to the pool or is closed.            *)
LEMMA RecoverDoes ==
  ASSUME Typed, Counted, NEW done \in SUBSET Open, Recover(done)
  PROVE  /\ callable' \in [Queries -> Callable] /\ Open' = Open \ done
         /\ \A r \in Queries \ done : callable'[r] = callable[r]
         /\ orphans' = orphans \ done
         /\ idle' \in Seq(Connections) /\ Len(idle') <= MaxIdle + 1
         /\ Counted'
<1> DEFINE back == [i \in 1 .. Cardinality(done) |-> callable[SetToSeq(done)[i]].connection]
           given == idle \o back
           k == IF Capacity < Len(given) THEN Capacity ELSE Len(given)
<1>1. /\ idle' = SubSeq(given, 1, k)
      /\ numConnections' = numConnections - (Len(given) - Len(idle'))
      /\ outstanding' = outstanding - Cardinality(done)
      /\ callable' = [q \in Queries |-> IF q \in done THEN Absent ELSE callable[q]]
      /\ orphans' = orphans \ done /\ recounted' = recounted
  BY DEF Recover
<1>2. IsFiniteSet(done) /\ Cardinality(done) \in Nat /\ Cardinality(done) <= Cardinality(Open)
         /\ Cardinality(Open) \in Nat
  BY FS_Subset, FS_CardinalityType DEF Counted
<1>3. SetToSeq(done) \in [1 .. Cardinality(done) -> done]
  <2>1. \E f \in [1 .. Cardinality(done) -> done] : IsInjective(f)
    BY <1>2, FS_CardinalityType DEF ExistsBijection, Bijection, Injection
  <2> QED BY <2>1 DEF SetToSeq
<1>4. back \in Seq(Connections) /\ Len(back) = Cardinality(done)
  <2>1. ASSUME NEW i \in 1 .. Cardinality(done) PROVE back[i] \in Connections
    <3>1. SetToSeq(done)[i] \in Queries
      BY <1>3 DEF Open
    <3> QED BY <3>1 DEF Typed, Callable
  <2> HIDE DEF back
  <2>2. back = [i \in 1 .. Cardinality(done) |-> back[i]]
    BY DEF back
  <2> QED BY <1>2, <2>1, <2>2
<1> HIDE DEF back
<1>5. given \in Seq(Connections) /\ Len(given) = Len(idle) + Cardinality(done)
         /\ Len(idle) \in Nat /\ Len(idle) <= MaxIdle + 1
  <2>1. idle \in Seq(Connections) /\ Len(idle) \in Nat /\ Len(idle) <= MaxIdle + 1
    BY DEF Typed
  <2> QED BY <1>2, <1>4, <2>1, ConcatProperties
<1> HIDE DEF given
<1>6. k \in 0 .. Len(given) /\ k <= MaxIdle + 1
  BY <1>2, <1>5 DEF Capacity
<1> HIDE DEF k
<1>7. idle' \in Seq(Connections) /\ Len(idle') = k
  <2>1. \A i \in 1 .. k : given[i] \in Connections
    BY <1>5, <1>6
  <2> QED BY <1>1, <1>6, <2>1, SubSeqProperties
<1>8. Absent \in Callable /\ Absent.stage = "none"
  BY DEF Absent, At, Callable, Stages, Connections
<1>9. /\ callable' \in [Queries -> Callable] /\ Open' = Open \ done
      /\ \A r \in Queries \ done : callable'[r] = callable[r]
  BY <1>1, <1>8 DEF Typed, Open
<1>10. IsFiniteSet(Open') /\ Cardinality(Open') = Cardinality(Open) - Cardinality(done)
  <2>1. Open \cap done = done
    OBVIOUS
  <2> QED BY <1>9, <2>1, FS_Difference DEF Counted
<1>11. Counted'
  <2>1. outstanding = Cardinality(Open) /\ numConnections = Len(idle) + outstanding + recounted
          /\ recounted \in Nat
    BY DEF Counted, PoolCounted
  <2>2. outstanding' = Cardinality(Open') /\ outstanding' \in Nat
    BY <1>1, <1>2, <1>10, <2>1
  <2>3. numConnections' = Len(idle') + outstanding' + recounted' /\ numConnections' \in Int
    <3>1. k \in Int /\ outstanding \in Int
      BY <1>2, <1>6, <1>5, <2>1
    <3>2. Len(given) - Len(idle') = (Len(idle) + Cardinality(done)) - k
      BY <1>5, <1>7
    <3>3. numConnections' = numConnections - ((Len(idle) + Cardinality(done)) - k)
      <4>1. numConnections' = numConnections - (Len(given) - Len(idle'))
        BY <1>1, Zenon
      <4> QED BY <3>2, <4>1, Zenon
    <3>4. numConnections' = k + (outstanding - Cardinality(done)) + recounted
             /\ numConnections' \in Int
      <4>1. \A l, o, r, d, j \in Int :
              /\ (l + o + r) - ((l + d) - j) = j + (o - d) + r
              /\ j + (o - d) + r \in Int
        OBVIOUS
      <4>2. Len(idle) \in Int /\ recounted \in Int /\ Cardinality(done) \in Int
        BY <1>2, <1>5, <2>1
      <4>3. numConnections' = (Len(idle) + outstanding + recounted)
                                - ((Len(idle) + Cardinality(done)) - k)
        BY <2>1, <3>3, Zenon
      <4>4. /\ (Len(idle) + outstanding + recounted) - ((Len(idle) + Cardinality(done)) - k)
                 = k + (outstanding - Cardinality(done)) + recounted
            /\ k + (outstanding - Cardinality(done)) + recounted \in Int
        BY <3>1, <4>1, <4>2
      <4> QED BY <4>3, <4>4, Zenon
    <3> QED BY <1>1, <1>7, <3>4
  <2> QED BY <1>1, <1>10, <2>1, <2>2, <2>3 DEF Counted, PoolCounted
<1> QED BY <1>1, <1>6, <1>7, <1>9, <1>11

\* Whoever opens or closes no callable and leaves the pool alone keeps its books.
LEMMA CountedSame ==
  ASSUME Counted, Open' = Open, UNCHANGED pool
  PROVE  Counted'
BY DEF Counted, PoolCounted, pool

-----------------------------------------------------------------------------
(* The steps.                                                              *)

\* A worker that ends its query changes what the callable's stage is, not that it is
\* open.
LEMMA ExecuteStep ==
  ASSUME DInv, NEW q \in Queries, Execute(q)
  PROVE  DInv'
<1>1. /\ callable[q].stage = "running" /\ (Succeed(q) \/ Fail(q))
      /\ UNCHANGED << orphans, pool, bans, bnet, game, exit, phase, giveUps, quiet >>
  BY DEF Execute
<1>2. callable \in [Queries -> Callable] /\ callable[q] \in Callable
  BY DEF DInv, Typed
<1>3. /\ callable' \in [Queries -> Callable] /\ callable'[q].stage = "ready"
      /\ \A r \in Queries \ {q} : callable'[r] = callable[r]
  <2>1. CASE Succeed(q)
    <3> DEFINE new == [stage |-> "ready", connection |-> "open", ok |-> TRUE,
                       names |-> IF q = BanList THEN database ELSE {}]
    <3>1. new \in Callable
      BY DEF Callable, Stages, Connections, DInv, Typed
    <3>2. callable' = [callable EXCEPT ![q] = new]
      BY <2>1 DEF Succeed
    <3> HIDE DEF new
    <3>3. new.stage = "ready"
      BY DEF new
    <3> QED BY <1>2, <3>1, <3>2, <3>3
  <2>2. CASE Fail(q)
    <3>1. callable' = [callable EXCEPT ![q].stage = "ready", ![q].connection = "open"]
      BY <2>2 DEF Fail
    <3> DEFINE S == Stages
               C == Connections
               B == BOOLEAN
               N == SUBSET Names
    <3>2. /\ callable \in [Queries -> [stage : S, connection : C, ok : B, names : N]]
          /\ "ready" \in S /\ "open" \in C
      BY <1>2 DEF Callable, Stages, Connections
    <3> HIDE DEF S, C, B, N
    <3>3. /\ callable' \in [Queries -> [stage : S, connection : C, ok : B, names : N]]
          /\ callable'[q].stage = "ready"
          /\ \A r \in Queries \ {q} : callable'[r] = callable[r]
      BY <3>1, <3>2
    <3> QED BY <3>3 DEF S, C, B, N, Callable
  <2> QED BY <1>1, <2>1, <2>2
<1>4. Open' = Open /\ \A r \in Queries : r \in Ready => r \in Ready'
  <2>1. \A r \in Queries : /\ (callable'[r].stage # "none" <=> callable[r].stage # "none")
                          /\ (callable[r].stage = "ready" => callable'[r].stage = "ready")
    <3>1. ASSUME NEW r \in Queries
          PROVE  /\ (callable'[r].stage # "none" <=> callable[r].stage # "none")
                 /\ (callable[r].stage = "ready" => callable'[r].stage = "ready")
      <4>1. CASE r = q
        BY <1>1, <1>3, <4>1
      <4>2. CASE r # q
        BY <1>3, <4>2
      <4> QED BY <4>1, <4>2
    <3> QED BY <3>1
  <2>2. Open' = Open
    BY <2>1 DEF Open
  <2>3. \A r \in Queries : r \in Ready => r \in Ready'
    BY <2>1 DEF Ready
  <2> QED BY <2>2, <2>3
<1>5. database' \subseteq Names /\ gameRow' \in BOOLEAN /\ playerRow' \in BOOLEAN
  <2>1. CASE Succeed(q)
    <3>1. gameRow' \in BOOLEAN /\ playerRow' \in BOOLEAN
      BY <2>1 DEF Succeed
    <3>2. database' \in {database, database \cup {q.name}, database \ {q.name}}
      BY <2>1 DEF Succeed
    <3>3. database' = database \cup {q.name} => q.name \in Names \/ database' \subseteq database
      <4>1. CASE q.kind = "BanAdd"
        BY <4>1, QueryFacts
      <4>2. CASE q.kind # "BanAdd"
        BY <2>1, <4>2 DEF Succeed
      <4> QED BY <4>1, <4>2
    <3> QED BY <3>1, <3>2, <3>3 DEF DInv, Typed
  <2>2. CASE Fail(q)
    BY <2>2 DEF Fail, rows, DInv, Typed
  <2> QED BY <1>1, <2>1, <2>2
<1>6. Typed'
  BY <1>1, <1>3, <1>4, <1>5 DEF DInv, Typed, pool, exit
<1>7. Counted'
  BY <1>1, <1>4, CountedSame DEF DInv
<1>8. Owned'
  BY <1>1, <1>4 DEF DInv, Owned, exit, Ready
<1> QED BY <1>6, <1>7, <1>8 DEF DInv

(* Steps of the main thread that recover a set of callables.                *)
LEMMA RecoverStep ==
  ASSUME DInv, NEW done \in SUBSET Open, Recover(done), bans' \subseteq Names,
         UNCHANGED << bnet, game, exit, database, rows, giveUps, quiet >>,
         phase' # "delete", phase = "delete" => GameAdd \in done
  PROVE  DInv'
<1>1. /\ callable' \in [Queries -> Callable] /\ Open' = Open \ done
      /\ orphans' = orphans \ done
      /\ idle' \in Seq(Connections) /\ Len(idle') <= MaxIdle + 1
      /\ Counted'
  BY RecoverDoes DEF DInv
<1>2. Typed'
  BY <1>1 DEF DInv, Typed, exit, rows
<1>3. Owned'
  BY <1>1 DEF DInv, Owned, exit
<1> QED BY <1>1, <1>2, <1>3 DEF DInv

(* Steps of the main thread that add a callable whose owner exists.         *)
LEMMA ThreadStep ==
  ASSUME DInv, NEW q \in Queries, Thread(q), phase # "delete", phase' # "delete",
         q.owner \in {"bnet", "game"}, q.owner = "bnet" => bnet,
         q.owner = "game" => game # "gone", game' # "gone" \/ game' = game,
         game' \in {"playing", "saving", "gone"},
         UNCHANGED << orphans, bans, bnet, exit, database, rows, quiet >>
  PROVE  DInv'
<1>1. /\ callable' \in [Queries -> Callable] /\ Open' = Open \cup {q} /\ q \notin Open
      /\ idle' \in Seq(Connections) /\ Len(idle') <= MaxIdle + 1
      /\ Counted'
  BY ThreadDoes DEF DInv
<1>2. Typed'
  BY <1>1 DEF DInv, Typed, exit, rows
<1>3. exiting # "finished"
  BY DEF DInv, Owned
<1>4. Owned'
  BY <1>1, <1>3 DEF DInv, Owned, exit
<1> QED BY <1>1, <1>2, <1>4 DEF DInv

(* Steps that leave the callables alone.                                    *)
LEMMA QuietStep ==
  ASSUME DInv, UNCHANGED << callable, pool, bans, game, database, rows >>,
         bnet' \in BOOLEAN, exitingNice' \in BOOLEAN, allFinished' \in BOOLEAN, quiet' \in BOOLEAN,
         UNCHANGED << orphans, bnet, exiting >>, phase # "delete", phase' # "delete"
  PROVE  DInv'
<1>1. Open' = Open
  BY DEF Open
<1>2. Counted'
  BY <1>1, CountedSame DEF DInv
<1> QED BY <1>1, <1>2 DEF DInv, Typed, Owned, pool, rows, Open

\* A nice exit deletes the battle.net connection, whose callables become orphans; it ends
\* when there are none, or gives up waiting.
LEMMA ExitStep ==
  ASSUME DInv, ExitNicely
  PROVE  DInv'
<1>1. /\ phase = "update" /\ phase' = "callables"
      /\ orphans' = orphans \cup OwnedBy("bnet") /\ bnet' = FALSE
      /\ allFinished' = (game = "gone")
      /\ UNCHANGED << callable, pool, bans, game, exitingNice, database, rows, giveUps, quiet >>
  BY DEF ExitNicely
<1>2. Open' = Open /\ OwnedBy("bnet") \subseteq Open
  BY <1>1 DEF Open, OwnedBy
<1>3. exiting' \in {"no", "finished", "timeout"}
  BY DEF ExitNicely, DInv, Typed
<1>4. Typed'
  BY <1>1, <1>2, <1>3 DEF DInv, Typed, pool, rows
<1>5. Counted'
  BY <1>1, <1>2, CountedSame DEF DInv
<1>6. \A q \in Open \ orphans' : q \in Open \ orphans /\ q.owner # "bnet"
  BY <1>1 DEF OwnedBy
<1>7. exiting' = "finished" => game = "gone" /\ Open = {}
  <2> SUFFICES ASSUME exiting' = "finished" PROVE game = "gone" /\ Open = {}
    OBVIOUS
  <2>1. CASE exiting = "finished"
    BY <2>1 DEF DInv, Owned
  <2>2. CASE exiting # "finished"
    <3>1. game = "gone" /\ orphans' = {}
      BY <2>2 DEF ExitNicely
    <3>2. ASSUME NEW q \in Open PROVE FALSE
      BY <1>1, <1>6, <3>1, QueryFacts DEF DInv, Owned, Open
    <3> QED BY <3>1, <3>2
  <2> QED BY <2>1, <2>2
<1>8. Owned'
  <2>1. GameAdd \notin orphans'
    BY <1>1, QueryFacts DEF DInv, Owned, OwnedBy
  <2>2. \A q \in Open' \ orphans' :
          /\ q.owner = "bnet" => bnet'
          /\ q.owner = "game" /\ game' = "gone" => q = GameAdd /\ phase' = "delete"
          /\ q.owner # "orphans"
    BY <1>1, <1>2, <1>6 DEF DInv, Owned
  <2> QED BY <1>1, <1>2, <1>7, <2>1, <2>2 DEF Owned
<1> QED BY <1>4, <1>5, <1>8 DEF DInv

\* A game that is deleted leaves its callables to the orphans.
LEMMA DeleteGameStep ==
  ASSUME DInv, DeleteGame
  PROVE  DInv'
<1>1. /\ phase = "game" /\ game = "saving" /\ GameAdd \in Ready /\ phase' = "delete" /\ game' = "gone"
      /\ UNCHANGED << bans, bnet, exit, database, rows, quiet >>
  BY DEF DeleteGame
<1>2. HandedOver \subseteq Open /\ GameAdd \notin HandedOver
  BY DEF HandedOver, OwnedBy
<1>3. exiting # "finished"
  BY <1>1 DEF DInv, Owned
<1>4. \A q \in Open : q.owner = "game" /\ q # GameAdd => q \in orphans \cup HandedOver
  BY DEF HandedOver, OwnedBy
<1>5. CASE callable[GameAdd].ok
  <2>1. Thread(GamePlayerAdd) /\ orphans' = orphans \cup HandedOver \cup {GamePlayerAdd}
    BY <1>5 DEF DeleteGame, PlayersFollow
  <2>2. /\ callable' \in [Queries -> Callable] /\ Open' = Open \cup {GamePlayerAdd}
        /\ \A r \in Queries \ {GamePlayerAdd} : callable'[r] = callable[r]
        /\ idle' \in Seq(Connections) /\ Len(idle') <= MaxIdle + 1
        /\ Counted'
    BY <2>1, QueryFacts, ThreadDoes DEF DInv
  <2>3. GameAdd \in Ready'
    BY <1>1, <2>2, QueryFacts DEF Ready
  <2>4. Typed'
    BY <1>1, <1>2, <2>1, <2>2 DEF DInv, Typed, exit, rows
  <2>5. Owned'
    BY <1>1, <1>2, <1>3, <1>4, <2>1, <2>2, <2>3, QueryFacts DEF DInv, Owned, exit
  <2> QED BY <2>2, <2>4, <2>5 DEF DInv
<1>6. CASE ~callable[GameAdd].ok
  <2>1. orphans' = orphans \cup HandedOver /\ UNCHANGED << callable, pool, giveUps >>
    BY <1>6 DEF DeleteGame, PlayersFollow
  <2>2. Open' = Open /\ Ready' = Ready
    BY <2>1 DEF Open, Ready
  <2>3. Typed'
    BY <1>1, <1>2, <2>1, <2>2 DEF DInv, Typed, exit, rows, pool
  <2>4. Counted'
    BY <2>1, <2>2, CountedSame DEF DInv
  <2>5. Owned'
    BY <1>1, <1>2, <1>3, <1>4, <2>1, <2>2 DEF DInv, Owned, exit
  <2> QED BY <2>3, <2>4, <2>5 DEF DInv
<1> QED BY <1>5, <1>6

\* Every action keeps the invariant.
LEMMA StepDInv == DInv /\ [Next]_vars => DInv'
<1> SUFFICES ASSUME DInv, [Next]_vars PROVE DInv'
  OBVIOUS
<1>1. ASSUME NEW q \in Queries, Execute(q) PROVE DInv'
  BY <1>1, ExecuteStep
<1>2. CASE ExitNicely
  BY <1>2, ExitStep
<1>3. CASE UpdateCallables
  <2> DEFINE done == IF game = "gone" THEN {} ELSE OwnedBy("game") \cap BanAdds("game") \cap Ready
  <2>1. /\ phase \in {"callables", "update"} /\ phase' = "game"
        /\ Recover(done \cup (orphans \cap Ready))
        /\ bans' = IF bnet THEN bans \cup NamesIn(done, "BanAdd") ELSE bans
        /\ UNCHANGED << bnet, game, exit, database, rows, giveUps, quiet >>
    BY <1>3 DEF UpdateCallables
  <2>2. done \subseteq BanAdds("game") /\ done \cup (orphans \cap Ready) \subseteq Open
    BY DEF OwnedBy, DInv, Typed
  <2> HIDE DEF done
  <2>3. bans' \subseteq Names
    BY <2>1, <2>2, QueryFacts DEF NamesIn, DInv, Typed
  <2> QED BY <2>1, <2>2, <2>3, RecoverStep
<1>4. CASE SaveGameData
  <2>1. /\ phase = "game" /\ game = "playing" /\ phase' = "bnet" /\ game' = "saving"
        /\ Thread(GameAdd)
        /\ UNCHANGED << orphans, bans, bnet, exit, database, rows, quiet >>
    BY <1>4 DEF SaveGameData
  <2> QED BY <2>1, QueryFacts, ThreadStep
<1>5. CASE DeleteGame
  BY <1>5, DeleteGameStep
<1>6. CASE RecoverGameAdd
  <2>1. GameAdd \in Open
    BY <1>6 DEF RecoverGameAdd, DInv, Owned, Open, Ready
  <2>2. /\ Recover({GameAdd}) /\ phase' = "bnet" /\ bans' \subseteq Names
        /\ UNCHANGED << bnet, game, exit, database, rows, giveUps, quiet >>
    BY <1>6 DEF RecoverGameAdd, DInv, Typed
  <2> QED BY <2>1, <2>2, RecoverStep
<1>7. CASE UpdateBans
  <2> DEFINE adds == OwnedBy("bnet") \cap BanAdds("bnet") \cap Ready
             removes == OwnedBy("bnet") \cap BanRemoves \cap Ready
  <2>1. /\ phase \in {"game", "bnet"} /\ phase' = "refresh"
        /\ Recover(adds \cup removes)
        /\ bans' = (bans \cup NamesIn(adds, "BanAdd")) \ NamesIn(removes, "BanRemove")
        /\ UNCHANGED << bnet, game, exit, database, rows, giveUps, quiet >>
    BY <1>7 DEF UpdateBans
  <2>2. adds \subseteq BanAdds("bnet") /\ adds \cup removes \subseteq Open
    BY DEF OwnedBy
  <2> HIDE DEF adds, removes
  <2>3. bans' \subseteq Names
    BY <2>1, <2>2, QueryFacts DEF NamesIn, DInv, Typed
  <2> QED BY <2>1, <2>2, <2>3, RecoverStep
<1>8. CASE Refresh
  <2>1. /\ phase = "refresh" /\ phase' = "list" /\ bnet /\ Thread(BanList)
        /\ UNCHANGED << orphans, bans, bnet, game, exit, database, rows, quiet >>
    BY <1>8 DEF Refresh
  <2>2. game' \in {"playing", "saving", "gone"}
    BY <2>1 DEF DInv, Typed
  <2> QED BY <2>1, <2>2, QueryFacts, ThreadStep
<1>9. CASE UpdateBanList
  <2>1. /\ phase \in {"refresh", "list"} /\ phase' = "commands"
        /\ UNCHANGED << bnet, game, exit, database, rows, giveUps, quiet >>
    BY <1>9 DEF UpdateBanList
  <2>2. CASE bnet /\ BanList \in Ready
    <3>1. Recover({BanList}) /\ bans' = callable[BanList].names
      BY <1>9, <2>2 DEF UpdateBanList, RecoverList
    <3>2. BanList \in Open /\ bans' \subseteq Names
      BY <2>2, <3>1, QueryFacts DEF Ready, Open, DInv, Typed, Callable
    <3> QED BY <2>1, <3>1, <3>2, RecoverStep
  <2>3. CASE ~(bnet /\ BanList \in Ready)
    <3>1. UNCHANGED << callable, orphans, pool, bans >>
      BY <1>9, <2>3 DEF UpdateBanList
    <3> QED BY <2>1, <3>1, QuietStep DEF exit, DInv, Typed
  <2> QED BY <2>2, <2>3
<1>10. CASE EndOfUpdate
  BY <1>10, QuietStep DEF EndOfUpdate, exit, DInv, Typed
<1>11. CASE Signal
  BY <1>11, QuietStep DEF Signal, DInv, Typed
<1>12. CASE GoQuiet
  BY <1>12, QuietStep DEF GoQuiet, exit, DInv, Typed
<1>13. ASSUME NEW n \in Names, BanInGame(n) PROVE DInv'
  <2>1. /\ phase = "game" /\ game = "playing" /\ phase' = "bnet"
        /\ Thread(Query("BanAdd", "game", n))
        /\ UNCHANGED << orphans, bans, bnet, game, exit, database, rows, quiet >>
    BY <1>13 DEF BanInGame
  <2> QED BY <2>1, QueryFacts, ThreadStep
<1>14. ASSUME NEW n \in Names, BanCommand(n) PROVE DInv'
  <2>1. /\ phase = "commands" /\ phase' = "update" /\ bnet
        /\ Thread(Query("BanRemove", "bnet", n)) \/ Thread(Query("BanAdd", "bnet", n))
        /\ UNCHANGED << orphans, bans, bnet, game, exit, database, rows, quiet >>
    BY <1>14 DEF BanCommand
  <2>2. game' \in {"playing", "saving", "gone"}
    BY <2>1 DEF DInv, Typed
  <2> QED BY <2>1, <2>2, QueryFacts, ThreadStep
<1>15. CASE UNCHANGED vars
  <2>1. Open' = Open /\ Ready' = Ready /\ UNCHANGED pool
    BY <1>15 DEF vars, Open, Ready
  <2>2. Counted'
    BY <2>1, CountedSame DEF DInv
  <2> QED BY <1>15, <2>1, <2>2 DEF vars, pool, rows, exit, DInv, Typed, Owned
<1> QED
  BY <1>1, <1>2, <1>3, <1>4, <1>5, <1>6, <1>7, <1>8, <1>9, <1>10, <1>11, <1>12, <1>13, <1>14, <1>15
  DEF Next, Main

(* The pool counts every connection in use and at rest (CreateThread,      *)
(* RecoverCallable), and a nice exit that did not time out leaves no       *)
(* callable that a thread could still be at work for.                      *)
THEOREM PoolIsRight == Spec => []PoolOK
<1>1. DInv => PoolOK
  <2> SUFFICES ASSUME DInv PROVE PoolOK
    OBVIOUS
  <2>1. \A q \in Queries :
          /\ callable[q].stage \in {"none", "running", "ready"}
          /\ callable[q].connection \in {"open", "NULL"}
          /\ callable[q].ok \in BOOLEAN /\ callable[q].names \subseteq Names
    BY DEF DInv, Typed, Callable, Stages, Connections
  <2>2. TypeOK
    BY <2>1 DEF DInv, Typed, TypeOK, Connections
  <2> QED BY <2>2 DEF DInv, Counted, Owned, PoolOK, ExitWaits
<1>2. Spec => []DInv
  BY InitDInv, StepDInv, PTL DEF Spec
<1> QED BY <1>1, <1>2, PTL

-----------------------------------------------------------------------------
(* Hosting: games on battle.net.                                           *)

Queue == Seq(Packets)

\* A withdrawal is in the queue behind the place i.
WithdrawnAfter(q, i) == \E j \in i + 1 .. Len(q) : q[j] = StopAd

\* The games that a server may show: none, or the lobby's.
Current == {Nothing} \cup (IF Hosted THEN {lobby.counter} ELSE {})

\* A server that shows c and is sent the packets of q ends with a game of C, or with none.
Settled(q, c, C) ==
    /\ c \notin C => WithdrawnAfter(q, 0)
    /\ \A i \in DOMAIN q : q[i][2] \notin C => WithdrawnAfter(q, i)

(* A nonempty set of natural numbers has a least element.                  *)
LEMMA LeastExists ==
  ASSUME NEW T \in SUBSET Nat, T # {}
  PROVE  \E x \in T : \A y \in T : x <= y
<1> DEFINE I == {0 .. x : x \in T}
<1>1. IsWellFoundedOn(StrictSubsetOrdering(Nat), FiniteSubsetsOf(Nat))
  BY FS_StrictSubsetOrderingWellFounded
<1>2. I \subseteq FiniteSubsetsOf(Nat) /\ I # {}
  <2>1. ASSUME NEW x \in T PROVE 0 .. x \in FiniteSubsetsOf(Nat)
    <3>1. x \in Int /\ 0 \in Int /\ 0 .. x \subseteq Nat
      OBVIOUS
    <3>2. IsFiniteSet(0 .. x)
      BY <3>1, FS_Interval
    <3> QED BY <3>1, <3>2 DEF FiniteSubsetsOf
  <2> QED BY <2>1
<1>3. PICK m \in I : \A i \in I : ~ (<<i, m>> \in StrictSubsetOrdering(Nat))
  <2> HIDE DEF I
  <2> QED BY <1>1, <1>2, WFMin, Zenon
<1>4. PICK x \in T : m = 0 .. x
  OBVIOUS
<1>5. ASSUME NEW y \in T, y < x PROVE FALSE
  <2>1. 0 .. y \in I /\ 0 .. y \subseteq m /\ x \in m /\ x \notin 0 .. y
    BY <1>4, <1>5
  <2>2. <<0 .. y, m>> \in StrictSubsetOrdering(Nat)
    BY <2>1, <1>2, <1>3 DEF StrictSubsetOrdering, FiniteSubsetsOf
  <2> QED BY <2>1, <2>2, <1>3
<1> QED BY <1>5

(* Induction over the natural numbers, for a set.                          *)
LEMMA NatInductionIn ==
  ASSUME NEW T, 0 \in T, \A n \in Nat : n \in T => n + 1 \in T
  PROVE  \A n \in Nat : n \in T
<1> SUFFICES ASSUME NEW k \in Nat, k \notin T PROVE FALSE
  OBVIOUS
<1> DEFINE Out == {n \in Nat : n \notin T}
<1>1. Out \in SUBSET Nat /\ Out # {}
  OBVIOUS
<1>2. PICK n \in Out : \A m \in Out : n <= m
  <2> HIDE DEF Out
  <2> QED BY <1>1, LeastExists
<1>3. n \in Nat /\ n # 0 /\ n \notin T
  OBVIOUS
<1>4. n - 1 \in Nat /\ (n - 1) + 1 = n
  BY <1>3
<1>5. n - 1 \in T
  BY <1>2, <1>4
<1> QED BY <1>3, <1>4, <1>5

(* Induction up to a number.                                               *)
LEMMA InductionUpTo ==
  ASSUME NEW N \in Nat, NEW T, 0 \in T, \A n \in 1 .. N : n - 1 \in T => n \in T
  PROVE  \A n \in 0 .. N : n \in T
<1> DEFINE U == {n \in Nat : n <= N => n \in T}
<1>1. 0 \in U
  OBVIOUS
<1>2. ASSUME NEW n \in Nat, n \in U PROVE n + 1 \in U
  <2> SUFFICES ASSUME n + 1 <= N PROVE n + 1 \in T
    OBVIOUS
  <2>1. n \in T
    BY <1>2
  <2>2. n + 1 \in 1 .. N /\ (n + 1) - 1 = n
    OBVIOUS
  <2> QED BY <2>1, <2>2
<1>3. \A n \in Nat : n \in U
  <2> HIDE DEF U
  <2> QED BY <1>1, <1>2, NatInductionIn
<1> QED BY <1>3


\* A function on 0 .. N can be defined that puts N queues one behind the other.
LEMMA JoinedExists ==
  ASSUME NEW N \in Nat, NEW h \in [1 .. N -> Queue]
  PROVE  \E F \in [0 .. N -> Queue] : F[0] = << >> /\ \A n \in 1 .. N : F[n] = F[n - 1] \o h[n]
<1> DEFINE Up(k, F) == /\ F \in [0 .. k -> Queue] /\ F[0] = << >>
                       /\ \A n \in 1 .. k : F[n] = F[n - 1] \o h[n]
           T == {k \in 0 .. N : \E F : Up(k, F)}
<1>1. 0 \in T
  <2>1. Up(0, [n \in 0 .. 0 |-> << >>])
    BY DEF Queue
  <2> HIDE DEF Up
  <2> QED BY <2>1
<1>2. ASSUME NEW m \in 1 .. N, m - 1 \in T PROVE m \in T
  <2>1. PICK F : Up(m - 1, F)
    BY <1>2
  <2>2. m - 1 \in 0 .. m - 1 /\ F[m - 1] \in Queue /\ h[m] \in Queue
    BY <2>1
  <2>3. F[m - 1] \o h[m] \in Queue
    BY <2>2, ConcatProperties DEF Queue
  <2> DEFINE G == [n \in 0 .. m |-> IF n = m THEN F[m - 1] \o h[m] ELSE F[n]]
  <2>4. G \in [0 .. m -> Queue]
    <3> DEFINE x == F[m - 1] \o h[m]
    <3>1. \A n \in 0 .. m : n # m => n \in 0 .. m - 1
      OBVIOUS
    <3>2. x \in Queue
      BY <2>3
    <3>3. \A n \in 0 .. m : G[n] = IF n = m THEN x ELSE F[n]
      OBVIOUS
    <3> HIDE DEF x
    <3>4. \A n \in 0 .. m : G[n] \in Queue
      BY <2>1, <3>1, <3>2, <3>3
    <3>5. G = [n \in 0 .. m |-> G[n]]
      OBVIOUS
    <3> HIDE DEF G
    <3> QED BY <3>4, <3>5
  <2>5. G[0] = << >>
    BY <2>1
  <2>6. ASSUME NEW n \in 1 .. m PROVE G[n] = G[n - 1] \o h[n]
    <3>1. CASE n = m
      <4>1. G[n] = F[m - 1] \o h[m] /\ G[n - 1] = F[m - 1]
        BY <3>1
      <4> QED BY <3>1, <4>1
    <3>2. CASE n # m
      <4>1. n \in 1 .. m - 1 /\ n - 1 \in 0 .. m /\ n - 1 # m
        BY <3>2
      <4>2. G[n] = F[n] /\ G[n - 1] = F[n - 1]
        BY <4>1
      <4> QED BY <2>1, <4>1, <4>2
    <3> QED BY <3>1, <3>2
  <2>7. Up(m, G)
    <3> HIDE DEF G
    <3> QED BY <2>4, <2>5, <2>6
  <2> HIDE DEF Up, G
  <2> QED BY <2>7
<1>3. \A n \in 0 .. N : n \in T
  <2> HIDE DEF T
  <2> QED BY <1>1, <1>2, InductionUpTo
<1>4. \E F : Up(N, F)
  <2> HIDE DEF Up
  <2> QED BY <1>3
<1> QED BY <1>4

\* The recursive function by which Unqueued is defined
Kept(q) ==
    CHOOSE f : f = [n \in 0 .. Len(q) |->
        IF n = 0 THEN << >>
        ELSE f[n - 1] \o (IF q[n][1] = "STARTADVEX3" THEN << >> ELSE << q[n] >>)]

\* UnqueueGameRefreshes leaves packets in the queue, and none where there is none.
LEMMA UnqueuedType ==
  ASSUME NEW q \in Queue
  PROVE  Unqueued(q) \in Queue /\ (q = << >> => Unqueued(q) = << >>)
<1> DEFINE N == Len(q)
           Piece(n) == IF q[n][1] = "STARTADVEX3" THEN << >> ELSE << q[n] >>
           h == [n \in 1 .. N |-> Piece(n)]
           R(f) == [n \in 0 .. N |-> IF n = 0 THEN << >> ELSE f[n - 1] \o Piece(n)]
           K == Kept(q)
<1>1. Unqueued(q) = K[N]
  BY DEF Unqueued, Kept
<1>2. N \in Nat /\ \A n \in 1 .. N : Piece(n) \in Queue
  <2>1. N \in Nat /\ \A n \in 1 .. N : q[n] \in Packets
    BY DEF Queue
  <2> QED BY <2>1 DEF Queue
<1>3. h \in [1 .. N -> Queue] /\ \A n \in 1 .. N : h[n] = Piece(n)
  <2> HIDE DEF Piece
  <2> QED BY <1>2
<1>4. PICK F \in [0 .. N -> Queue] : F[0] = << >> /\ \A n \in 1 .. N : F[n] = F[n - 1] \o h[n]
  <2> HIDE DEF h, N
  <2> QED BY <1>2, <1>3, JoinedExists
<1>5. F = R(F)
  <2> HIDE DEF Piece, h, N
  <2>1. \A n \in 1 .. N : F[n] = F[n - 1] \o Piece(n)
    BY <1>3, <1>4
  <2> QED BY <1>2, <1>4, <2>1
<1>6. K = R(K)
  <2>1. \E f : f = R(f)
    <3> HIDE DEF R
    <3> QED BY <1>5
  <2> QED BY <2>1 DEF Kept
<1>7. K[0] = << >> /\ \A n \in 1 .. N : K[n] = K[n - 1] \o Piece(n)
  <2> HIDE DEF K
  <2>1. ASSUME NEW n \in 0 .. N PROVE K[n] = IF n = 0 THEN << >> ELSE K[n - 1] \o Piece(n)
    <3> HIDE DEF Piece
    <3> QED BY <1>6
  <2>2. 0 \in 0 .. N /\ \A n \in 1 .. N : n \in 0 .. N /\ n # 0
    BY <1>2
  <2> HIDE DEF Piece
  <2> QED BY <2>1, <2>2
<1> DEFINE T == {n \in 0 .. N : K[n] \in Queue}
<1>8. \A n \in 0 .. N : n \in T
  <2>1. 0 \in T
    <3>1. << >> \in Queue
      BY DEF Queue
    <3> HIDE DEF K
    <3> QED BY <3>1, <1>2, <1>7
  <2>2. ASSUME NEW n \in 1 .. N, n - 1 \in T PROVE n \in T
    <3> HIDE DEF K, Piece
    <3>1. K[n - 1] \in Queue /\ Piece(n) \in Queue /\ n \in 0 .. N
      BY <1>2, <2>2
    <3>2. K[n - 1] \o Piece(n) \in Queue
      BY <3>1, ConcatProperties DEF Queue
    <3> QED BY <3>1, <3>2, <1>7
  <2> HIDE DEF T, N
  <2> QED BY <1>2, <2>1, <2>2, InductionUpTo
<1>9. K[N] \in Queue
  <2> HIDE DEF K
  <2> QED BY <1>2, <1>8
<1>10. q = << >> => K[N] = << >>
  <2> HIDE DEF K
  <2> QED BY <1>7
<1> QED BY <1>1, <1>9, <1>10

\* The packets, and the game that each is about
LEMMA PacketTypes ==
  /\ StopAd \in Packets /\ EnterChat \in Packets /\ Chat \in Packets
  /\ StopAd[2] = Nothing /\ EnterChat[2] = Nothing /\ Chat[2] = Nothing
  /\ \A c \in Counters : StartAd(c) \in Packets /\ StartAd(c)[2] = c
  /\ StopAd[1] = "STOPADV" /\ EnterChat[1] = "ENTERCHAT" /\ Chat[1] = "CHATCOMMAND"
  /\ \A c \in Counters : StartAd(c)[1] = "STARTADVEX3"
  /\ \A p \in Packets : \/ p[1] = "STARTADVEX3" /\ p[2] \in Counters
                        \/ p = StopAd \/ p = EnterChat \/ p = Chat
BY DEF Packets, StopAd, EnterChat, Chat, StartAd, Nothing

\* Nothing has to be withdrawn from a server that shows nothing and is sent nothing.
LEMMA SettledEmpty ==
  ASSUME NEW C, Nothing \in C
  PROVE  Settled(<< >>, Nothing, C)
BY DEF Settled

\* Packets about current games may follow.
LEMMA SettledAppended ==
  ASSUME NEW C, NEW c, NEW q \in Queue, NEW r \in Queue, Settled(q, c, C),
         \A i \in DOMAIN r : r[i][2] \in C
  PROVE  Settled(q \o r, c, C)
<1> USE DEF Queue
<1>1. /\ q \o r \in Seq(Packets) /\ Len(q \o r) = Len(q) + Len(r)
      /\ Len(q) \in Nat /\ Len(r) \in Nat /\ DOMAIN q = 1 .. Len(q)
      /\ DOMAIN r = 1 .. Len(r) /\ DOMAIN (q \o r) = 1 .. Len(q) + Len(r)
  BY ConcatProperties, LenProperties
<1>2. /\ \A i \in 1 .. Len(q) : (q \o r)[i] = q[i]
      /\ \A i \in Len(q) + 1 .. Len(q) + Len(r) :
            (q \o r)[i] = r[i - Len(q)] /\ i - Len(q) \in DOMAIN r
  <2>1. \A i \in 1 .. Len(q) + Len(r) : (q \o r)[i] = IF i <= Len(q) THEN q[i] ELSE r[i - Len(q)]
    BY ConcatProperties
  <2> QED BY <2>1, <1>1
<1>3. ASSUME NEW i \in Nat, WithdrawnAfter(q, i) PROVE WithdrawnAfter(q \o r, i)
  <2>1. PICK j \in i + 1 .. Len(q) : q[j] = StopAd
    BY <1>3 DEF WithdrawnAfter
  <2>2. j \in 1 .. Len(q) /\ j \in i + 1 .. Len(q) + Len(r)
    BY <1>1
  <2> QED BY <1>1, <1>2, <2>1, <2>2 DEF WithdrawnAfter
<1>4. c \notin C => WithdrawnAfter(q \o r, 0)
  BY <1>3 DEF Settled
<1>5. ASSUME NEW i \in DOMAIN (q \o r), (q \o r)[i][2] \notin C
      PROVE  WithdrawnAfter(q \o r, i)
  <2>1. i \in 1 .. Len(q)
    BY <1>1, <1>2, <1>5
  <2> QED BY <1>1, <1>2, <1>3, <1>5, <2>1 DEF Settled
<1> QED BY <1>4, <1>5 DEF Settled

\* Behind a withdrawal and packets about current games everything is settled.
LEMMA SettledByWithdrawal ==
  ASSUME NEW C, Nothing \in C, NEW c, NEW q \in Queue, NEW r \in Queue,
         \A i \in DOMAIN r : r[i][2] \in C
  PROVE  Settled((q \o << StopAd >>) \o r, c, C)
<1> USE DEF Queue
<1> DEFINE w == q \o << StopAd >>
<1>1. /\ w \in Seq(Packets) /\ Len(w) = Len(q) + 1 /\ w[Len(q) + 1] = StopAd
      /\ Len(q) \in Nat /\ DOMAIN w = 1 .. Len(q) + 1
  <2>1. << StopAd >> \in Seq(Packets) /\ Len(<< StopAd >>) = 1
    BY PacketTypes
  <2>2. Len(w) = Len(q) + 1 /\ w \in Seq(Packets) /\ Len(q) \in Nat
    BY <2>1, ConcatProperties, LenProperties
  <2>3. w[Len(q) + 1] = << StopAd >>[1]
    BY <2>1, <2>2, ConcatProperties
  <2> QED BY <2>2, <2>3, LenProperties
<1>2. \A i \in 0 .. Len(q) : WithdrawnAfter(w, i)
  BY <1>1 DEF WithdrawnAfter
<1>3. \A i \in DOMAIN w : w[i][2] \notin C => i \in 0 .. Len(q)
  BY <1>1, PacketTypes
<1>4. Settled(w, c, C)
  BY <1>1, <1>2, <1>3 DEF Settled
<1>5. Settled(w \o r, c, C)
  <2> HIDE DEF w
  <2> QED BY <1>1, <1>4, SettledAppended
<1> QED BY <1>5

\* More games are current.
LEMMA SettledMore ==
  ASSUME NEW C, NEW D, C \subseteq D, NEW c, NEW q, Settled(q, c, C)
  PROVE  Settled(q, c, D)
BY DEF Settled

\* A server takes the first packet: it shows what it did, the packet's game, or, if that was a
\* withdrawal, nothing.
LEMMA SettledSent ==
  ASSUME NEW C, NEW c, NEW d, NEW q \in Queue, q # << >>, Settled(q, c, C),
         \/ d = c /\ Head(q) # StopAd
         \/ d = Head(q)[2]
         \/ d \in C
  PROVE  Settled(Tail(q), d, C)
<1> USE DEF Queue
<1>1. /\ Len(q) \in Nat \ {0} /\ Head(q) = q[1] /\ Tail(q) \in Seq(Packets)
      /\ Len(Tail(q)) = Len(q) - 1 /\ DOMAIN q = 1 .. Len(q)
      /\ DOMAIN Tail(q) = 1 .. Len(q) - 1
      /\ \A i \in 1 .. Len(q) - 1 : Tail(q)[i] = q[i + 1]
  BY HeadTailProperties, LenProperties, EmptySeq
<1>2. ASSUME NEW i \in Nat, WithdrawnAfter(q, i + 1) PROVE WithdrawnAfter(Tail(q), i)
  <2>1. PICK j \in (i + 1) + 1 .. Len(q) : q[j] = StopAd
    BY <1>2 DEF WithdrawnAfter
  <2>2. j - 1 \in i + 1 .. Len(q) - 1 /\ (j - 1) + 1 = j /\ j - 1 \in 1 .. Len(q) - 1
    BY <1>1
  <2>3. Tail(q)[j - 1] = StopAd
    BY <1>1, <2>1, <2>2
  <2> QED BY <1>1, <2>2, <2>3 DEF WithdrawnAfter
<1>3. ASSUME d \notin C PROVE WithdrawnAfter(Tail(q), 0)
  <2>1. CASE d = c /\ Head(q) # StopAd
    <3>1. PICK j \in 0 + 1 .. Len(q) : q[j] = StopAd
      BY <1>3, <2>1 DEF Settled, WithdrawnAfter
    <3>2. j \in (0 + 1) + 1 .. Len(q)
      BY <1>1, <2>1, <3>1
    <3> QED BY <1>2, <3>1, <3>2 DEF WithdrawnAfter
  <2>2. CASE d = Head(q)[2]
    <3>1. WithdrawnAfter(q, 0 + 1)
      BY <1>1, <1>3, <2>2 DEF Settled
    <3> QED BY <1>2, <3>1
  <2> QED BY <1>3, <2>1, <2>2
<1>4. ASSUME NEW i \in DOMAIN Tail(q), Tail(q)[i][2] \notin C
      PROVE  WithdrawnAfter(Tail(q), i)
  <2>1. i \in Nat /\ i + 1 \in DOMAIN q /\ q[i + 1][2] \notin C
    BY <1>1, <1>4
  <2> QED BY <1>2, <2>1 DEF Settled
<1> QED BY <1>3, <1>4 DEF Settled

\* Whoever is logged on is connected; before the logon a server shows nothing and nothing is
\* queued for it.
Sessions ==
    \A s \in Servers :
        /\ loggedIn[s] => link[s] = "connected"
        /\ ~loggedIn[s] => shown[s] = Nothing
        /\ link[s] = "connected" /\ ~loggedIn[s] => outPackets[s] = << >>

ServersSettled ==
    \A s \in Servers : link[s] = "connected" => Settled(outPackets[s], shown[s], Current)

\* There is room for the lobby among the running games.
Room == Hosted => games < MaxGames

HInv == HostingTypeOK /\ Room /\ Sessions /\ ServersSettled

\* What is settled has its old games withdrawn.
LEMMA SettledIsWithdrawn ==
  ASSUME HostingTypeOK, ServersSettled
  PROVE  OldGamesWithdrawn
<1> SUFFICES ASSUME NEW s \in Servers, link[s] = "connected"
             PROVE  /\ (shown[s] # Nothing /\ ~(Hosted /\ lobby.counter = shown[s]))
                           => WithdrawnAfter(outPackets[s], 0)
                    /\ \A i \in DOMAIN outPackets[s] :
                            (outPackets[s][i][2] # Nothing
                                /\ ~(Hosted /\ lobby.counter = outPackets[s][i][2]))
                            => WithdrawnAfter(outPackets[s], i)
  BY DEF OldGamesWithdrawn, WithdrawnAfter
<1>1. Settled(outPackets[s], shown[s], Current)
  BY DEF ServersSettled
<1>2. \A c : (c # Nothing /\ ~(Hosted /\ lobby.counter = c)) => c \notin Current
  BY DEF Current
<1> QED BY <1>1, <1>2 DEF Settled

\* The bot starts without games and connections.
LEMMA InitHInv == ASSUME HostingInit PROVE HInv
<1>1. HostingTypeOK
  BY HostingAssumption DEF HostingInit, HostingTypeOK, Nothing
<1>2. Sessions /\ ServersSettled
  BY DEF HostingInit, Sessions, ServersSettled
<1>3. Room
  BY DEF HostingInit, Room, Hosted
<1> QED BY <1>1, <1>2, <1>3 DEF HInv

\* A step of the game appends packets of a kind to the queues of those who are logged on.
LEMMA Queued ==
  ASSUME HInv, UNCHANGED << link, loggedIn, shown >>,
         NEW f \in [Servers -> Queue],
         outPackets' = f,
         \A s \in Servers : link[s] = "connected" /\ ~loggedIn[s] => f[s] = << >>,
         \A s \in Servers : link[s] = "connected" /\ loggedIn[s]
                                => Settled(f[s], shown[s], Current')
  PROVE  outPackets' \in [Servers -> Seq(Packets)] /\ Sessions' /\ ServersSettled'
<1>1. outPackets' \in [Servers -> Seq(Packets)]
  BY DEF Queue
<1>2. Sessions'
  BY DEF HInv, Sessions
<1>3. ASSUME NEW s \in Servers, link'[s] = "connected"
      PROVE  Settled(outPackets'[s], shown'[s], Current')
  <2>1. CASE loggedIn[s]
    BY <1>3, <2>1
  <2>2. CASE ~loggedIn[s]
    <3>1. outPackets'[s] = << >> /\ shown'[s] = Nothing /\ Nothing \in Current'
      BY <1>3, <2>2 DEF HInv, Sessions, Current
    <3> QED BY <3>1, SettledEmpty
  <2> QED BY <2>1, <2>2
<1>4. ServersSettled'
  BY <1>3 DEF ServersSettled
<1> QED BY <1>1, <1>2, <1>4

\* Three queues one behind the other.
LEMMA QueuesAssociate ==
  \A q, r, t \in Queue : (q \o r) \o t = q \o (r \o t)
BY ConcatAssociative DEF Queue

\* Two packets are one behind the other.
LEMMA PairJoined ==
  ASSUME NEW a, NEW b
  PROVE  << a, b >> = << a >> \o << b >>
<1> DEFINE p == << a >> \o << b >>
<1>1. << a >> \in Seq({a, b}) /\ << b >> \in Seq({a, b}) /\ << a, b >> \in Seq({a, b})
  OBVIOUS
<1>2. p \in Seq({a, b}) /\ Len(p) = 2 /\ p[1] = a /\ p[2] = b
  <2>1. Len(<< a >>) = 1 /\ Len(<< b >>) = 1 /\ << a >>[1] = a /\ << b >>[1] = b
    OBVIOUS
  <2>2. /\ p \in Seq({a, b}) /\ Len(p) = 1 + 1
        /\ \A i \in 1 .. 1 + 1 : p[i] = IF i <= 1 THEN << a >>[i] ELSE << b >>[i - 1]
    BY <1>1, <2>1, ConcatProperties
  <2>3. 1 \in 1 .. 1 + 1 /\ 2 \in 1 .. 1 + 1 /\ ~(2 <= 1) /\ 2 - 1 = 1
    OBVIOUS
  <2> HIDE DEF p
  <2> QED BY <2>1, <2>2, <2>3
<1>3. Len(<< a, b >>) = 2 /\ << a, b >>[1] = a /\ << a, b >>[2] = b
  OBVIOUS
<1> HIDE DEF p
<1>4. \A i \in 1 .. 2 : p[i] = << a, b >>[i]
  BY <1>2, <1>3
<1>5. p = << a, b >>
  BY <1>1, <1>2, <1>3, <1>4, SeqEqual
<1> QED BY <1>5 DEF p

\* QueueGameUncreate for a server that is logged on settles everything.
LEMMA SettledUncreated ==
  ASSUME NEW C, Nothing \in C, NEW c, NEW q \in Queue, NEW s \in Servers, loggedIn[s]
  PROVE  q \o QueueUncreate(s) \in Queue /\ Settled(q \o QueueUncreate(s), c, C)
<1> DEFINE r == << EnterChat >>
<1>1. QueueUncreate(s) = << StopAd >> \o r
  <2>1. << StopAd, EnterChat >> = << StopAd >> \o << EnterChat >>
    BY PairJoined
  <2> QED BY <2>1 DEF QueueUncreate, QueuedTo
<1>2. << StopAd >> \in Queue /\ r \in Queue /\ \A i \in DOMAIN r : r[i][2] \in C
  BY PacketTypes DEF Queue
<1>3. q \o QueueUncreate(s) = (q \o << StopAd >>) \o r
  <2> HIDE DEF r
  <2>1. q \o (<< StopAd >> \o r) = (q \o << StopAd >>) \o r
    BY <1>2, QueuesAssociate
  <2> QED BY <1>1, <2>1, Zenon
<1>4. q \o << StopAd >> \in Queue /\ (q \o << StopAd >>) \o r \in Queue
  <2> HIDE DEF r
  <2> QED BY <1>2, ConcatProperties DEF Queue
<1>5. Settled((q \o << StopAd >>) \o r, c, C)
  <2> HIDE DEF r
  <2> QED BY <1>2, SettledByWithdrawal
<1> HIDE DEF r
<1> QED BY <1>3, <1>4, <1>5

\* Nothing is queued before the logon.
LEMMA NotQueued ==
  ASSUME NEW s \in Servers, ~loggedIn[s], NEW packets
  PROVE  QueuedTo(s, packets) = << >> /\ QueueUncreate(s) = << >>
BY DEF QueuedTo, QueueUncreate

\* Packets about current games are appended for those who are logged on.
LEMMA AppendedStep ==
  ASSUME HInv, UNCHANGED << link, loggedIn, shown >>, Current \subseteq Current',
         NEW r \in [Servers -> Queue],
         \A s \in Servers : ~loggedIn[s] => r[s] = << >>,
         \A s \in Servers : \A i \in DOMAIN r[s] : r[s][i][2] \in Current',
         outPackets' = [s \in Servers |-> outPackets[s] \o r[s]]
  PROVE  outPackets' \in [Servers -> Seq(Packets)] /\ Sessions' /\ ServersSettled'
<1> DEFINE f == [s \in Servers |-> outPackets[s] \o r[s]]
<1>1. outPackets \in [Servers -> Queue]
  BY DEF HInv, HostingTypeOK, Queue
<1>2. f \in [Servers -> Queue]
  <2>1. \A s \in Servers : outPackets[s] \o r[s] \in Queue
    BY <1>1, ConcatProperties DEF Queue
  <2> QED BY <2>1
<1>3. ASSUME NEW s \in Servers, link[s] = "connected", ~loggedIn[s] PROVE f[s] = << >>
  BY <1>3 DEF HInv, Sessions
<1>4. ASSUME NEW s \in Servers, link[s] = "connected", loggedIn[s]
      PROVE  Settled(f[s], shown[s], Current')
  <2>1. Settled(outPackets[s], shown[s], Current')
    BY <1>4, SettledMore DEF HInv, ServersSettled
  <2>2. Settled(outPackets[s] \o r[s], shown[s], Current')
    BY <1>1, <2>1, SettledAppended
  <2> QED BY <2>2
<1> HIDE DEF f
<1>5. outPackets' = f
  BY DEF f
<1> QED BY <1>2, <1>3, <1>4, <1>5, Queued

\* A withdrawal settles every server, whatever the lobby becomes; packets about current games
\* may follow it.
LEMMA WithdrawnStep ==
  ASSUME HInv, UNCHANGED << link, loggedIn, shown >>,
         NEW k \in [Servers -> Queue], \A s \in Servers : outPackets[s] = << >> => k[s] = << >>,
         NEW r \in [Servers -> Queue],
         \A s \in Servers : ~loggedIn[s] => r[s] = << >>,
         \A s \in Servers : \A i \in DOMAIN r[s] : r[s][i][2] \in Current',
         outPackets' = [s \in Servers |-> (k[s] \o QueueUncreate(s)) \o r[s]]
  PROVE  outPackets' \in [Servers -> Seq(Packets)] /\ Sessions' /\ ServersSettled'
<1> DEFINE f == [s \in Servers |-> (k[s] \o QueueUncreate(s)) \o r[s]]
<1>1. ASSUME NEW s \in Servers PROVE f[s] \in Queue
  <2>1. CASE loggedIn[s]
    <3>1. k[s] \o QueueUncreate(s) \in Queue
      BY <2>1, SettledUncreated
    <3> QED BY <3>1, ConcatProperties DEF Queue
  <2>2. CASE ~loggedIn[s]
    <3>1. QueueUncreate(s) = << >> /\ r[s] = << >>
      BY <2>2, NotQueued
    <3> QED BY <3>1 DEF Queue
  <2> QED BY <2>1, <2>2
<1>2. f \in [Servers -> Queue]
  BY <1>1
<1>3. ASSUME NEW s \in Servers, link[s] = "connected", ~loggedIn[s] PROVE f[s] = << >>
  <2>1. QueueUncreate(s) = << >> /\ r[s] = << >> /\ k[s] = << >>
    BY <1>3, NotQueued DEF HInv, Sessions
  <2> QED BY <2>1
<1>4. ASSUME NEW s \in Servers, link[s] = "connected", loggedIn[s]
      PROVE  Settled(f[s], shown[s], Current')
  <2>1. Nothing \in Current'
    BY DEF Current
  <2>2. /\ k[s] \o QueueUncreate(s) \in Queue
        /\ Settled(k[s] \o QueueUncreate(s), shown[s], Current')
    BY <1>4, <2>1, SettledUncreated
  <2>3. Settled((k[s] \o QueueUncreate(s)) \o r[s], shown[s], Current')
    BY <2>2, SettledAppended
  <2> QED BY <2>3
<1> HIDE DEF f
<1>5. outPackets' = f
  BY DEF f
<1> QED BY <1>2, <1>3, <1>4, <1>5, Queued

\* The packets of a queue are about games of D.
About(q, D) == \A i \in DOMAIN q : q[i][2] \in D

\* Packets about games of D, one queue behind the other.
LEMMA AboutJoined ==
  ASSUME NEW D, NEW q \in Queue, NEW r \in Queue, About(q, D), About(r, D)
  PROVE  q \o r \in Queue /\ About(q \o r, D)
<1> USE DEF Queue
<1>1. /\ q \o r \in Seq(Packets) /\ Len(q \o r) = Len(q) + Len(r)
      /\ Len(q) \in Nat /\ Len(r) \in Nat /\ DOMAIN q = 1 .. Len(q)
      /\ DOMAIN r = 1 .. Len(r) /\ DOMAIN (q \o r) = 1 .. Len(q) + Len(r)
      /\ \A i \in 1 .. Len(q) + Len(r) : (q \o r)[i] = IF i <= Len(q) THEN q[i] ELSE r[i - Len(q)]
  BY ConcatProperties, LenProperties
<1>2. ASSUME NEW i \in 1 .. Len(q) + Len(r) PROVE (q \o r)[i][2] \in D
  <2>1. CASE i <= Len(q)
    BY <1>1, <2>1 DEF About
  <2>2. CASE ~(i <= Len(q))
    <3>1. i - Len(q) \in 1 .. Len(r)
      BY <1>1, <2>2
    <3> QED BY <1>1, <2>2, <3>1 DEF About
  <2> QED BY <2>1, <2>2
<1> QED BY <1>1, <1>2 DEF About

\* One packet.
LEMMA AboutOne ==
  ASSUME NEW D, NEW p \in Packets, p[2] \in D
  PROVE  /\ << p >> \in Queue /\ About(<< p >>, D)
         /\ << >> \in Queue /\ About(<< >>, D)
BY DEF Queue, About

\* A line of chat is about no game.
LEMMA ChatQueued ==
  ASSUME NEW D, Nothing \in D, NEW s \in Servers
  PROVE  QueuedTo(s, << Chat >>) \in Queue /\ About(QueuedTo(s, << Chat >>), D)
BY PacketTypes, AboutOne DEF QueuedTo

\* QueueGameCreate is about the new game.
LEMMA CreateQueued ==
  ASSUME NEW D, Nothing \in D, NEW s \in Servers, NEW c \in Counters, c \in D,
         NEW public \in BOOLEAN
  PROVE  /\ QueueGameCreate(s, c, public) \in Queue
         /\ About(QueueGameCreate(s, c, public), D)
         /\ ~loggedIn[s] => QueueGameCreate(s, c, public) = << >>
<1> DEFINE a == << StartAd(c) >>
           b == IF public \/ s \in pvpgn THEN << >> ELSE << EnterChat >>
<1>1. a \in Queue /\ About(a, D) /\ b \in Queue /\ About(b, D)
  BY PacketTypes, AboutOne
<1>2. a \o b \in Queue /\ About(a \o b, D)
  <2> HIDE DEF a, b
  <2> QED BY <1>1, AboutJoined
<1>3. QueueGameCreate(s, c, public) = IF loggedIn[s] THEN a \o b ELSE << >>
  BY DEF QueueGameCreate, QueuedTo
<1>4. << >> \in Queue /\ About(<< >>, D)
  BY PacketTypes, AboutOne
<1> HIDE DEF a, b
<1> QED BY <1>2, <1>3, <1>4

\* The record of a game is not the constant for no game.
LEMMA GamesAreHosted ==
  ASSUME NEW g \in Games
  PROVE  g # NoGame /\ g.counter \in Counters
BY NoGameAssumption DEF Games, Counters

\* What is the lobby's game when there is one, and when there is none.
LEMMA CurrentIs ==
  /\ lobby = NoGame => Current = {Nothing}
  /\ lobby # NoGame => Current = {Nothing, lobby.counter}
BY DEF Current, Hosted

\* The same after a step
LEMMA CurrentIsNext ==
  /\ lobby' = NoGame => Current' = {Nothing}
  /\ lobby' # NoGame => Current' = {Nothing, lobby'.counter}
BY DEF Current, Hosted, Nothing

\* CreateGame
LEMMA CreateGameStep ==
  ASSUME HInv, NEW public \in BOOLEAN, CreateGame(public)
  PROVE  HInv'
<1> DEFINE r == [s \in Servers |-> QueuedTo(s, << Chat >>)
                                      \o QueueGameCreate(s, hostCounter', public)]
<1>1. /\ hostCounter' \in Counters /\ hostCounter' \in 0 .. MaxCounter /\ games \in 0 .. MaxGames
      /\ lobby = NoGame /\ lobby' \in Games /\ lobby'.counter = hostCounter'
  BY HostingAssumption DEF CreateGame, HInv, HostingTypeOK, Counters, Games, Hosted
<1>2. Current \subseteq Current' /\ Nothing \in Current' /\ hostCounter' \in Current'
  BY <1>1, GamesAreHosted, CurrentIs, CurrentIsNext
<1>3. ASSUME NEW s \in Servers
      PROVE  /\ QueuedTo(s, << Chat >>) \in Queue
             /\ QueueGameCreate(s, hostCounter', public) \in Queue
             /\ r[s] \in Queue /\ About(r[s], Current') /\ (~loggedIn[s] => r[s] = << >>)
             /\ outPackets[s] \in Queue
             /\ outPackets[s] \o QueuedTo(s, << Chat >>)
                              \o QueueGameCreate(s, hostCounter', public)
                  = outPackets[s] \o r[s]
  <2> DEFINE a == QueuedTo(s, << Chat >>)
             b == QueueGameCreate(s, hostCounter', public)
  <2>1. a \in Queue /\ About(a, Current') /\ b \in Queue /\ About(b, Current')
    BY <1>1, <1>2, ChatQueued, CreateQueued
  <2>2. r[s] = a \o b
    OBVIOUS
  <2>3. a \o b \in Queue /\ About(a \o b, Current')
    <3> HIDE DEF a, b
    <3> QED BY <2>1, AboutJoined
  <2>4. ~loggedIn[s] => a = << >> /\ b = << >>
    BY <1>1, <1>2, NotQueued, CreateQueued
  <2>5. outPackets[s] \in Queue
    BY DEF HInv, HostingTypeOK, Queue
  <2>6. (outPackets[s] \o a) \o b = outPackets[s] \o (a \o b)
    <3> HIDE DEF a, b
    <3> QED BY <2>1, <2>5, QueuesAssociate
  <2>7. ~loggedIn[s] => a \o b = << >>
    <3> HIDE DEF a, b
    <3> QED BY <2>4
  <2> HIDE DEF a, b, r
  <2>8. a \in Queue /\ b \in Queue /\ r[s] \in Queue /\ About(r[s], Current')
        /\ (~loggedIn[s] => r[s] = << >>)
    BY <2>1, <2>2, <2>3, <2>7
  <2>9. (outPackets[s] \o a) \o b = outPackets[s] \o r[s]
    BY <2>2, <2>6
  <2> QED BY <2>5, <2>8, <2>9 DEF a, b
<1>4. outPackets' = [s \in Servers |-> outPackets[s] \o r[s]]
  <2>1. outPackets' = [s \in Servers |-> outPackets[s] \o QueuedTo(s, << Chat >>)
                                            \o QueueGameCreate(s, hostCounter', public)]
    BY DEF CreateGame
  <2> HIDE DEF r
  <2> QED BY <1>3, <2>1
<1>5. r \in [Servers -> Queue]
  <2>1. r = [s \in Servers |-> r[s]]
    OBVIOUS
  <2> HIDE DEF r
  <2> QED BY <1>3, <2>1
<1>6. UNCHANGED << link, loggedIn, shown >>
  BY DEF CreateGame
<1> HIDE DEF r
<1>7. outPackets' \in [Servers -> Seq(Packets)] /\ Sessions' /\ ServersSettled'
  <2>1. \A s \in Servers : \A i \in DOMAIN r[s] : r[s][i][2] \in Current'
    BY <1>3 DEF About
  <2>2. \A s \in Servers : ~loggedIn[s] => r[s] = << >>
    BY <1>3
  <2> QED BY <1>2, <1>4, <1>5, <1>6, <2>1, <2>2, AppendedStep
<1>8. inChat' \in [Servers -> BOOLEAN]
  BY DEF CreateGame, NotInChat, HInv, HostingTypeOK
<1>9. HostingTypeOK'
  BY <1>1, <1>7, <1>8 DEF CreateGame, HInv, HostingTypeOK
<1>10. Room'
  BY DEF CreateGame, Room
<1> QED BY <1>7, <1>9, <1>10 DEF HInv

\* A withdrawal and nothing else.
LEMMA UncreateStep ==
  ASSUME HInv, UNCHANGED << link, loggedIn, shown >>, Uncreate
  PROVE  outPackets' \in [Servers -> Seq(Packets)] /\ Sessions' /\ ServersSettled'
<1> DEFINE none == [s \in Servers |-> << >>]
<1>1. outPackets \in [Servers -> Queue]
  BY DEF HInv, HostingTypeOK, Queue
<1>2. /\ none \in [Servers -> Queue] /\ \A s \in Servers : none[s] = << >>
      /\ \A s \in Servers : \A i \in DOMAIN none[s] : none[s][i][2] \in Current'
  <2>1. \A s \in Servers : none[s] = << >>
    OBVIOUS
  <2>2. << >> \in Queue
    BY DEF Queue
  <2>3. \A s \in Servers : none[s] \in Queue
    BY <2>1, <2>2
  <2>4. none \in [Servers -> Queue]
    <3>1. none = [s \in Servers |-> none[s]]
      OBVIOUS
    <3> HIDE DEF none
    <3> QED BY <2>3, <3>1
  <2>5. \A i \in DOMAIN << >> : << >>[i][2] \in Current'
    OBVIOUS
  <2> HIDE DEF none
  <2> QED BY <2>1, <2>4, <2>5
<1>3. ASSUME NEW s \in Servers
      PROVE  outPackets[s] \o QueueUncreate(s) = (outPackets[s] \o QueueUncreate(s)) \o none[s]
  <2>1. QueueUncreate(s) \in Queue /\ outPackets[s] \in Queue
    BY <1>1, PacketTypes DEF QueueUncreate, QueuedTo, Queue
  <2>2. outPackets[s] \o QueueUncreate(s) \in Queue
    BY <2>1, ConcatProperties DEF Queue
  <2>3. \A q \in Queue : q = q \o << >>
    BY ConcatEmptySeq DEF Queue
  <2> HIDE DEF none
  <2> QED BY <1>2, <2>2, <2>3
<1>4. outPackets' = [s \in Servers |-> (outPackets[s] \o QueueUncreate(s)) \o none[s]]
  <2>1. outPackets' = [s \in Servers |-> outPackets[s] \o QueueUncreate(s)]
    BY DEF Uncreate
  <2> HIDE DEF none
  <2> QED BY <1>3, <2>1
<1> HIDE DEF none
<1> QED BY <1>1, <1>2, <1>4, WithdrawnStep

\* Renamed: the lobby's game has the next counter, if there is one left.
LEMMA RenamedLobby ==
  ASSUME HInv, NEW public \in BOOLEAN, Renamed(public)
  PROVE  /\ hostCounter' \in 0 .. MaxCounter /\ hostCounter' \in Counters
         /\ lobby' \in Games /\ lobby'.counter = hostCounter'
         /\ Nothing \in Current' /\ hostCounter' \in Current'
         /\ UNCHANGED << pvpgn, games, link, loggedIn, answers, shown >>
         /\ Room'
<1>1. lobby \in Games
  BY DEF Renamed, Hosted, HInv, HostingTypeOK
<1>2. hostCounter' = hostCounter + 1 /\ hostCounter' \in 0 .. MaxCounter /\ hostCounter' \in Counters
  BY HostingAssumption DEF Renamed, HInv, HostingTypeOK, Counters
<1>3. lobby' \in Games /\ lobby'.counter = hostCounter'
  BY <1>1, <1>2 DEF Renamed, Games
<1>4. Nothing \in Current' /\ hostCounter' \in Current'
  BY <1>3, GamesAreHosted, CurrentIsNext
<1> QED BY <1>2, <1>3, <1>4 DEF Renamed, HInv, Room

\* !pub and !priv
LEMMA RehostStep ==
  ASSUME HInv, NEW public \in BOOLEAN, Rehost(public)
  PROVE  HInv'
<1> DEFINE k == [s \in Servers |-> Unqueued(outPackets[s])]
           New(s) == IF public THEN << >> ELSE QueueGameCreate(s, hostCounter', FALSE)
           r == [s \in Servers |-> New(s)]
<1>1. Renamed(public)
  BY DEF Rehost
<1>2. ASSUME NEW s \in Servers
      PROVE  /\ k[s] \in Queue /\ (outPackets[s] = << >> => k[s] = << >>)
             /\ r[s] \in Queue /\ About(r[s], Current') /\ (~loggedIn[s] => r[s] = << >>)
  <2>1. outPackets[s] \in Queue
    BY DEF HInv, HostingTypeOK, Queue
  <2>2. k[s] \in Queue /\ (outPackets[s] = << >> => k[s] = << >>)
    BY <2>1, UnqueuedType
  <2>3. /\ QueueGameCreate(s, hostCounter', FALSE) \in Queue
        /\ About(QueueGameCreate(s, hostCounter', FALSE), Current')
        /\ ~loggedIn[s] => QueueGameCreate(s, hostCounter', FALSE) = << >>
    BY <1>1, RenamedLobby, CreateQueued
  <2>4. << >> \in Queue /\ About(<< >>, Current')
    BY DEF Queue, About
  <2>5. r[s] = IF public THEN << >> ELSE QueueGameCreate(s, hostCounter', FALSE)
    OBVIOUS
  <2> HIDE DEF r, k
  <2> QED BY <2>2, <2>3, <2>4, <2>5
<1>3. k \in [Servers -> Queue] /\ r \in [Servers -> Queue]
  <2>1. k = [s \in Servers |-> k[s]] /\ r = [s \in Servers |-> r[s]]
    OBVIOUS
  <2> HIDE DEF k, r
  <2> QED BY <1>2, <2>1
<1>4. outPackets' = [s \in Servers |-> (k[s] \o QueueUncreate(s)) \o r[s]]
  <2>1. outPackets' = [s \in Servers |-> (Unqueued(outPackets[s]) \o QueueUncreate(s)) \o New(s)]
    BY DEF Rehost
  <2>2. \A s \in Servers : k[s] = Unqueued(outPackets[s]) /\ r[s] = New(s)
    OBVIOUS
  <2> HIDE DEF k, r, New
  <2> QED BY <2>1, <2>2
<1>5. UNCHANGED << link, loggedIn, shown >>
  BY <1>1, RenamedLobby
<1> HIDE DEF k, r
<1>6. outPackets' \in [Servers -> Seq(Packets)] /\ Sessions' /\ ServersSettled'
  <2>1. \A s \in Servers : \A i \in DOMAIN r[s] : r[s][i][2] \in Current'
    BY <1>2 DEF About
  <2>2. /\ \A s \in Servers : ~loggedIn[s] => r[s] = << >>
        /\ \A s \in Servers : outPackets[s] = << >> => k[s] = << >>
    BY <1>2
  <2> QED BY <1>3, <1>4, <1>5, <2>1, <2>2, WithdrawnStep
<1>7. inChat' \in [Servers -> BOOLEAN]
  BY DEF Rehost, NotInChat, HInv, HostingTypeOK
<1>8. HostingTypeOK'
  BY <1>1, <1>6, <1>7, RenamedLobby DEF HInv, HostingTypeOK
<1> QED BY <1>1, <1>6, <1>8, RenamedLobby DEF HInv

\* CBaseGame::Update rehosts
LEMMA AutoRehostStep ==
  ASSUME HInv, AutoRehost
  PROVE  HInv'
<1>1. Renamed(TRUE) /\ Uncreate /\ inChat' = inChat
  BY DEF AutoRehost
<1>2. UNCHANGED << link, loggedIn, shown >>
  BY <1>1, RenamedLobby
<1>3. outPackets' \in [Servers -> Seq(Packets)] /\ Sessions' /\ ServersSettled'
  BY <1>1, <1>2, UncreateStep
<1>4. HostingTypeOK'
  BY <1>1, <1>3, RenamedLobby DEF HInv, HostingTypeOK
<1> QED BY <1>1, <1>3, <1>4, RenamedLobby DEF HInv

\* EventGameStarted, and the deletion of a lobby that was closed
LEMMA LobbyGoesStep ==
  ASSUME HInv, EventGameStarted \/ DeleteLobby
  PROVE  HInv'
<1>1. lobby' = NoGame /\ Uncreate /\ UNCHANGED << hostCounter, pvpgn, link, loggedIn, inChat, answers, shown >>
  BY DEF EventGameStarted, DeleteLobby, session
<1>2. outPackets' \in [Servers -> Seq(Packets)] /\ Sessions' /\ ServersSettled'
  BY <1>1, UncreateStep
<1>3. games' \in 0 .. MaxGames
  BY HostingAssumption DEF EventGameStarted, DeleteLobby, HInv, Room, HostingTypeOK
<1>4. HostingTypeOK'
  BY <1>1, <1>2, <1>3 DEF HInv, HostingTypeOK
<1>5. Room'
  BY <1>1 DEF Room, Hosted
<1> QED BY <1>2, <1>4, <1>5 DEF HInv

\* Steps that queue nothing and after which the same games, and perhaps one more, are current
LEMMA NothingQueuedStep ==
  ASSUME HInv, Current \subseteq Current', UNCHANGED << link, loggedIn, shown, outPackets >>
  PROVE  Sessions' /\ ServersSettled'
<1>1. Sessions'
  BY DEF HInv, Sessions
<1>2. ASSUME NEW s \in Servers, link'[s] = "connected"
      PROVE  Settled(outPackets'[s], shown'[s], Current')
  BY <1>2, SettledMore DEF HInv, ServersSettled
<1> QED BY <1>1, <1>2 DEF ServersSettled

\* Changes of the lobby that servers are not told of, and the end of a running game
LEMMA LobbyChangesStep ==
  ASSUME HInv,
         PlayersChange \/ CountDown \/ Unhost \/ EventGameDeleted
  PROVE  HInv'
<1>1. CASE PlayersChange \/ CountDown \/ Unhost
  <2>1. lobby # NoGame /\ lobby \in Games
    BY <1>1 DEF PlayersChange, CountDown, Unhost, Hosted, HInv, HostingTypeOK
  <2>2. lobby' \in Games /\ lobby'.counter = lobby.counter
    BY <1>1, <2>1 DEF PlayersChange, CountDown, Unhost, Games
  <2>3. UNCHANGED << games, hostCounter, outPackets, pvpgn, link, loggedIn, inChat, answers, shown >>
    BY <1>1 DEF PlayersChange, CountDown, Unhost, session
  <2>4. Current' = Current
    BY <2>1, <2>2, GamesAreHosted, CurrentIs, CurrentIsNext
  <2>5. Sessions' /\ ServersSettled'
    BY <2>3, <2>4, NothingQueuedStep
  <2>6. HostingTypeOK'
    BY <2>2, <2>3 DEF HInv, HostingTypeOK
  <2>7. Room'
    BY <2>1, <2>3 DEF HInv, Room, Hosted
  <2> QED BY <2>5, <2>6, <2>7 DEF HInv
<1>2. CASE EventGameDeleted
  <2>1. UNCHANGED << lobby, hostCounter, outPackets, pvpgn, link, loggedIn, inChat, answers, shown >>
        /\ games' = games - 1 /\ games > 0 /\ games \in 0 .. MaxGames /\ MaxGames \in Nat
    BY <1>2, HostingAssumption DEF EventGameDeleted, session, HInv, HostingTypeOK
  <2>2. Current' = Current
    BY <2>1 DEF Current, Hosted
  <2>3. Sessions' /\ ServersSettled'
    BY <2>1, <2>2, NothingQueuedStep
  <2>4. games' \in 0 .. MaxGames
    BY <2>1
  <2>5. HostingTypeOK'
    BY <2>1, <2>4 DEF HInv, HostingTypeOK
  <2>6. Room'
    BY <2>1 DEF HInv, Room, Hosted
  <2> QED BY <2>3, <2>5, <2>6 DEF HInv
<1> QED BY <1>1, <1>2

\* The refresh of the lobby's game
LEMMA RefreshStep ==
  ASSUME HInv, RefreshGame
  PROVE  HInv'
<1> DEFINE r == [s \in Servers |-> IF MayRefresh(s) THEN << StartAd(lobby.counter) >>
                                   ELSE << >>]
<1>1. UNCHANGED << lobby, games, hostCounter, pvpgn, link, loggedIn, inChat, answers, shown >>
  BY DEF RefreshGame, session
<1>2. /\ lobby # NoGame /\ lobby.counter \in Counters
      /\ Current' = Current /\ lobby.counter \in Current
  <2>1. lobby # NoGame /\ lobby \in Games
    BY DEF RefreshGame, Hosted, HInv, HostingTypeOK
  <2> QED BY <1>1, <2>1, GamesAreHosted DEF Current, Hosted
<1>3. ASSUME NEW s \in Servers
      PROVE  r[s] \in Queue /\ About(r[s], Current') /\ (~loggedIn[s] => r[s] = << >>)
  <2>1. /\ << StartAd(lobby.counter) >> \in Queue
        /\ About(<< StartAd(lobby.counter) >>, Current')
        /\ << >> \in Queue /\ About(<< >>, Current')
    BY <1>2, PacketTypes, AboutOne
  <2>2. r[s] = IF MayRefresh(s) THEN << StartAd(lobby.counter) >> ELSE << >>
    OBVIOUS
  <2>3. ~loggedIn[s] => ~MayRefresh(s)
    BY DEF MayRefresh
  <2> HIDE DEF r
  <2> QED BY <2>1, <2>2, <2>3
<1>4. r \in [Servers -> Queue]
  <2>1. r = [s \in Servers |-> r[s]]
    OBVIOUS
  <2> HIDE DEF r
  <2> QED BY <1>3, <2>1
<1>5. outPackets' = [s \in Servers |-> outPackets[s] \o r[s]]
  <2>1. outPackets' = [s \in Servers |-> outPackets[s] \o
                        (IF MayRefresh(s) THEN << StartAd(lobby.counter) >> ELSE << >>)]
    BY DEF RefreshGame
  <2> QED BY <2>1
<1> HIDE DEF r
<1>6. outPackets' \in [Servers -> Seq(Packets)] /\ Sessions' /\ ServersSettled'
  <2>1. \A s \in Servers : \A i \in DOMAIN r[s] : r[s][i][2] \in Current'
    BY <1>3 DEF About
  <2>2. \A s \in Servers : ~loggedIn[s] => r[s] = << >>
    BY <1>3
  <2> QED BY <1>1, <1>2, <1>4, <1>5, <2>1, <2>2, AppendedStep
<1>7. HostingTypeOK' /\ Room'
  BY <1>1, <1>6 DEF HInv, HostingTypeOK, Room, Hosted
<1> QED BY <1>6, <1>7 DEF HInv

-----------------------------------------------------------------------------
\* Only one server's connection changes.
LEMMA OneServerStep ==
  ASSUME HInv, NEW s \in Servers, Current' = Current,
         link' \in [Servers -> {"waiting", "connecting", "connected"}],
         loggedIn' \in [Servers -> BOOLEAN], outPackets' \in [Servers -> Seq(Packets)],
         \A t \in Servers \ {s} : /\ link'[t] = link[t] /\ loggedIn'[t] = loggedIn[t]
                                  /\ outPackets'[t] = outPackets[t] /\ shown'[t] = shown[t],
         loggedIn'[s] => link'[s] = "connected",
         ~loggedIn'[s] => shown'[s] = Nothing,
         link'[s] = "connected" /\ ~loggedIn'[s] => outPackets'[s] = << >>,
         link'[s] = "connected" /\ loggedIn'[s] => Settled(outPackets'[s], shown'[s], Current)
  PROVE  Sessions' /\ ServersSettled'
<1>1. Sessions'
  BY DEF HInv, Sessions
<1>2. ASSUME NEW t \in Servers, link'[t] = "connected"
      PROVE  Settled(outPackets'[t], shown'[t], Current')
  <2>1. CASE t # s
    BY <1>2, <2>1 DEF HInv, ServersSettled
  <2>2. CASE t = s /\ loggedIn'[s]
    BY <1>2, <2>2
  <2>3. CASE t = s /\ ~loggedIn'[s]
    <3>1. Nothing \in Current' /\ outPackets'[t] = << >> /\ shown'[t] = Nothing
      BY <1>2, <2>3 DEF Current
    <3> QED BY <3>1, SettledEmpty
  <2> QED BY <2>1, <2>2, <2>3
<1> QED BY <1>1, <1>2 DEF ServersSettled

\* CBNET::Update: connections that are made and lost, and the logon
LEMMA ConnectionStep ==
  ASSUME HInv, NEW s \in Servers,
         \/ Connect(s) \/ ConnectTimedOut(s) \/ Connected(s) \/ LoggedIn(s)
         \/ Disconnected(s)
  PROVE  HInv'
<1> USE DEF HInv, HostingTypeOK
<1>1. UNCHANGED << pvpgn, lobby, games, hostCounter >> /\ Current' = Current
  BY DEF Connect, ConnectTimedOut, Connected, LoggedIn, Disconnected, Current, Hosted
<1>2. /\ link' \in [Servers -> {"waiting", "connecting", "connected"}]
      /\ loggedIn' \in [Servers -> BOOLEAN] /\ inChat' \in [Servers -> BOOLEAN]
      /\ shown' \in [Servers -> Counters \cup {Nothing}]
  BY DEF Connect, ConnectTimedOut, Connected, LoggedIn, Disconnected
<1>3. outPackets' \in [Servers -> Seq(Packets)]
  <2>1. << >> \in Seq(Packets)
    OBVIOUS
  <2> QED BY <2>1 DEF Connect, ConnectTimedOut, Connected, LoggedIn, Disconnected,
                      QueueOfNewConnection
<1>4. answers' \in [Servers -> Seq(Answers)]
  <2>1. << >> \in Seq(Answers) /\ "chat" \in Answers
    BY DEF Answers
  <2>2. Append(answers[s], "chat") \in Seq(Answers)
    BY <2>1
  <2> QED BY <2>1, <2>2 DEF Connect, ConnectTimedOut, Connected, LoggedIn, Disconnected
<1>5. HostingTypeOK' /\ Room'
  BY <1>1, <1>2, <1>3, <1>4 DEF Room, Hosted
<1>6. \A t \in Servers \ {s} : /\ link'[t] = link[t] /\ loggedIn'[t] = loggedIn[t]
                               /\ outPackets'[t] = outPackets[t] /\ shown'[t] = shown[t]
  BY DEF Connect, ConnectTimedOut, Connected, LoggedIn, Disconnected
<1>7. /\ loggedIn'[s] => link'[s] = "connected"
      /\ ~loggedIn'[s] => shown'[s] = Nothing
      /\ link'[s] = "connected" /\ ~loggedIn'[s] => outPackets'[s] = << >>
  BY DEF Connect, ConnectTimedOut, Connected, LoggedIn, Disconnected, Sessions,
         QueueOfNewConnection
<1>8. ASSUME link'[s] = "connected", loggedIn'[s]
      PROVE  Settled(outPackets'[s], shown'[s], Current)
  <2>1. LoggedIn(s)
    BY <1>8 DEF Connect, ConnectTimedOut, Connected, LoggedIn, Disconnected, Sessions
  <2>2. outPackets'[s] = << >> /\ shown'[s] = Nothing
    BY <2>1 DEF LoggedIn, Sessions
  <2>3. Nothing \in Current
    BY DEF Current
  <2> QED BY <2>2, <2>3, SettledEmpty
<1>9. Sessions' /\ ServersSettled'
  BY <1>1, <1>2, <1>3, <1>6, <1>7, <1>8, OneServerStep
<1> QED BY <1>5, <1>9

\* The bot says something on a server.
LEMMA ChatStep ==
  ASSUME HInv, NEW s \in Servers, QueueChatCommand(s)
  PROVE  HInv'
<1>1. /\ UNCHANGED << lobby, games, hostCounter, pvpgn, link, loggedIn, inChat, answers, shown >>
      /\ loggedIn[s] /\ outPackets' = [outPackets EXCEPT ![s] = Append(@, Chat)]
      /\ Current' = Current
  BY DEF QueueChatCommand, session, Current, Hosted
<1>2. outPackets[s] \in Queue /\ << Chat >> \in Queue /\ About(<< Chat >>, Current)
  BY PacketTypes, AboutOne DEF HInv, HostingTypeOK, Queue, Current
<1>3. outPackets'[s] = outPackets[s] \o << Chat >>
  <2>1. outPackets'[s] = Append(outPackets[s], Chat)
    BY <1>1 DEF HInv, HostingTypeOK
  <2>2. \A q \in Queue : Append(q, Chat) = q \o << Chat >>
    BY PacketTypes, AppendIsConcat DEF Queue
  <2> QED BY <1>2, <2>1, <2>2
<1>4. outPackets' \in [Servers -> Seq(Packets)]
  <2>1. Append(outPackets[s], Chat) \in Seq(Packets)
    BY <1>2, PacketTypes DEF Queue
  <2> QED BY <1>1, <2>1 DEF HInv, HostingTypeOK
<1>5. HostingTypeOK' /\ Room'
  BY <1>1, <1>4 DEF HInv, HostingTypeOK, Room, Hosted
<1>6. link[s] = "connected" => Settled(outPackets'[s], shown'[s], Current)
  <2> SUFFICES ASSUME link[s] = "connected" PROVE Settled(outPackets'[s], shown'[s], Current)
    OBVIOUS
  <2>1. Settled(outPackets[s], shown[s], Current)
    BY DEF HInv, ServersSettled
  <2>2. Settled(outPackets[s] \o << Chat >>, shown[s], Current)
    BY <1>2, <2>1, SettledAppended DEF About
  <2> QED BY <1>1, <1>3, <2>2
<1>7. Sessions' /\ ServersSettled'
  BY <1>1, <1>4, <1>6, OneServerStep DEF HInv, HostingTypeOK, Sessions
<1> QED BY <1>5, <1>7 DEF HInv

\* What a server may show after a packet
LEMMA AcceptsType ==
  ASSUME NEW s \in Servers, shown[s] \in Counters \cup {Nothing}, NEW p \in Packets,
         NEW reply \in Accepts(s, p)
  PROVE  /\ reply[1] \in Counters \cup {Nothing} /\ reply[2] \in Seq(Answers)
         /\ \/ reply[1] = shown[s] /\ p # StopAd
            \/ reply[1] = p[2]
            \/ reply[1] = Nothing
<1>1. /\ << >> \in Seq(Answers) /\ << "hosted" >> \in Seq(Answers)
      /\ << "failed" >> \in Seq(Answers) /\ << "chat" >> \in Seq(Answers)
  BY DEF Answers
<1>2. CASE p[1] = "STARTADVEX3" /\ p[2] \in Counters
  <2>1. reply \in {<< p[2], << "hosted" >> >>, << shown[s], << "failed" >> >>}
    BY <1>2 DEF Accepts
  <2>2. p # StopAd
    BY <1>2, PacketTypes
  <2> QED BY <1>1, <1>2, <2>1, <2>2
<1>3. CASE p = StopAd
  <2>1. reply = << Nothing, << >> >>
    BY <1>3, PacketTypes DEF Accepts
  <2> QED BY <1>1, <2>1
<1>4. CASE p = EnterChat
  <2>1. reply = << IF s \in pvpgn THEN Nothing ELSE shown[s], << "chat" >> >>
    BY <1>4, PacketTypes DEF Accepts
  <2>2. p # StopAd
    BY <1>4, PacketTypes
  <2> QED BY <1>1, <2>1, <2>2
<1>5. CASE p = Chat
  <2>1. reply = << shown[s], << >> >>
    BY <1>5, PacketTypes DEF Accepts
  <2>2. p # StopAd
    BY <1>5, PacketTypes
  <2> QED BY <1>1, <2>1, <2>2
<1> QED BY <1>2, <1>3, <1>4, <1>5, PacketTypes

\* The first packet of a queue is sent.
LEMMA SendStep ==
  ASSUME HInv, NEW s \in Servers, Send(s)
  PROVE  HInv'
<1>1. /\ UNCHANGED << pvpgn, lobby, games, hostCounter, link, loggedIn, inChat >>
      /\ Current' = Current /\ link[s] = "connected" /\ outPackets[s] # << >>
      /\ outPackets' = [outPackets EXCEPT ![s] = Tail(@)]
  BY DEF Send, Current, Hosted
<1>2. loggedIn[s]
  BY <1>1 DEF HInv, Sessions
<1>3. outPackets[s] \in Queue /\ Head(outPackets[s]) \in Packets
      /\ Tail(outPackets[s]) \in Seq(Packets)
  <2>1. outPackets[s] \in Seq(Packets)
    BY DEF HInv, HostingTypeOK
  <2> QED BY <1>1, <2>1, HeadTailProperties DEF Queue
<1>4. PICK reply \in Accepts(s, Head(outPackets[s])) :
        /\ shown' = [shown EXCEPT ![s] = reply[1]]
        /\ answers' = [answers EXCEPT ![s] = @ \o reply[2]]
  BY <1>2 DEF Send
<1>5. /\ reply[1] \in Counters \cup {Nothing} /\ reply[2] \in Seq(Answers)
      /\ \/ reply[1] = shown[s] /\ Head(outPackets[s]) # StopAd
         \/ reply[1] = Head(outPackets[s])[2]
         \/ reply[1] = Nothing
  <2>1. shown[s] \in Counters \cup {Nothing}
    BY DEF HInv, HostingTypeOK
  <2> QED BY <1>3, <2>1, AcceptsType
<1>6. /\ outPackets' \in [Servers -> Seq(Packets)]
      /\ shown' \in [Servers -> Counters \cup {Nothing}]
  BY <1>1, <1>3, <1>4, <1>5 DEF HInv, HostingTypeOK
<1>7. answers' \in [Servers -> Seq(Answers)]
  <2>1. answers \in [Servers -> Seq(Answers)]
    BY DEF HInv, HostingTypeOK
  <2>2. answers[s] \o reply[2] \in Seq(Answers)
    BY <1>5, <2>1, ConcatProperties
  <2> QED BY <1>4, <2>1, <2>2
<1>8. HostingTypeOK' /\ Room'
  BY <1>1, <1>6, <1>7 DEF HInv, HostingTypeOK, Room, Hosted
<1>9. Settled(outPackets'[s], shown'[s], Current)
  <2>1. Settled(outPackets[s], shown[s], Current) /\ Nothing \in Current
    BY <1>1 DEF HInv, ServersSettled, Current
  <2>2. Settled(Tail(outPackets[s]), reply[1], Current)
    BY <1>1, <1>3, <1>5, <2>1, SettledSent
  <2>3. outPackets'[s] = Tail(outPackets[s]) /\ shown'[s] = reply[1]
    BY <1>1, <1>4 DEF HInv, HostingTypeOK
  <2> QED BY <2>2, <2>3
<1>10. \A t \in Servers \ {s} : outPackets'[t] = outPackets[t] /\ shown'[t] = shown[t]
  BY <1>1, <1>4 DEF HInv, HostingTypeOK
<1>11. Sessions' /\ ServersSettled'
  BY <1>1, <1>2, <1>6, <1>9, <1>10, OneServerStep DEF HInv, HostingTypeOK, Sessions
<1> QED BY <1>8, <1>11 DEF HInv

\* ProcessPackets and EventBNETGameRefreshFailed: an answer is read.
LEMMA ReadStep ==
  ASSUME HInv, NEW s \in Servers, Read(s)
  PROVE  HInv'
<1>1. /\ UNCHANGED << pvpgn, games, hostCounter, link, loggedIn, shown >>
      /\ answers[s] # << >> /\ answers' = [answers EXCEPT ![s] = Tail(@)]
      /\ inChat' \in [Servers -> BOOLEAN]
      /\ RefreshFailed \/ UNCHANGED << lobby, outPackets >>
  BY DEF Read, HInv, HostingTypeOK
<1>2. answers' \in [Servers -> Seq(Answers)]
  <2>1. answers \in [Servers -> Seq(Answers)]
    BY DEF HInv, HostingTypeOK
  <2>2. Tail(answers[s]) \in Seq(Answers)
    BY <1>1, <2>1, HeadTailProperties
  <2> QED BY <1>1, <2>1, <2>2
<1>3. CASE UNCHANGED << lobby, outPackets >>
  <2>1. Current' = Current
    BY <1>3 DEF Current, Hosted
  <2>2. Sessions' /\ ServersSettled'
    BY <1>1, <1>3, <2>1, NothingQueuedStep
  <2>3. HostingTypeOK' /\ Room'
    BY <1>1, <1>2, <1>3 DEF HInv, HostingTypeOK, Room, Hosted
  <2> QED BY <2>2, <2>3 DEF HInv
<1>4. CASE RefreshFailed
  <2> DEFINE r == [t \in Servers |-> QueuedTo(t, << Chat >>)]
  <2>1. lobby # NoGame /\ lobby \in Games
    BY <1>4 DEF RefreshFailed, Hosted, HInv, HostingTypeOK
  <2>2. lobby' \in Games /\ lobby'.counter = lobby.counter
    BY <1>4, <2>1 DEF RefreshFailed, Games
  <2>3. Current' = Current /\ Nothing \in Current
    BY <2>1, <2>2, GamesAreHosted, CurrentIs, CurrentIsNext
  <2>4. ASSUME NEW t \in Servers
        PROVE  r[t] \in Queue /\ About(r[t], Current') /\ (~loggedIn[t] => r[t] = << >>)
    <3>1. QueuedTo(t, << Chat >>) \in Queue /\ About(QueuedTo(t, << Chat >>), Current')
      BY <2>3, ChatQueued
    <3>2. ~loggedIn[t] => QueuedTo(t, << Chat >>) = << >>
      BY NotQueued
    <3>3. r[t] = QueuedTo(t, << Chat >>)
      OBVIOUS
    <3> HIDE DEF r
    <3> QED BY <3>1, <3>2, <3>3
  <2>5. r \in [Servers -> Queue]
    <3>1. r = [t \in Servers |-> r[t]]
      OBVIOUS
    <3> HIDE DEF r
    <3> QED BY <2>4, <3>1
  <2>6. outPackets' = [t \in Servers |-> outPackets[t] \o r[t]]
    <3>1. outPackets' = [t \in Servers |-> outPackets[t] \o QueuedTo(t, << Chat >>)]
      BY <1>4 DEF RefreshFailed
    <3> QED BY <3>1
  <2> HIDE DEF r
  <2>7. outPackets' \in [Servers -> Seq(Packets)] /\ Sessions' /\ ServersSettled'
    <3>1. \A t \in Servers : \A i \in DOMAIN r[t] : r[t][i][2] \in Current'
      BY <2>4 DEF About
    <3>2. \A t \in Servers : ~loggedIn[t] => r[t] = << >>
      BY <2>4
    <3> QED BY <1>1, <2>3, <2>5, <2>6, <3>1, <3>2, AppendedStep
  <2>8. HostingTypeOK' /\ Room'
    BY <1>1, <1>2, <2>1, <2>2, <2>7 DEF HInv, HostingTypeOK, Room, Hosted
  <2> QED BY <2>7, <2>8 DEF HInv
<1> QED BY <1>1, <1>3, <1>4

\* Every action keeps the invariant.
LEMMA StepHInv ==
  ASSUME HInv, [HostingNext]_(hostingVars)
  PROVE  HInv'
<1>1. ASSUME NEW public \in BOOLEAN, CreateGame(public) \/ Rehost(public) PROVE HInv'
  BY <1>1, CreateGameStep, RehostStep
<1>2. CASE PlayersChange \/ CountDown \/ Unhost \/ EventGameDeleted
  BY <1>2, LobbyChangesStep
<1>3. CASE RefreshGame
  BY <1>3, RefreshStep
<1>4. CASE AutoRehost
  BY <1>4, AutoRehostStep
<1>5. CASE EventGameStarted \/ DeleteLobby
  BY <1>5, LobbyGoesStep
<1>6. ASSUME NEW s \in Servers,
             \/ Connect(s) \/ ConnectTimedOut(s) \/ Connected(s) \/ LoggedIn(s)
             \/ Disconnected(s) \/ QueueChatCommand(s) \/ Send(s) \/ Read(s)
      PROVE  HInv'
  BY <1>6, ConnectionStep, ChatStep, SendStep, ReadStep
<1>7. CASE UNCHANGED hostingVars
  <2>1. UNCHANGED << pvpgn, lobby, games, hostCounter, link, loggedIn, inChat, outPackets, answers,
                     shown >>
    BY <1>7 DEF hostingVars
  <2>2. Current' = Current
    BY <2>1 DEF Current, Hosted
  <2>3. Sessions' /\ ServersSettled'
    BY <2>1, <2>2, NothingQueuedStep
  <2>4. HostingTypeOK' /\ Room'
    BY <2>1 DEF HInv, HostingTypeOK, Room, Hosted
  <2> QED BY <2>3, <2>4 DEF HInv
<1> QED BY <1>1, <1>2, <1>3, <1>4, <1>5, <1>6, <1>7 DEF HostingNext

(* A server that shows a game other than the lobby's, renamed, started or  *)
(* closed meanwhile, will be told to withdraw it, for any servers,         *)
(* connections that come and go and answers that are late: behind every    *)
(* announcement of such a game that is queued there is a withdrawal.       *)
THEOREM OldGamesGo ==
  HostingSpec => []HostingOK
<1>1. HostingInit => HInv
  BY InitHInv
<1>2. HInv /\ [HostingNext]_(hostingVars) => HInv'
  BY StepHInv
<1>3. HInv => HostingOK
  BY SettledIsWithdrawn DEF HInv, HostingOK
<1> QED BY <1>1, <1>2, <1>3, PTL DEF HostingSpec
=============================================================================
