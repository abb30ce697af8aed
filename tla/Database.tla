------------------------------- MODULE Database -------------------------------
(***************************************************************************)
(* The queries of the bot: callables, each run by a thread of its own with *)
(* a connection of the MySQL pool; their owners, which are a battle.net    *)
(* connection and its ban list, a running game and the rows it leaves      *)
(* behind, and the list of orphans; and the nice exit, which waits for     *)
(* them.                                                                   *)
(*                                                                         *)
(* The main thread is CGHost::Update, `phase` says where it is; workers    *)
(* run at any time.  A callable is known by what it asks for: the same     *)
(* question is not asked twice while it is open.  The admin list is kept   *)
(* as the ban list is, counts and statistics are callables without effect: *)
(* both are left out.                                                      *)
(***************************************************************************)
EXTENDS Integers, Sequences, FiniteSets, SequencesExt

CONSTANTS Names,
          MaxIdle,    \* connections above it are closed; 30 in the code
          \* bounds for TLC: open callables when one is added, and threads that cannot
          \* be created
          MaxOpen, MaxGiveUps

ASSUME DatabaseAssumption == MaxIdle \in Nat /\ MaxOpen \in Nat /\ MaxGiveUps \in Nat

Query(kind, owner, name) == [kind |-> kind, owner |-> owner, name |-> name]
BanAdds(owner) == {Query("BanAdd", owner, n) : n \in Names}
BanRemoves == {Query("BanRemove", "bnet", n) : n \in Names}
BanList == Query("BanList", "bnet", "all")
GameAdd == Query("GameAdd", "game", "all")
GamePlayerAdd == Query("GamePlayerAdd", "orphans", "all")
Queries == BanAdds("bnet") \cup BanAdds("game") \cup BanRemoves
             \cup {BanList, GameAdd, GamePlayerAdd}

VARIABLES
    callable,       \* of each query: its stage, connection and result
    orphans,        \* m_Callables of CGHost
    idle,           \* m_IdleConnections
    numConnections, \* m_NumConnections
    outstanding,    \* m_OutstandingCallables
    bans,           \* m_Bans of the battle.net connection
    bnet,           \* whether it exists
    game,           \* a game: "playing", "saving" (m_Saving) or "gone"
    exitingNice,    \* m_ExitingNice
    allFinished,    \* m_AllGamesFinished
    exiting,        \* m_Exiting: "no", "finished" or "timeout"
    phase,
    \* the database: the banned, and the game's rows
    database, gameRow, playerRow,
    \* bounds and history: threads that could not be created, connections counted
    \* again, and whether commands and failures have come to an end
    giveUps, recounted, quiet

pool == << idle, numConnections, outstanding, recounted >>
rows == << gameRow, playerRow >>
exit == << exitingNice, allFinished, exiting >>
vars == << callable, orphans, pool, bans, bnet, game, exit, phase, database, rows, giveUps, quiet >>

-----------------------------------------------------------------------------
(* Callables and the pool.                                                 *)

\* A callable before its query is executed
At(stage, connection) == [stage |-> stage, connection |-> connection, ok |-> FALSE, names |-> {}]
Absent == At("none", "NULL")
Open == {q \in Queries : callable[q].stage # "none"}
Ready == {q \in Queries : callable[q].stage = "ready"}
OwnedBy(owner) == {q \in Open \ orphans : q.owner = owner}

\* (fault) the connection stays in the pool
FrontLeftBehind == idle
WithoutFront == IF idle = << >> THEN idle ELSE Tail(idle)
GetIdleConnection == IF idle = << >> THEN "NULL" ELSE Head(idle)

\* A Threaded... function: take an idle connection, or count one that the thread will
\* make, and create the thread.  After a second failure the callable is just ready.
Thread(q) ==
    /\ callable[q].stage = "none"
    /\ idle' = WithoutFront
    /\ numConnections' = numConnections + IF GetIdleConnection = "NULL" THEN 1 ELSE 0
    /\ recounted' = recounted + IF GetIdleConnection = "NULL" /\ idle # << >> THEN 1 ELSE 0
    /\ outstanding' = outstanding + 1
    /\ \/ callable' = [callable EXCEPT ![q] = At("running", GetIdleConnection)]
          /\ UNCHANGED giveUps
       \/ /\ giveUps < MaxGiveUps /\ ~quiet
          /\ callable' = [callable EXCEPT ![q] = At("ready", GetIdleConnection)]
          /\ giveUps' = giveUps + 1

\* A connection goes back to the pool while this many are not more than MaxIdle.
Capacity == IF Len(idle) > MaxIdle THEN Len(idle) ELSE MaxIdle + 1

\* RecoverCallable and delete, for each of a set: its connection goes back to the
\* pool, or is closed when the pool is full.
Recover(done) ==
    LET given == idle \o [i \in 1 .. Cardinality(done) |->
                                callable[SetToSeq(done)[i]].connection]
    IN  /\ idle' = SubSeq(given, 1, IF Capacity < Len(given) THEN Capacity ELSE Len(given))
        /\ numConnections' = numConnections - (Len(given) - Len(idle'))
        /\ outstanding' = outstanding - Cardinality(done)
        /\ callable' = [q \in Queries |-> IF q \in done THEN Absent ELSE callable[q]]
        /\ orphans' = orphans \ done
        /\ UNCHANGED recounted

NamesIn(done, kind) == {q.name : q \in {r \in done : r.kind = kind /\ callable[r].ok}}

-----------------------------------------------------------------------------
(* The worker thread of a callable: CMySQLCallable::Init makes a           *)
(* connection or pings the one it was given, then comes the query, if      *)
(* there was no error.  Nobody but the database sees what it does before   *)
(* Close makes the callable ready.                                         *)

Succeed(q) ==
    /\ callable' = [callable EXCEPT ![q] =
            [stage |-> "ready", connection |-> "open", ok |-> TRUE,
             names |-> IF q = BanList THEN database ELSE {}]]
    /\ database' = CASE q.kind = "BanAdd" -> database \cup {q.name}
                     [] q.kind = "BanRemove" -> database \ {q.name}
                     [] OTHER -> database
    /\ gameRow' = (gameRow \/ q = GameAdd)
    /\ playerRow' = (playerRow \/ q = GamePlayerAdd)

Fail(q) ==
    /\ ~quiet
    /\ callable' = [callable EXCEPT ![q].stage = "ready", ![q].connection = "open"]
    /\ UNCHANGED << database, rows >>

Execute(q) ==
    /\ callable[q].stage = "running"
    /\ Succeed(q) \/ Fail(q)
    /\ UNCHANGED << orphans, pool, bans, bnet, game, exit, phase, giveUps, quiet >>

-----------------------------------------------------------------------------
(* The main thread: "update" begins a turn, which may skip what it need    *)
(* not do.                                                                 *)

\* CBNET::~CBNET hands its callables over.  The exit waits for orphans.
ExitNicely ==
    /\ phase = "update" /\ exitingNice /\ phase' = "callables"
    /\ orphans' = orphans \cup OwnedBy("bnet") /\ bnet' = FALSE
    /\ allFinished' = (game = "gone")
    /\ IF game = "gone" /\ allFinished
       THEN exiting' \in (IF orphans' = {} THEN {"finished"} ELSE {"no", "timeout"})
       ELSE UNCHANGED exiting
    /\ UNCHANGED << callable, pool, bans, game, exitingNice, database, rows, giveUps, quiet >>

\* Orphans are recovered; CGame::Update adds the bans made in the game to the list of
\* the battle.net connection, if there is one.
UpdateCallables ==
    LET done == IF game = "gone" THEN {} ELSE OwnedBy("game") \cap BanAdds("game") \cap Ready
    IN  /\ phase = IF exitingNice THEN "callables" ELSE "update"
        /\ phase' = "game"
        /\ Recover(done \cup (orphans \cap Ready))
        /\ bans' = IF bnet THEN bans \cup NamesIn(done, "BanAdd") ELSE bans
        /\ UNCHANGED << bnet, game, exit, database, rows, giveUps, quiet >>

\* !ban in the game
BanInGame(n) ==
    /\ phase = "game" /\ game = "playing" /\ phase' = "bnet"
    /\ ~quiet /\ Cardinality(Open) < MaxOpen
    /\ Thread(Query("BanAdd", "game", n))
    /\ UNCHANGED << orphans, bans, bnet, game, exit, database, rows, quiet >>

\* The last player has left.
SaveGameData ==
    /\ phase = "game" /\ game = "playing" /\ phase' = "bnet"
    /\ Cardinality(Open) < MaxOpen
    /\ game' = "saving"
    /\ Thread(GameAdd)
    /\ UNCHANGED << orphans, bans, bnet, exit, database, rows, quiet >>

\* (fault) the bans under way are forgotten with the game
BansForgotten == {}
\* The callables that a game leaves to CGHost
HandedOver == OwnedBy("game") \ {GameAdd}

\* (fault) the players' rows wait for an answer that never comes
NoPlayersFollow == FALSE
PlayersFollow == callable[GameAdd].ok

\* Update returned true, for the data are saved: CGame::~CGame adds the players' rows
\* and leaves its callables to CGHost.
DeleteGame ==
    /\ phase = "game" /\ game = "saving" /\ GameAdd \in Ready /\ phase' = "delete"
    /\ game' = "gone"
    /\ IF PlayersFollow
       THEN Thread(GamePlayerAdd) /\ orphans' = orphans \cup HandedOver \cup {GamePlayerAdd}
       ELSE orphans' = orphans \cup HandedOver /\ UNCHANGED << callable, pool, giveUps >>
    /\ UNCHANGED << bans, bnet, exit, database, rows, quiet >>

RecoverGameAdd ==
    /\ phase = "delete" /\ phase' = "bnet"
    /\ Recover({GameAdd})
    /\ UNCHANGED << bans, bnet, game, exit, database, rows, giveUps, quiet >>

\* CBNET::Update: first bans that were added, then bans that were removed
UpdateBans ==
    LET adds == OwnedBy("bnet") \cap BanAdds("bnet") \cap Ready
        removes == OwnedBy("bnet") \cap BanRemoves \cap Ready
    IN  /\ \/ phase = "game" /\ (game = "saving" => GameAdd \notin Ready)
           \/ phase = "bnet"
        /\ phase' = "refresh"
        /\ Recover(adds \cup removes)
        /\ bans' = (bans \cup NamesIn(adds, "BanAdd")) \ NamesIn(removes, "BanRemove")
        /\ UNCHANGED << bnet, game, exit, database, rows, giveUps, quiet >>

\* Every 60 minutes
Refresh ==
    /\ phase = "refresh" /\ phase' = "list" /\ bnet
    /\ Cardinality(Open) < MaxOpen
    /\ Thread(BanList)
    /\ UNCHANGED << orphans, bans, bnet, game, exit, database, rows, quiet >>

\* (fault) the callable is kept
ListKept == UNCHANGED << callable, orphans, pool >>
RecoverList == Recover({BanList})

\* The new list replaces the old one, also when the query failed and it is empty.
UpdateBanList ==
    /\ phase \in {"refresh", "list"} /\ phase' = "commands"
    /\ IF bnet /\ BanList \in Ready THEN RecoverList /\ bans' = callable[BanList].names
       ELSE UNCHANGED << callable, orphans, pool, bans >>
    /\ UNCHANGED << bnet, game, exit, database, rows, giveUps, quiet >>

\* !addban and !delban on battle.net
BanCommand(n) ==
    /\ phase = "commands" /\ phase' = "update" /\ bnet
    /\ ~quiet /\ Cardinality(Open) < MaxOpen
    /\ IF n \in bans THEN Thread(Query("BanRemove", "bnet", n)) ELSE Thread(Query("BanAdd", "bnet", n))
    /\ UNCHANGED << orphans, bans, bnet, game, exit, database, rows, quiet >>

EndOfUpdate ==
    /\ phase = "commands" /\ phase' = IF exiting = "no" THEN "update" ELSE "over"
    /\ UNCHANGED << callable, orphans, pool, bans, bnet, game, exit, database, rows, giveUps, quiet >>

\* An interrupt, or !exit nice.  (A signal is noticed when the turn begins.)
Signal ==
    /\ phase = "update" /\ ~exitingNice /\ exitingNice' = TRUE
    /\ UNCHANGED << callable, orphans, pool, bans, bnet, game, allFinished, exiting, phase,
                    database, rows, giveUps, quiet >>

\* The world comes to rest.
GoQuiet ==
    /\ phase = "update" /\ ~quiet /\ quiet' = TRUE
    /\ UNCHANGED << callable, orphans, pool, bans, bnet, game, exit, phase, database, rows, giveUps >>

-----------------------------------------------------------------------------
Init ==
    /\ callable = [q \in Queries |-> Absent] /\ orphans = {}
    /\ idle = << "open" >> /\ numConnections = 1 /\ outstanding = 0
    /\ \E b \in SUBSET Names : bans = b /\ database = b
    /\ bnet = TRUE /\ game = "playing" /\ gameRow = FALSE /\ playerRow = FALSE
    /\ exitingNice = FALSE /\ allFinished = FALSE /\ exiting = "no"
    /\ phase = "update" /\ giveUps = 0 /\ recounted = 0 /\ quiet = FALSE

Main ==
    \/ ExitNicely \/ UpdateCallables \/ SaveGameData \/ DeleteGame \/ RecoverGameAdd
    \/ UpdateBans \/ Refresh \/ UpdateBanList \/ EndOfUpdate
    \/ \E n \in Names : BanInGame(n) \/ BanCommand(n)

Next ==
    \/ Main \/ Signal \/ GoQuiet
    \/ \E q \in Queries : Execute(q)

\* The main loop and the threads go on; an hour passes again and again.
Fairness ==
    /\ WF_vars(Main) /\ SF_vars(Refresh)
    /\ \A q \in Queries : WF_vars(Execute(q))

Spec == Init /\ [][Next]_vars /\ Fairness

-----------------------------------------------------------------------------
(* Correctness.                                                            *)

TypeOK ==
    /\ \A q \in Queries :
        /\ callable[q].stage \in {"none", "running", "ready"}
        /\ callable[q].connection \in {"open", "NULL"}
        /\ callable[q].ok \in BOOLEAN /\ callable[q].names \subseteq Names
    /\ orphans \subseteq Open
    /\ idle \in Seq({"open", "NULL"}) /\ Len(idle) <= MaxIdle + 1
    /\ bans \subseteq Names /\ database \subseteq Names
    /\ game \in {"playing", "saving", "gone"} /\ exiting \in {"no", "finished", "timeout"}
    /\ {bnet, gameRow, playerRow, exitingNice, allFinished, quiet} \subseteq BOOLEAN

\* The pool's books: every callable that is not recovered and every idle connection
\* counts once, except that an idle NULL, left by a thread that could not be created,
\* is counted again by whoever takes it.
PoolCounted ==
    /\ outstanding = Cardinality(Open)
    /\ numConnections = Len(idle) + outstanding + recounted

\* "The bot now waits 60 seconds for (database) threads to finish when exiting nicely":
\* if it did not give up waiting, no thread is at work any more and no result is lost.
ExitWaits == exiting = "finished" => Open = {}
PoolOK == TypeOK /\ PoolCounted /\ ExitWaits

\* No callable is leaked (ghostdb.h: "be careful not to leak any callables"): when no
\* new ones are made each is recovered in the end, whatever happened to its owner,
\* unless the program ends first.  Only lists are read for ever.
AllRecovered == quiet ~> (Open \subseteq {BanList} \/ phase = "over")

\* Once commands and errors have come to rest, the list of bans that the battle.net
\* connection keeps is the database's, whatever was lost by lists that were read
\* before a ban and arrived after it, by failed queries and by deleted games.
BansSettle == <>[](quiet /\ ~exitingNice) => <>[](bans = database)

\* A game whose row has been written gets its players' rows too (the two steps of
\* saving a game), if no errors come and the program does not end first.
PlayersFollowGame == (quiet /\ gameRow /\ game = "saving") ~> (playerRow \/ phase = "over")
=============================================================================
