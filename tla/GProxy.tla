-------------------------------- MODULE GProxy --------------------------------
(***************************************************************************)
(* The connection of one player who uses GProxy++: the CGamePlayer object  *)
(* of the bot (gameplayer.cpp), the sockets that CGHost::Update accepts on *)
(* the reconnect port (ghost.cpp), and the GProxy++ client as far as the   *)
(* bot relies on it.  The client mirrors the bot: it counts the packets of *)
(* the game, keeps those that are not acknowledged and sends them again    *)
(* after a reconnection.                                                   *)
(*                                                                         *)
(* TCP connections are numbered in the order in which the client opens     *)
(* them.  A connection is a FIFO queue in each direction; whatever is in   *)
(* it is lost when the side that should read it gives the connection up.   *)
(***************************************************************************)
EXTENDS Integers, Sequences, SequencesExt

CONSTANTS MaxPackets,   \* bound: packets the game sends, but for notices of lost and
                      \* restored connections
          MaxClientPackets, \* bound: packets the player sends
          MaxConns,     \* bound: connections the client opens
          MaxAcks,      \* bound: acknowledgements on the way in one queue
          MaxNotices    \* bound: notices of one lost connection, 2 in the code

ASSUME BoundsAssumption ==
    {MaxPackets, MaxClientPackets, MaxAcks, MaxNotices} \subseteq Nat /\ MaxConns \in Nat \ {0}

NoConn == 0
Conns == 1 .. MaxConns
Numbers == Nat
Kinds == {"w3gs", "ack", "reconnect"}
Message == [kind : Kinds, number : Numbers]

VARIABLES
    gameLoaded,             \* m_Game->GetGameLoaded( )
    deleted,                \* the player was removed from the game
    totalPacketsSent, totalPacketsReceived,
    gproxyBuffer,           \* m_GProxyBuffer
    socket,                 \* the connection of m_Socket, NoConn after its Reset
    reconnectSockets,       \* m_ReconnectSockets
    opened, clientSocket,   \* connections opened by the client, and the one it uses
    clientReady,            \* the client may send on its connection
    clientSent, clientBuffer,   \* what Warcraft III gave the client, what it keeps
    toClient, toServer,     \* what is on the way on each connection
    warcraft, game,         \* the packets that Warcraft III and the game received
    unkept                  \* history: how many packets were sent before the game was loaded

server == << totalPacketsSent, totalPacketsReceived, gproxyBuffer, socket, reconnectSockets >>
client == << opened, clientSocket, clientReady, clientSent, clientBuffer >>
vars == << gameLoaded, deleted, server, client, toClient, toServer, warcraft, game,
           unkept >>

TypeOK ==
    /\ gameLoaded \in BOOLEAN /\ deleted \in BOOLEAN /\ clientReady \in BOOLEAN
    /\ totalPacketsSent \in Numbers /\ clientSent \in Numbers
    /\ totalPacketsReceived \in 0 .. clientSent
    /\ gproxyBuffer \in Seq(1 .. totalPacketsSent) /\ clientBuffer \in Seq(1 .. clientSent)
    /\ socket \in Conns \cup {NoConn} /\ reconnectSockets \subseteq Conns
    /\ opened \in Conns /\ clientSocket \in 1 .. opened
    /\ toClient \in [Conns -> Seq(Message)] /\ toServer \in [Conns -> Seq(Message)]
    /\ warcraft \in Seq(1 .. totalPacketsSent) /\ game \in Seq(1 .. clientSent)
    /\ unkept \in 0 .. totalPacketsSent

-----------------------------------------------------------------------------
W3GS(n) == [kind |-> "w3gs", number |-> n]
Ack(n) == [kind |-> "ack", number |-> n]
Reconnect(n) == [kind |-> "reconnect", number |-> n]
Packets(numbers) == [i \in 1 .. Len(numbers) |-> W3GS(numbers[i])]

\* What PutBytes adds to a connection; a socket that was reset goes nowhere.
Put(wire, c, messages) ==
    IF c = NoConn THEN wire ELSE [wire EXCEPT ![c] = @ \o messages]
Emptied(wire, c) == IF c = NoConn THEN wire ELSE [wire EXCEPT ![c] = << >>]
Read(wire, c) == [wire EXCEPT ![c] = Tail(@)]
Acks(wire, c) == Len(SelectSeq(wire[c], LAMBDA m : m.kind = "ack"))

\* (fault) one packet too many is removed
UnqueuedPast(buffer, sent, lastPacket) ==
    LET already == sent - Len(buffer)
    IN  IF lastPacket >= already
        THEN SubSeq(buffer, lastPacket - already + 2, Len(buffer)) ELSE buffer
\* The buffer after the other side has said that it has lastPacket packets
Unqueued(buffer, sent, lastPacket) ==
    LET already == sent - Len(buffer)
    IN  IF lastPacket > already
        THEN SubSeq(buffer, lastPacket - already + 1, Len(buffer)) ELSE buffer

Init ==
    /\ gameLoaded = FALSE /\ deleted = FALSE
    /\ totalPacketsSent = 0 /\ totalPacketsReceived = 0 /\ gproxyBuffer = << >>
    /\ socket = 1 /\ reconnectSockets = {}
    /\ opened = 1 /\ clientSocket = 1 /\ clientReady = TRUE
    /\ clientSent = 0 /\ clientBuffer = << >>
    /\ toClient = [c \in Conns |-> << >>] /\ toServer = [c \in Conns |-> << >>]
    /\ warcraft = << >> /\ game = << >> /\ unkept = 0

-----------------------------------------------------------------------------
(* The bot.                                                                *)

\* (fault) packets that could not be sent are not kept
BufferedWhenSent(number) ==
    IF gameLoaded /\ socket # NoConn THEN Append(gproxyBuffer, number) ELSE gproxyBuffer
\* CGamePlayer::Send.  Packets are kept from the moment the game is loaded.
Buffered(number) == IF gameLoaded THEN Append(gproxyBuffer, number) ELSE gproxyBuffer

Send ==
    LET number == totalPacketsSent + 1
    IN  /\ ~deleted /\ number <= MaxPackets
        /\ totalPacketsSent' = number
        /\ gproxyBuffer' = Buffered(number)
        /\ toClient' = Put(toClient, socket, << W3GS(number) >>)
        /\ unkept' = IF gameLoaded THEN unkept ELSE number
        /\ UNCHANGED << gameLoaded, deleted, totalPacketsReceived, socket,
                        reconnectSockets, client, toServer, warcraft, game >>

\* CBaseGame::Update finds every player loaded, having just said so to the players: what
\* it sent is still on the way, and is in no buffer.
LoadGame ==
    /\ ~gameLoaded /\ ~deleted
    /\ gameLoaded' = TRUE
    /\ UNCHANGED << deleted, server, client, toClient, toServer, warcraft, game, unkept >>

\* ExtractPackets counts the packets of the game only.
Counted(m) == m.kind = "w3gs"

\* CGamePlayer::Update reads its socket: ExtractPackets and ProcessPackets.
ReadSocket ==
    /\ ~deleted /\ socket # NoConn /\ toServer[socket] # << >>
    /\ LET m == Head(toServer[socket])
       IN /\ totalPacketsReceived' =
                totalPacketsReceived + (IF Counted(m) THEN 1 ELSE 0)
          /\ game' = IF m.kind = "w3gs" THEN Append(game, m.number) ELSE game
          /\ gproxyBuffer' = IF m.kind = "ack"
                             THEN Unqueued(gproxyBuffer, totalPacketsSent, m.number)
                             ELSE gproxyBuffer
    /\ toServer' = Read(toServer, socket)
    /\ UNCHANGED << gameLoaded, deleted, totalPacketsSent, socket, reconnectSockets,
                    client, toClient, warcraft, unkept >>

\* The acknowledgement that CGamePlayer::Update sends every 10 seconds
SendAck ==
    /\ ~deleted /\ socket # NoConn /\ Acks(toClient, socket) < MaxAcks
    /\ toClient' = Put(toClient, socket, << Ack(totalPacketsReceived) >>)
    /\ UNCHANGED << gameLoaded, deleted, server, client, toServer, warcraft,
                    game, unkept >>

\* CGamePlayer::Update finds its socket failed or closed.  Before the game is loaded the
\* player is deleted.  After that everybody is told that the connection was lost, unless
\* a time-out was told of already, and the player how long it may wait, every 20 seconds:
\* the player's own copies are put into the socket that is reset next.
SocketLost ==
    /\ ~deleted /\ socket # NoConn
    /\ \E notices \in IF gameLoaded THEN 0 .. MaxNotices ELSE {0} :
        /\ totalPacketsSent' = totalPacketsSent + notices
        /\ gproxyBuffer' = gproxyBuffer \o [i \in 1 .. notices |-> totalPacketsSent + i]
    /\ socket' = NoConn
    /\ toServer' = Emptied(toServer, socket)
    /\ deleted' = ~gameLoaded
    /\ UNCHANGED << gameLoaded, totalPacketsReceived, reconnectSockets, client, toClient,
                    warcraft, game, unkept >>

\* The player is dropped from the game: kicked, or it lagged too long.
Delete ==
    /\ gameLoaded /\ ~deleted
    /\ deleted' = TRUE
    /\ UNCHANGED << gameLoaded, server, client, toClient, toServer, warcraft,
                    game, unkept >>

-----------------------------------------------------------------------------
(* Reconnection.                                                           *)

Accept ==
    /\ \E c \in Conns \ reconnectSockets :
        /\ c > 1 /\ c <= opened
        /\ toServer[c] # << >> /\ Head(toServer[c]).kind = "reconnect"
        /\ reconnectSockets' = reconnectSockets \cup {c}
    /\ UNCHANGED << gameLoaded, deleted, totalPacketsSent, totalPacketsReceived,
                    gproxyBuffer, socket, client, toClient, toServer, warcraft,
                    game, unkept >>

\* (fault) the packets that are sent again are not kept
KeptNothing(buffer) == << >>
\* What is sent again stays in the buffer, until it is acknowledged.
KeptAfterResending(buffer) == buffer

\* (fault) nothing is sent again
NothingResent(buffer) == << >>
Resent(buffer) == Packets(buffer)

\* (fault) the packet that arrived last is asked for again
ArrivedButTheLast == IF totalPacketsReceived > 0 THEN totalPacketsReceived - 1 ELSE 0
\* What the client is told, so that it sends the rest again
Arrived == totalPacketsReceived

\* CGHost::Update reads a GPS_RECONNECT from an accepted socket and finds the player:
\* EventGProxyReconnect replaces the player's socket, says what arrived, sends again
\* what did not, and tells everybody.
EventGProxyReconnect ==
    /\ gameLoaded /\ ~deleted
    /\ \E c \in reconnectSockets :
        LET number == totalPacketsSent + 1
            buffer == Unqueued(gproxyBuffer, totalPacketsSent, Head(toServer[c]).number)
        IN  /\ toServer' = Read(Emptied(toServer, socket), c)
            /\ socket' = c
            /\ reconnectSockets' = reconnectSockets \ {c}
            /\ totalPacketsSent' = number
            /\ gproxyBuffer' = Append(KeptAfterResending(buffer), number)
            /\ toClient' = Put(toClient, c, << Reconnect(Arrived) >>
                                   \o Resent(buffer) \o << W3GS(number) >>)
    /\ UNCHANGED << gameLoaded, deleted, totalPacketsReceived, client, warcraft,
                    game, unkept >>

\* An accepted socket is dropped: it failed, was silent for 10 seconds, or asked for
\* a player who is no longer there (SEND_GPSS_REJECT).
DropReconnectSocket ==
    /\ \E c \in reconnectSockets :
        /\ reconnectSockets' = reconnectSockets \ {c}
        /\ toServer' = Emptied(toServer, c)
    /\ UNCHANGED << gameLoaded, deleted, totalPacketsSent, totalPacketsReceived,
                    gproxyBuffer, socket, client, toClient, warcraft, game, unkept >>

-----------------------------------------------------------------------------
(* The GProxy++ client.                                                    *)

ClientSend ==
    LET number == clientSent + 1
    IN  /\ number <= MaxClientPackets
        /\ clientSent' = number
        /\ clientBuffer' = Append(clientBuffer, number)
        /\ toServer' = IF clientReady THEN Put(toServer, clientSocket, << W3GS(number) >>)
                       ELSE toServer
        /\ UNCHANGED << gameLoaded, deleted, server, opened, clientSocket, clientReady,
                        toClient, warcraft, game, unkept >>

ClientRead ==
    /\ toClient[clientSocket] # << >>
    /\ LET m == Head(toClient[clientSocket])
           left == Unqueued(clientBuffer, clientSent, m.number)
       IN /\ warcraft' = IF m.kind = "w3gs" THEN Append(warcraft, m.number) ELSE warcraft
          /\ clientBuffer' = IF m.kind = "w3gs" THEN clientBuffer ELSE left
          /\ clientReady' = (clientReady \/ m.kind = "reconnect")
          /\ toServer' = IF m.kind = "reconnect"
                         THEN Put(toServer, clientSocket, Packets(left)) ELSE toServer
    /\ toClient' = Read(toClient, clientSocket)
    /\ UNCHANGED << gameLoaded, deleted, server, opened, clientSocket, clientSent,
                    game, unkept >>

ClientAck ==
    /\ clientReady /\ Acks(toServer, clientSocket) < MaxAcks
    /\ toServer' = Put(toServer, clientSocket, << Ack(Len(warcraft)) >>)
    /\ UNCHANGED << gameLoaded, deleted, server, client, toClient, warcraft,
                    game, unkept >>

\* The client finds its connection lost, or gives it up, and opens another one.
ClientReconnect ==
    /\ gameLoaded /\ opened < MaxConns
    /\ opened' = opened + 1 /\ clientSocket' = opened + 1 /\ clientReady' = FALSE
    /\ toClient' = Emptied(toClient, clientSocket)
    /\ toServer' = Put(toServer, opened + 1, << Reconnect(Len(warcraft)) >>)
    /\ UNCHANGED << gameLoaded, deleted, server, clientSent, clientBuffer, warcraft,
                    game, unkept >>

-----------------------------------------------------------------------------
Next ==
    \/ Send \/ LoadGame \/ ReadSocket \/ SendAck \/ SocketLost \/ Delete
    \/ Accept \/ EventGProxyReconnect \/ DropReconnectSocket
    \/ ClientSend \/ ClientRead \/ ClientAck \/ ClientReconnect

Spec == Init /\ [][Next]_vars

-----------------------------------------------------------------------------
(* Correctness.                                                            *)

Down == INSTANCE ResumedStream WITH sent <- totalPacketsSent, received <- warcraft
Up   == INSTANCE ReliableStream WITH sent <- clientSent, received <- game

\* However often the connection is lost and replaced, Warcraft III receives the packets
\* that the game sent in order, from the first one that it lacks or, while packets of
\* before the game was loaded are lost, from the first one that its count of packets
\* makes the bot take for it (CGamePlayer::Send, GPS_ACK, EventGProxyReconnect).
DownResumes == Down!Spec

\* Exactly once and in order: so it is on the first connection, and for ever when the
\* packets of before the game was loaded, which are never sent again, arrived on it.
ExactlyOnce ==
    clientSocket = 1 \/ 1 .. unkept \subseteq Range(warcraft)
        => warcraft = [i \in 1 .. Len(warcraft) |-> i]

\* The game receives the player's packets exactly once and in order: the count that
\* EventGProxyReconnect reports is the count of packets that were processed.
UpReliable == Up!Spec

\* What an acknowledgement or a reconnection removes from a buffer has arrived, even when
\* the client's count of packets and the bot's no longer speak of the same packets.
NothingDiscarded ==
    /\ unkept + 1 .. totalPacketsSent \subseteq Range(gproxyBuffer) \cup Range(warcraft)
    /\ clientSent - Len(clientBuffer) <= Len(game)
CountsAgree == TypeOK /\ NothingDiscarded

\* The bot reads its sockets in every turn of its loop, the client does likewise.
FairSpec == Spec /\ WF_vars(ReadSocket) /\ WF_vars(ClientRead)

\* When the connection stays up at last, everything that was sent since the game was
\* loaded arrives, the packets sent while there was no connection included, and
\* everything that the player sent.
StableDelivery ==
    <>[](socket = clientSocket /\ ~deleted)
        => <>[](/\ unkept + 1 .. totalPacketsSent \subseteq Range(warcraft)
                /\ Len(game) = clientSent)
=============================================================================
