---------------------------- MODULE ResumedStream ----------------------------
(***************************************************************************)
(* What GProxy++ reconnection promises for the packets of the game.  The   *)
(* two sides agree on where to go on by a count of packets.  The first     *)
(* packets, those sent before the game was loaded, are not kept: when some *)
(* of them are lost the counts no longer speak of the same packets, and    *)
(* some packets may arrive again.  Packets are numbered as they are sent.  *)
(***************************************************************************)
EXTENDS Naturals, Sequences

VARIABLES sent,     \* how many packets were sent
          unkept,   \* how many of them, the first ones, are not kept
          received  \* the packets that arrived, in order of arrival

Init == sent = 0 /\ unkept = 0 /\ received = << >>

\* One or several packets are sent; once one is kept, so are all the others.
Send ==
    /\ sent' \in Nat /\ sent' > sent
    /\ unkept' = unkept \/ (unkept = sent /\ unkept' = sent')
    /\ UNCHANGED received

\* The packet after the one that arrived last, and the one after as many as arrived, which
\* is the same packet while none was lost.
Following == IF received = << >> THEN 1 ELSE received[Len(received)] + 1
Counted == (IF Len(received) > unkept THEN Len(received) ELSE unkept) + 1

Receive ==
    /\ \E packet \in {Following, Counted} :
        packet <= sent /\ received' = Append(received, packet)
    /\ UNCHANGED << sent, unkept >>

Next == Send \/ Receive

Spec == Init /\ [][Next]_<< sent, unkept, received >>
=============================================================================
