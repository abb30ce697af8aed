---------------------------- MODULE ReliableStream ----------------------------
(***************************************************************************)
(* What GProxy++ reconnection promises for each direction of a player's    *)
(* connection: the packets arrive exactly once and in the order in which   *)
(* they were sent.  Packets are numbered as they are sent.                 *)
(***************************************************************************)
EXTENDS Naturals, Sequences

VARIABLES sent,     \* how many packets were sent
          received  \* the packets that arrived, in order of arrival

Init == sent = 0 /\ received = << >>

\* One or several packets are sent.
Send == sent' \in Nat /\ sent' > sent /\ UNCHANGED received

Receive ==
    /\ Len(received) < sent
    /\ received' = Append(received, Len(received) + 1)
    /\ UNCHANGED sent

Next == Send \/ Receive

Spec == Init /\ [][Next]_<< sent, received >>
=============================================================================
