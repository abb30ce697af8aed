------------------------------ MODULE Broadcast ------------------------------
(***************************************************************************)
(* What a game owes its players so that their copies of it stay the same:  *)
(* every player receives the same messages in the same order.  A player    *)
(* who is still loading the map receives nothing; when it has loaded it    *)
(* receives everything that it missed at once.                             *)
(***************************************************************************)
EXTENDS Naturals, Sequences

CONSTANT Clients

VARIABLES log,      \* all messages, in their one order
          members,  \* the clients who have not left
          waiting,  \* those of them who are still loading
          received  \* what each client has received

vars == << log, members, waiting, received >>

Init ==
    /\ members = Clients /\ waiting \subseteq Clients
    /\ received = [c \in Clients |-> IF c \in waiting THEN << >> ELSE log]

IsExtended(s, t) == Len(s) <= Len(t) /\ SubSeq(t, 1, Len(s)) = s

\* Messages are sent; those who wait will have them later.  A client who leaves may be
\* sent the last messages or not.
Publish ==
    /\ IsExtended(log, log') /\ members' \subseteq members
    /\ waiting' = waiting \cap members'
    /\ \A c \in Clients :
         received'[c] \in IF c \in members' \ waiting THEN {log'} ELSE {received[c], log'}

CatchUp(c) ==
    /\ c \in waiting
    /\ waiting' = waiting \ {c}
    /\ received' = [received EXCEPT ![c] = log]
    /\ UNCHANGED << log, members >>

Next == Publish \/ \E c \in Clients : CatchUp(c)

Spec == Init /\ [][Next]_vars
=============================================================================
