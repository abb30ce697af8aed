------------------------------ MODULE MCUpdates ------------------------------
(***************************************************************************)
(* Three players, of whom one uses GProxy++, which allows one empty update. *)
(* A packet holds three small actions or one large and one small; larger   *)
(* ones are refused, as 1027 and 1452 bytes have it.                       *)
(***************************************************************************)
EXTENDS Updates

MCLengths == 1 .. 3
=============================================================================
