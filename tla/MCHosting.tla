------------------------------ MODULE MCHosting ------------------------------
(***************************************************************************)
(* Hosting for TLC: one server, of either kind, and three hosted names.    *)
(***************************************************************************)
EXTENDS Hosting
=============================================================================
