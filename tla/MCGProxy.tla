------------------------------ MODULE MCGProxy ------------------------------
(***************************************************************************)
(* GProxy for TLC: the bounds are small numbers given in the .cfg files.   *)
(***************************************************************************)
EXTENDS GProxy
=============================================================================
