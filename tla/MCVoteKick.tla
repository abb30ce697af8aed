------------------------------- MODULE MCVoteKick -------------------------------
\* Instances of VoteKick for TLC.
EXTENDS VoteKick, TLC
CONSTANTS alice, bob, carol, dave, erin

\* Names without reserved status are interchangeable.
Interchangeable == Permutations(Names \ ReservedNames)
=============================================================================
