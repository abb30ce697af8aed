---------------------------- MODULE MCRunningGame ----------------------------
(***************************************************************************)
(* RunningGame for TLC: the sync limit is 2, the smallest one that lets    *)
(* players leave the lag screen by catching up.                            *)
(***************************************************************************)
EXTENDS RunningGame

\* States that differ only in the following behave alike: sync counters that are all turned
\* by the same amount, votes cast while nobody lags (StartLagging forgets them), and the
\* checksums of players who are marked for deletion (they are never compared again).
Relevant(p) ==
    [player[p] EXCEPT !.sync = Behind(p), !.dropVote = @ /\ lagScreen,
                      !.checkSums = IF p \in Staying THEN @ ELSE << >>]
MCView ==
    << [p \in Present |-> Relevant(p)], lagScreen, shown, ending, phase, next >>
=============================================================================
