------------------------------ MODULE MCLobby ------------------------------
(***************************************************************************)
(* Small lobbies for TLC: each configuration enables the features that its *)
(* question is about.  Six PIDs are enough for three connections, the      *)
(* virtual host and the fake player; one slot or two and MaxPlayers = 2 or *)
(* 3 make a full lobby, and the virtual host's departure, a matter of two  *)
(* joins.                                                                  *)
(***************************************************************************)
EXTENDS Lobby, TLC

CONSTANTS c1, c2, c3, own, adm, joe, sue

MCConns == {c1, c2, c3}
FewNames == {own, joe, sue}
FewDownloadStatus == {100, 255}
Symmetry == Permutations(MCConns)

\* Every command but the two that give players a claim to others' slots,
\* which are in LobbyCommands
PlainCommands == {"open", "close", "comp", "openall", "closeall", "swap", "sp",
                  "kick", "votekick", "start", "startforce", "startn", "abort",
                  "unhost", "fakeplayer", "virtualhost"}
LobbyCommands == {"start", "abort", "hold", "owner", "comp"}
=============================================================================
