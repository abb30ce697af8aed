--------------------------- MODULE MCMatchMaking ---------------------------
(* An instance of MatchMaking: three slots in two teams, five players.      *)
EXTENDS MatchMaking

MCScore == ("n1" :> 1 @@ "n2" :> 4 @@ "n3" :> 6 @@ "n4" :> 11 @@ "n5" :> -100)
MCNames == DOMAIN MCScore
MCMapTeams == <<2, 1, 2>>
MCNoScore == -100
=============================================================================
