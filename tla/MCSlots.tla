------------------------------ MODULE MCSlots ------------------------------
(* Instances of Slots: a melee map with an observers' slot, a map with      *)
(* custom forces and one with fixed player settings.                        *)
EXTENDS Slots

MapSlots(teams, colours) ==
  [s \in DOMAIN teams |-> [team |-> teams[s], colour |-> colours[s]]]
Melee == [slots |-> MapSlots(<<0, 1, 3>>, <<0, 1, 3>>), custom |-> FALSE, fixed |-> FALSE,
          observers |-> TRUE, numPlayers |-> 2]
Forces == [slots |-> MapSlots(<<0, 1, 1>>, <<1, 0, 2>>), custom |-> TRUE, fixed |-> FALSE,
           observers |-> FALSE, numPlayers |-> 3]
Fixed == [slots |-> MapSlots(<<1, 0, 0>>, <<2, 0, 1>>), custom |-> TRUE, fixed |-> TRUE,
          observers |-> FALSE, numPlayers |-> 3]
MCMaps == {Melee, Forces, Fixed}
MCHCLCommands == {<<>>, <<40, 7>>}
=============================================================================
