---------------------------- MODULE MCObstruction -----------------------------
(* A map of six tiles of 2 x 2 pixels with one wall, which leaves a square *)
(* and a dead end.  Entity 0 is the player, entity 1 wanders in the lower  *)
(* right zone or runs a script, entity 2 wanders in the left column.       *)
(*                                                                         *)
(* A bound: in a behaviour all three move and the map stays; or a script   *)
(* raises and lowers a wall before the player, entity 1 wanders and entity *)
(* 2 stands; or it moves a tile to another zone under the wanderers, and   *)
(* the player stands.                                                      *)
EXTENDS Obstruction

TheWall == {<<2, 0>>}
TheZone == [t \in Tiles |-> IF t[2] = 1 /\ t[1] > 0 THEN 1 ELSE 0]
Doors   == {<<1, 0>>}
Border  == {<<1, 1>>} \X {0, 1}
From == <<0, 0>>
To   == <<0, 1>>
Homes == [e \in Entities |-> CASE e = 0 -> <<0, 0>> [] e = 1 -> <<4, 2>> [] e = 2 -> <<0, 2>>]
Code == [e \in Entities |-> CASE e = 0 -> {0, 3} [] e = 1 -> {1, 3} [] e = 2 -> {2}]
Steps == {[by |-> <<-2, 0>>, face |-> <<-1, 0>>]}

VARIABLE changes   \* what scripts change in this behaviour

Stands(e) == UNCHANGED <<pos[e], way[e], movecode[e]>>

MCVars == <<obsVars, changes>>
MCInit == ObsInit /\ changes \in {"nothing", "walls", "zones"}
MCNext ==
  /\ ObsNext /\ UNCHANGED changes
  /\ changes # "walls" => walls' = walls
  /\ changes # "zones" => rezoned' = rezoned
  /\ changes = "walls" => Stands(2) /\ movecode'[1] # 3
  /\ changes = "zones" => Stands(0)
MCSpec == MCInit /\ [][MCNext]_MCVars
=============================================================================
