---------------------------- MODULE GridLifeMC ----------------------------
(***************************************************************************)
(* GridLife on a map of two grids with one player, who may look through    *)
(* the eyes of the creature c1, which spawns in the first grid.            *)
(***************************************************************************)
EXTENDS GridLife

CONSTANTS p1, c1

OnePlayer == {p1}
OneCreature == {c1}
\* The option is reloaded between the making of the two grids, or not.
FirstGridMayStay == [g \in Grids |-> IF g = 0 THEN BOOLEAN ELSE {TRUE}]
FirstGrid == [c \in Creatures |-> 0]
=============================================================================
