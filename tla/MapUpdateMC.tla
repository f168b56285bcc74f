---------------------------- MODULE MapUpdateMC ----------------------------
(***************************************************************************)
(* MapUpdate on small instances: a map of each kind, or only a dungeon     *)
(* and a battleground, and two workers.                                    *)
(***************************************************************************)
EXTENDS MapUpdate

CONSTANTS Outland, Dungeon, Arena, w1, w2

OneContinent == {Outland}
OneDungeon == {Dungeon}
OneBattleground == {Arena}
NoMaps == {}
TwoWorkers == {w1, w2}
NoneOrTwo == {0, 2}
=============================================================================
