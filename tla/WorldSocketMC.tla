--------------------------- MODULE WorldSocketMC ---------------------------
(* WorldSocket with one worker of another map and four packets.            *)
EXTENDS WorldSocket
CONSTANT m2
Sizes == <<1, 2, 1, 2>>
OneAway == {m2}
=============================================================================
