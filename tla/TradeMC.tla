------------------------------ MODULE TradeMC ------------------------------
(* Instances of Trade for TLC. *)
EXTENDS Trade, TLC

CONSTANTS p1, p2

Sizes == p1 :> 1 @@ p2 :> 2

\* The maps are alike.
Symmetry == Permutations(Maps)

=============================================================================
