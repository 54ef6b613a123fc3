---------------------------- MODULE MCItemCache ----------------------------
(* Instances of ItemCache for TLC: nothing tells players apart. *)
EXTENDS ItemCache, TLC

PlayerSymmetry == Permutations(Player)
=============================================================================
