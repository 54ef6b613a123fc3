------------------------------ MODULE MCParty ------------------------------
(* An instance of Party for TLC; the players are alike, and so are the cores. *)
EXTENDS Party, TLC

Symmetry == Permutations(Pid) \cup Permutations(Core)
=============================================================================
