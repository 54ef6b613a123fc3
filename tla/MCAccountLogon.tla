--------------------------- MODULE MCAccountLogon ---------------------------
(***************************************************************************)
(* AccountLogon for TLC: the identities of cores, keys, objects and        *)
(* connections do not matter to the safety properties.                     *)
(***************************************************************************)
EXTENDS AccountLogon, TLC

Interchangeable ==
    Permutations(Core) \cup Permutations(Account) \cup Permutations(Key) \cup Permutations(Ld) \cup Permutations(Desc)
=============================================================================
