---------------------------- MODULE MCEventQueue ----------------------------
(***************************************************************************)
(* EventQueue for TLC: two events with an info and one without; cells are  *)
(* alike, and so are the events with an info.                              *)
(***************************************************************************)
EXTENDS EventQueue, TLC

CONSTANTS e1, e2, e3

Symmetry == Permutations(Cell) \cup Permutations({e1, e2})
=============================================================================
