----------------------------- MODULE MCWedding -----------------------------
(* An instance of Wedding for TLC: two couples that share their first player. *)
EXTENDS Wedding

Couples == {<<1, 2>>, <<1, 3>>}
=============================================================================
