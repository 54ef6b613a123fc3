----------------------------- MODULE MCExchange -----------------------------
(***************************************************************************)
(* Exchange for TLC.  The inventory is one page of two columns and four    *)
(* rows, the special inventory one cell.  A has an item of one cell and a  *)
(* special one to give and a bound one that stays in the way, B items of   *)
(* two and of three cells; a bound special item lies on the ground.        *)
(***************************************************************************)
EXTENDS Exchange

CONSTANTS A, B, a, z, s1, t1, b2, b3

MCSize == [i \in Item |-> CASE i = b2 -> 2 [] i = b3 -> 3 [] OTHER -> 1]

MCStock ==
    [i \in Item |->
       CASE i = a -> [owner |-> A, cell |-> 0]
         [] i = z -> [owner |-> A, cell |-> 5]
         [] i = s1 -> [owner |-> A, cell |-> 8]
         [] i = t1 -> Ground
         [] i = b2 -> [owner |-> B, cell |-> 0]
         [] i = b3 -> [owner |-> B, cell |-> 1]]

MCPurse == [p \in Player |-> IF p = A THEN 1 ELSE 0]
=============================================================================
