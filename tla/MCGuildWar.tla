----------------------------- MODULE MCGuildWar -----------------------------
(***************************************************************************)
(* GuildWar for TLC: a battle map, a flag map and the field.    *)
(***************************************************************************)
EXTENDS GuildWar

MCKind == [w \in War |-> CASE w = 1 -> "battle" [] w = 2 -> "flag" [] OTHER -> "field"]
=============================================================================
