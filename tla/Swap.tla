------------------------------- MODULE Swap -------------------------------
(***************************************************************************)
(* What a trade between two players promises: the offers change hands in   *)
(* one step, only with the consent of both to the offers as they then are, *)
(* and nothing of a player moves otherwise but through himself.            *)
(* Things for which the receiver has no room may stay with their owner, and *)
(* gold the receiver cannot hold may be lost: when that can happen is said *)
(* in Exchange.                                                            *)
(***************************************************************************)
EXTENDS Naturals

CONSTANTS Player, Item, NoOne

VARIABLES
    owner,      \* who has the item, NoOne when nobody
    gold,       \* the gold of each player
    deal        \* the trade a player is in, with his offer and consent

swapVars == <<owner, gold, deal>>

Terms(q, things, amount, ok) == [with |-> q, items |-> things, gold |-> amount, agreed |-> ok]
NoDeal == Terms(NoOne, {}, 0, FALSE)

Init ==
    /\ owner \in [Item -> Player \cup {NoOne}]
    /\ gold \in [Player -> Nat]
    /\ deal = [p \in Player |-> NoDeal]

Dealing(p, q) == deal[p].with = q /\ deal[q].with = p

Closed(p, q) == [deal EXCEPT ![p] = NoDeal, ![q] = NoDeal]

Open(p, q) ==
    /\ p # q /\ deal[p] = NoDeal /\ deal[q] = NoDeal
    /\ deal' = [deal EXCEPT ![p].with = q, ![q].with = p]
    /\ UNCHANGED <<owner, gold>>

\* A change of an offer takes back both consents, and is not possible once
\* the other has agreed.
Offer(p, q) ==
    /\ Dealing(p, q) /\ ~deal[q].agreed
    /\ deal'[p].items \ deal[p].items \subseteq {i \in Item : owner[i] = p}
    /\ deal' = [deal EXCEPT ![p] = Terms(q, deal'[p].items, deal'[p].gold, FALSE)]
    /\ UNCHANGED <<owner, gold>>

Agree(p, q) ==
    /\ Dealing(p, q) /\ ~deal[q].agreed
    /\ deal' = [deal EXCEPT ![p] = Terms(q, deal[p].items, deal[p].gold, TRUE)]
    /\ UNCHANGED <<owner, gold>>

Close(p, q) ==
    /\ Dealing(p, q)
    /\ deal' = Closed(p, q)
    /\ UNCHANGED <<owner, gold>>

\* q has agreed, and p agrees now.
Exchange(p, q) ==
    /\ Dealing(p, q) /\ deal[q].agreed
    /\ \A i \in deal[p].items : owner[i] = p
    /\ \A i \in deal[q].items : owner[i] = q
    /\ gold[p] >= deal[p].gold /\ gold[q] >= deal[q].gold
    /\ \E kept \in SUBSET (deal[p].items \cup deal[q].items) :
          owner' = [i \in Item |-> IF i \in deal[p].items \ kept THEN q
                                   ELSE IF i \in deal[q].items \ kept THEN p
                                   ELSE owner[i]]
    /\ \E toP \in {0, deal[q].gold}, toQ \in {0, deal[p].gold} :
          gold' = [gold EXCEPT ![p] = @ - deal[p].gold + toP,
                               ![q] = @ - deal[q].gold + toQ]
    /\ deal' = Closed(p, q)

\* Whatever a player does besides trading concerns only him.
Outside(p) ==
    /\ \A i \in Item : owner'[i] # owner[i] => {owner[i], owner'[i]} = {p, NoOne}
    /\ \A q \in Player \ {p} : gold'[q] = gold[q]
    /\ UNCHANGED deal

Next ==
    \/ \E p, q \in Player :
          Open(p, q) \/ Offer(p, q) \/ Agree(p, q) \/ Close(p, q) \/ Exchange(p, q)
    \/ \E p \in Player : Outside(p)

Spec == Init /\ [][Next]_swapVars
=============================================================================
