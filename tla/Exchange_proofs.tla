-------------------------- MODULE Exchange_proofs --------------------------
(***************************************************************************)
(* Trades of any number of players with any number of items, slots and     *)
(* cells.  First, the two sides of a trade point at each other, and an     *)
(* item is locked exactly while it stands in an offer: the inductive       *)
(* invariant adds that an item stands in one slot at most and that a       *)
(* player without a trade has agreed to none.  Then, the trade implements  *)
(* the contract of Swap, whatever the packing of the inventories: what     *)
(* changes hands does so in one step and by the consent of both to the     *)
(* offers as they are; the invariant adds the types of the gold, that a    *)
(* place has an owner, and that a player without a trade offers nothing.   *)
(* Then, no gold is lost between players who earned none.  Last, items of  *)
(* one size and of the default inventory all change hands: first fit into  *)
(* an inventory with fewer cells taken finds room for what fitted before.  *)
(***************************************************************************)
EXTENDS Exchange, FiniteSetTheorems, WellFoundedInduction, TLAPS

SidesOK ==
    /\ company \in [Player -> Player \cup {NoOne}]
    /\ accept \in [Player -> BOOLEAN]
    /\ items \in [Player -> [Slot -> Item \cup {NoItem}]]
    /\ \A p \in Player : company[p] = NoOne => ~accept[p]

OfferedOnce ==
    \A p, q \in Player : \A s, t \in Slot :
        items[p][s] # NoItem /\ items[p][s] = items[q][t] => p = q /\ s = t

IInv == SidesOK /\ Paired /\ OfferedOnce /\ LockedIsOffered

-----------------------------------------------------------------------------
(* The locks, item by item *)

Stands(i) == \E p \in Player, s \in Slot : items[p][s] = i

LEMMA LockedIffStands ==
    ASSUME SidesOK
    PROVE  LockedIsOffered <=>
              \A i : i \in exchanging <=> i # NoItem /\ Stands(i)
  <1>1. \A i : i \in UNION {Offered(items[p]) : p \in Player} <=> i # NoItem /\ Stands(i)
    BY DEF Offered, Stands
  <1> QED BY <1>1 DEF LockedIsOffered

\* An offer takes back the consents.
LEMMA ReopenedPaired ==
    ASSUME SidesOK, Paired, NEW p \in Player, MayChange(p),
           accept' = Reopened(p), company' = company
    PROVE  Paired' /\ accept' \in [Player -> BOOLEAN]
           /\ \A q \in Player : company'[q] = NoOne => ~accept'[q]
  <1> USE ExchangeAssumption
  <1>1. company[p] \in Player /\ company[p] # p /\ company[company[p]] = p
    BY DEF MayChange, SidesOK, Paired
  <1>2. accept' \in [Player -> BOOLEAN] /\ ~accept'[p] /\ ~accept'[company[p]]
        /\ \A q \in Player : q # p /\ q # company[p] => accept'[q] = accept[q]
    BY <1>1 DEF Reopened, SidesOK
  <1>3. ASSUME NEW q \in Player, company'[q] # NoOne
        PROVE  /\ company'[q] # q /\ company'[company'[q]] = q
               /\ ~(accept'[q] /\ accept'[company'[q]])
    <2>1. company[q] \in Player /\ company[q] # q /\ company[company[q]] = q
          /\ ~(accept[q] /\ accept[company[q]])
      BY <1>3 DEF SidesOK, Paired
    <2>2. CASE q = p \/ q = company[p] BY <1>1, <1>2, <2>1, <2>2
    <2>3. CASE q # p /\ q # company[p] BY <1>2, <2>1, <2>3
    <2> QED BY <2>2, <2>3
  <1>4. \A q \in Player : company'[q] = NoOne => ~accept'[q]
    BY <1>1, <1>2 DEF SidesOK
  <1> QED BY <1>2, <1>3, <1>4 DEF Paired

-----------------------------------------------------------------------------
(* The actions *)

LEMMA StartInv ==
    ASSUME IInv, NEW p \in Player, NEW v \in Player, ExchangeStart(p, v)
    PROVE  IInv'
  <1> USE ExchangeAssumption DEF IInv
  <1>1. /\ p # v /\ company[p] = NoOne /\ company[v] = NoOne
        /\ accept' = accept /\ items' = items /\ exchanging' = exchanging
    BY DEF ExchangeStart
  <1>2. /\ company' \in [Player -> Player \cup {NoOne}]
        /\ company'[p] = v /\ company'[v] = p
        /\ \A q \in Player : q # p /\ q # v => company'[q] = company[q]
    BY <1>1 DEF ExchangeStart, SidesOK
  <1>3. SidesOK'
    BY <1>1, <1>2 DEF SidesOK
  <1>4. ASSUME NEW q \in Player, company'[q] # NoOne
        PROVE  /\ company'[q] # q /\ company'[company'[q]] = q
               /\ ~(accept'[q] /\ accept'[company'[q]])
    <2>1. CASE q = p \/ q = v BY <1>1, <1>2, <2>1 DEF SidesOK
    <2>2. CASE q # p /\ q # v
      <3>1. company[q] \in Player /\ company[q] # q /\ company[company[q]] = q
            /\ ~(accept[q] /\ accept[company[q]])
        BY <1>2, <1>4, <2>2 DEF SidesOK, Paired
      <3>2. company[q] # p /\ company[q] # v BY <1>1, <3>1
      <3> QED BY <1>1, <1>2, <2>2, <3>1, <3>2
    <2> QED BY <2>1, <2>2
  <1>5. OfferedOnce' /\ LockedIsOffered'
    BY <1>1 DEF OfferedOnce, LockedIsOffered
  <1> QED BY <1>3, <1>4, <1>5 DEF Paired

LEMMA AddItemInv ==
    ASSUME IInv, NEW p \in Player, NEW i \in Item, AddItem(p, i)
    PROVE  IInv'
  <1> USE ExchangeAssumption DEF IInv
  <1>1. PICK s \in Slot : items[p][s] = NoItem /\ items' = [items EXCEPT ![p][s] = i]
    BY DEF AddItem
  <1>2. company' = company /\ i \notin exchanging /\ exchanging' = exchanging \cup {i}
        /\ i # NoItem
    BY DEF AddItem
  <1>3. /\ items' \in [Player -> [Slot -> Item \cup {NoItem}]]
        /\ items'[p][s] = i
        /\ \A q \in Player, t \in Slot : q # p \/ t # s => items'[q][t] = items[q][t]
    BY <1>1 DEF SidesOK
  <1>4. Paired' /\ SidesOK'
    <2>1. MayChange(p) /\ accept' = Reopened(p) BY DEF AddItem
    <2>2. Paired' /\ accept' \in [Player -> BOOLEAN]
          /\ \A q \in Player : company'[q] = NoOne => ~accept'[q]
      BY <1>2, <2>1, ReopenedPaired
    <2> QED BY <1>2, <1>3, <2>2 DEF SidesOK
  <1>5. ~Stands(i)
    BY <1>2, LockedIffStands
  <1>6. OfferedOnce'
    <2>1. ASSUME NEW q \in Player, NEW r \in Player, NEW t \in Slot, NEW u \in Slot,
                 items'[q][t] # NoItem, items'[q][t] = items'[r][u]
          PROVE  q = r /\ t = u
      <3>1. CASE q = p /\ t = s BY <1>3, <1>5, <2>1, <3>1 DEF Stands
      <3>2. CASE r = p /\ u = s BY <1>3, <1>5, <2>1, <3>2 DEF Stands
      <3>3. CASE (q # p \/ t # s) /\ (r # p \/ u # s)
        <4>1. items[q][t] = items'[q][t] /\ items[r][u] = items'[r][u] BY <1>3, <3>3
        <4> QED BY <2>1, <4>1 DEF OfferedOnce
      <3> QED BY <3>1, <3>2, <3>3
    <2> QED BY <2>1 DEF OfferedOnce
  <1>7. \A j : j \in exchanging' <=> j # NoItem /\ Stands(j)'
    <2>1. \A j : j # i /\ j # NoItem => (Stands(j)' <=> Stands(j))
      BY <1>1, <1>3 DEF Stands
    <2>2. Stands(i)' BY <1>3 DEF Stands
    <2>3. NoItem \notin exchanging BY LockedIffStands
    <2> QED BY <1>2, <2>1, <2>2, <2>3, LockedIffStands
  <1>8. LockedIsOffered'
    BY <1>7 DEF LockedIsOffered, Offered, Stands
  <1> QED BY <1>4, <1>6, <1>8

LEMMA RemoveItemInv ==
    ASSUME IInv, NEW p \in Player, NEW s \in Slot, RemoveItem(p, s)
    PROVE  IInv'
  <1> USE ExchangeAssumption DEF IInv
  <1>2. company' = company /\ items[p][s] # NoItem /\ exchanging' = exchanging \ {items[p][s]}
    BY DEF RemoveItem
  <1>3. /\ items' \in [Player -> [Slot -> Item \cup {NoItem}]]
        /\ items'[p][s] = NoItem
        /\ \A q \in Player, t \in Slot : q # p \/ t # s => items'[q][t] = items[q][t]
    BY DEF SidesOK, RemoveItem
  <1>4. Paired' /\ SidesOK'
    <2>1. MayChange(p) /\ accept' = Reopened(p) BY DEF RemoveItem
    <2>2. Paired' /\ accept' \in [Player -> BOOLEAN]
          /\ \A q \in Player : company'[q] = NoOne => ~accept'[q]
      BY <1>2, <2>1, ReopenedPaired
    <2> QED BY <1>2, <1>3, <2>2 DEF SidesOK
  <1>6. OfferedOnce'
    BY <1>3 DEF OfferedOnce
  <1>7. \A j : j \in exchanging' <=> j # NoItem /\ Stands(j)'
    <2> DEFINE i == items[p][s]
    <2>1. \A j : j # i /\ j # NoItem => (Stands(j)' <=> Stands(j))
      BY <1>3 DEF Stands
    <2>2. ASSUME NEW q \in Player, NEW t \in Slot, items'[q][t] = i PROVE FALSE
      <3>1. CASE q = p /\ t = s BY <1>2, <1>3, <2>2, <3>1
      <3>2. CASE q # p \/ t # s
        <4>1. items[q][t] = i BY <1>3, <2>2, <3>2
        <4> QED BY <1>2, <3>2, <4>1 DEF OfferedOnce
      <3> QED BY <3>1, <3>2
    <2>3. ~\E q \in Player, t \in Slot : items'[q][t] = i BY <2>2
    <2>4. NoItem \notin exchanging BY LockedIffStands
    <2>5. ASSUME NEW j PROVE j \in exchanging' <=> j # NoItem /\ Stands(j)'
      <3>1. CASE j = i BY <1>2, <2>3, <3>1 DEF Stands
      <3>2. CASE j # i BY <1>2, <2>1, <2>4, <3>2, LockedIffStands
      <3> QED BY <3>1, <3>2
    <2> QED BY <2>5
  <1>8. LockedIsOffered'
    BY <1>7 DEF LockedIsOffered, Offered, Stands
  <1> QED BY <1>4, <1>6, <1>8

LEMMA AddGoldInv ==
    ASSUME IInv, NEW p \in Player, NEW amount, AddGold(p, amount)
    PROVE  IInv'
  <1>1. /\ company' = company /\ items' = items /\ exchanging' = exchanging
        /\ MayChange(p) /\ accept' = Reopened(p)
    BY DEF AddGold
  <1>2. Paired' /\ accept' \in [Player -> BOOLEAN]
        /\ \A q \in Player : company'[q] = NoOne => ~accept'[q]
    BY <1>1, ReopenedPaired DEF IInv
  <1> QED BY <1>1, <1>2 DEF IInv, SidesOK, OfferedOnce, LockedIsOffered

LEMMA AcceptInv ==
    ASSUME IInv, NEW p \in Player, Accept(p)
    PROVE  IInv'
  <1> USE ExchangeAssumption DEF IInv
  <1>1. /\ company[p] # NoOne /\ ~accept[company[p]]
        /\ company' = company /\ items' = items /\ exchanging' = exchanging
    BY DEF Accept
  <1>2. accept' \in [Player -> BOOLEAN]
        /\ \A q \in Player : q # p => accept'[q] = accept[q]
    BY DEF Accept, SidesOK
  <1>3. SidesOK' BY <1>1, <1>2 DEF SidesOK
  <1>4. Paired' BY <1>1, <1>2 DEF Paired, SidesOK
  <1> QED BY <1>1, <1>3, <1>4 DEF OfferedOnce, LockedIsOffered

LEMMA CancelInv ==
    ASSUME IInv, NEW p \in Player, company[p] # NoOne, BothCancel(p)
    PROVE  IInv'
  <1> USE ExchangeAssumption DEF IInv
  <1> DEFINE both == {p, company[p]}
             released == Offered(items[p]) \cup Offered(items[company[p]])
  <1>1. company[p] \in Player /\ company[company[p]] = p
    BY DEF SidesOK, Paired
  <1>2. CancelSides(both, released)
    BY DEF BothCancel
  <1>3. /\ company' \in [Player -> Player \cup {NoOne}]
        /\ \A q \in both : company'[q] = NoOne
        /\ \A q \in Player \ both : company'[q] = company[q]
    BY <1>1, <1>2 DEF CancelSides, SidesOK
  <1>4. /\ accept' \in [Player -> BOOLEAN]
        /\ \A q \in both : ~accept'[q]
        /\ \A q \in Player \ both : accept'[q] = accept[q]
    <2> HIDE DEF both
    <2>1. accept' = [q \in Player |-> accept[q] /\ q \notin both] BY <1>2 DEF CancelSides
    <2>2. \A q \in Player : accept[q] \in BOOLEAN BY DEF SidesOK
    <2>3. both \subseteq Player BY <1>1 DEF both
    <2> QED BY <2>1, <2>2, <2>3, Zenon
  <1>5. /\ items' \in [Player -> [Slot -> Item \cup {NoItem}]]
        /\ \A q \in both : \A s \in Slot : items'[q][s] = NoItem
        /\ \A q \in Player \ both : items'[q] = items[q]
    BY <1>1, <1>2 DEF CancelSides, SidesOK
  <1>6. SidesOK'
    BY <1>3, <1>4, <1>5 DEF SidesOK
  <1>7. Paired'
    <2>1. ASSUME NEW q \in Player, company'[q] # NoOne
          PROVE  /\ company'[q] # q /\ company'[company'[q]] = q
                 /\ ~(accept'[q] /\ accept'[company'[q]])
      <3>1. q \in Player \ both BY <1>3, <2>1
      <3>2. company[q] \in Player /\ company[q] # q /\ company[company[q]] = q
            /\ ~(accept[q] /\ accept[company[q]])
        BY <1>3, <2>1, <3>1 DEF SidesOK, Paired
      <3>3. company[q] \in Player \ both BY <1>1, <3>1, <3>2
      <3> QED BY <1>3, <1>4, <3>1, <3>2, <3>3
    <2> QED BY <2>1 DEF Paired
  <1>8. OfferedOnce'
    <2> HIDE DEF both
    <2>1. ASSUME NEW q \in Player, NEW s \in Slot, items'[q][s] # NoItem
          PROVE  items[q][s] = items'[q][s]
      BY <1>5, <2>1
    <2> QED BY <2>1 DEF OfferedOnce
  <1>9. exchanging' = exchanging \ released
    BY <1>2 DEF CancelSides
  <1>10. \A i : i \in exchanging' <=> i # NoItem /\ Stands(i)'
    <2>1. \A i : i # NoItem => (Stands(i)' <=> \E q \in Player \ both, s \in Slot : items[q][s] = i)
      BY <1>5 DEF Stands
    <2>2. \A i : i # NoItem =>
              (i \in released <=> \E q \in both, s \in Slot : items[q][s] = i)
      BY DEF Offered
    <2>3. ASSUME NEW i, i # NoItem
          PROVE  i \in exchanging' <=> \E q \in Player \ both, s \in Slot : items[q][s] = i
      <3>1. i \in exchanging <=> Stands(i) BY <2>3, LockedIffStands
      <3>2. ASSUME NEW q \in Player \ both, NEW s \in Slot, items[q][s] = i,
                   NEW r \in both, NEW t \in Slot, items[r][t] = i
            PROVE  FALSE
        <4>1. r \in Player /\ q # r BY <1>1, <3>2
        <4> QED BY <2>3, <3>2, <4>1 DEF OfferedOnce
      <3> QED BY <1>1, <1>9, <2>2, <2>3, <3>1, <3>2 DEF Stands
    <2>4. NoItem \notin exchanging' BY <1>9, LockedIffStands
    <2> HIDE DEF both, released
    <2> QED BY <2>1, <2>3, <2>4
  <1>11. LockedIsOffered'
    BY <1>10 DEF LockedIsOffered, Offered, Stands
  <1> QED BY <1>6, <1>7, <1>8, <1>11

\* What happens besides the trade leaves its sides alone.
LEMMA IdleInv ==
    ASSUME IInv, UNCHANGED <<company, accept, items, exchanging>>
    PROVE  IInv'
  BY DEF IInv, SidesOK, Paired, OfferedOnce, LockedIsOffered

-----------------------------------------------------------------------------
(* Theorems *)

LEMMA InitInv == Init => IInv
  <1> SUFFICES ASSUME Init PROVE IInv OBVIOUS
  <1>1. SidesOK BY DEF Init, SidesOK
  <1>2. Paired BY DEF Init, Paired
  <1>3. OfferedOnce BY DEF Init, OfferedOnce
  <1>4. LockedIsOffered BY DEF Init, LockedIsOffered, Offered
  <1> QED BY <1>1, <1>2, <1>3, <1>4 DEF IInv

LEMMA NextInv == IInv /\ [Next]_vars => IInv'
  <1> SUFFICES ASSUME IInv, [Next]_vars PROVE IInv' OBVIOUS
  <1>1. ASSUME NEW p \in Player, NEW q \in Player, ExchangeStart(p, q) PROVE IInv'
    BY <1>1, StartInv
  <1>2. ASSUME NEW p \in Player, NEW i \in Item, AddItem(p, i) PROVE IInv' BY <1>2, AddItemInv
  <1>3. ASSUME NEW p \in Player, NEW s \in Slot, RemoveItem(p, s) PROVE IInv'
    BY <1>3, RemoveItemInv
  <1>4. ASSUME NEW p \in Player, NEW amount \in 1 .. GoldMax - 1, AddGold(p, amount) PROVE IInv'
    BY <1>4, AddGoldInv
  <1>5. ASSUME NEW p \in Player, Accept(p) PROVE IInv' BY <1>5, AcceptInv
  <1>6. ASSUME NEW p \in Player, TradeDone(p) \/ TradeRefused(p) \/ Cancel(p) PROVE IInv'
    BY <1>6, CancelInv DEF TradeDone, TradeRefused, Cancel
  <1>7. ASSUME \/ \E p \in Player, i \in Item, c \in Cell : MoveItem(p, i, c)
               \/ \E p \in Player, i \in Item : DropItem(p, i)
               \/ \E p \in Player, i \in Item : PickupItem(p, i)
               \/ \E i \in Item : Expire(i)
               \/ \E p \in Player, amount \in {-1, 1} : PointChange(p, amount)
               \/ UNCHANGED vars
        PROVE  IInv'
    <2>1. UNCHANGED <<company, accept, items, exchanging>>
      BY <1>7 DEF MoveItem, DropItem, PickupItem, Expire, PointChange, Other, vars
    <2> QED BY <2>1, IdleInv
  <1> QED BY <1>1, <1>2, <1>3, <1>4, <1>5, <1>6, <1>7 DEF Next

THEOREM Invariant == Spec => []IInv
  BY InitInv, NextInv, PTL DEF Spec

\* The sides of a trade point at each other, and a trade both accepted is over.
THEOREM PairedHolds == Spec => []Paired
  <1>1. IInv => Paired BY DEF IInv
  <1> QED BY <1>1, Invariant, PTL

\* m_bExchanging is set exactly for the items in the slots of the open trades.
THEOREM LockedIsOfferedHolds == Spec => []LockedIsOffered
  <1>1. IInv => LockedIsOffered BY DEF IInv
  <1> QED BY <1>1, Invariant, PTL

-----------------------------------------------------------------------------
(* The contract *)

GoldOK ==
    /\ gold \in [Player -> 0 .. GoldMax - 1]
    /\ lGold \in [Player -> Nat]

PlaceOK ==
    /\ place = [i \in Item |-> place[i]]
    /\ \A i \in Item : place[i] = [owner |-> place[i].owner, cell |-> place[i].cell]

ClosedIsClean ==
    \A p \in Player : company[p] = NoOne =>
        /\ \A s \in Slot : items[p][s] = NoItem
        /\ lGold[p] = 0

RInv == IInv /\ GoldOK /\ PlaceOK /\ ClosedIsClean

\* What the contract sees of an item and of a player.
OwnerOf(i) == IF place[i].owner \in Player THEN place[i].owner ELSE NoOne
owned == [i \in Item |-> OwnerOf(i)]
deals == [p \in Player |-> Deal(p)]

-----------------------------------------------------------------------------
(* The invariant *)

LEMMA MovedShape ==
    ASSUME NEW at, NEW p \in Player,
           at = [i \in Item |-> at[i]],
           \A i \in Item : at[i] = [owner |-> at[i].owner, cell |-> at[i].cell]
    PROVE  /\ Moved(at, p) = [i \in Item |-> Moved(at, p)[i]]
           /\ \A i \in Item : Moved(at, p)[i] =
                 [owner |-> Moved(at, p)[i].owner, cell |-> Moved(at, p)[i].cell]
           /\ \A i \in Item :
                 \/ Moved(at, p)[i].owner = at[i].owner
                 \/ i \in Offered(items[p]) /\ Moved(at, p)[i].owner = company[p]
  <1> DEFINE cells == Packing(Used(at, company[p]), items[p], RoomOf)
             moved == {s \in Slot : items[p][s] # NoItem /\ cells[s] # NoCell}
             there(i) == cells[CHOOSE s \in moved : items[p][s] = i]
  <1>1. Moved(at, p) = [i \in Item |->
                          IF \E s \in moved : items[p][s] = i
                          THEN [owner |-> company[p], cell |-> there(i)] ELSE at[i]]
    BY DEF Moved
  <1>2. \A i \in Item : (\E s \in moved : items[p][s] = i) => i \in Offered(items[p])
    BY DEF Offered
  <1> HIDE DEF moved, there
  <1>3. ASSUME NEW i \in Item, \E s \in moved : items[p][s] = i
        PROVE  Moved(at, p)[i] = [owner |-> company[p], cell |-> there(i)]
    BY <1>1, <1>3
  <1>4. ASSUME NEW i \in Item, ~\E s \in moved : items[p][s] = i
        PROVE  Moved(at, p)[i] = at[i]
    BY <1>1, <1>4
  <1>5. Moved(at, p) = [i \in Item |-> Moved(at, p)[i]] BY <1>1
  <1> HIDE DEF cells
  <1>6. ASSUME NEW i \in Item
        PROVE  /\ Moved(at, p)[i] =
                    [owner |-> Moved(at, p)[i].owner, cell |-> Moved(at, p)[i].cell]
               /\ \/ Moved(at, p)[i].owner = at[i].owner
                  \/ i \in Offered(items[p]) /\ Moved(at, p)[i].owner = company[p]
    <2>1. CASE \E s \in moved : items[p][s] = i
      <3>1. Moved(at, p)[i] = [owner |-> company[p], cell |-> there(i)] BY <1>3, <2>1
      <3>2. /\ Moved(at, p)[i].owner = company[p] /\ Moved(at, p)[i].cell = there(i)
        BY <3>1
      <3>3. Moved(at, p)[i] = [owner |-> Moved(at, p)[i].owner, cell |-> Moved(at, p)[i].cell]
        BY <3>1, <3>2, Zenon
      <3> QED BY <1>2, <2>1, <3>2, <3>3
    <2>2. CASE ~\E s \in moved : items[p][s] = i BY <1>4, <2>2
    <2> QED BY <2>1, <2>2
  <1> QED BY <1>5, <1>6

\* PointChange of an amount that is there, and of one that may be too much.
LEMMA PaidIs ==
    ASSUME NEW purse \in [Player -> 0 .. GoldMax - 1], NEW p \in Player, NEW q \in Player, p # q,
           company[p] = q, lGold \in [Player -> Nat], purse[p] >= lGold[p]
    PROVE  /\ Paid(purse, p) \in [Player -> 0 .. GoldMax - 1]
           /\ Paid(purse, p)[p] = purse[p] - lGold[p]
           /\ Paid(purse, p)[q] \in {purse[q], purse[q] + lGold[p]}
           /\ \A r \in Player \ {p, q} : Paid(purse, p)[r] = purse[r]
  <1> USE ExchangeAssumption
  <1> DEFINE less == GoldPoint(purse[p], -lGold[p])
             more == GoldPoint(purse[q], lGold[p])
  <1>1. less \in 0 .. GoldMax - 1 /\ less = purse[p] - lGold[p]
    BY DEF GoldPoint
  <1>2. more \in 0 .. GoldMax - 1 /\ more \in {purse[q], purse[q] + lGold[p]}
    BY DEF GoldPoint
  <1>3. Paid(purse, p) = [purse EXCEPT ![p] = less, ![q] = more]
    BY DEF Paid
  <1> HIDE DEF less, more
  <1> QED BY <1>1, <1>2, <1>3

LEMMA TradePaid ==
    ASSUME RInv, NEW p \in Player, TradeDone(p)
    PROVE  LET q == company[p]
           IN  /\ gold' \in [Player -> 0 .. GoldMax - 1]
               /\ gold'[p] \in {gold[p] - lGold[p], gold[p] - lGold[p] + lGold[q]}
               /\ gold'[q] \in {gold[q] - lGold[q], gold[q] + lGold[p] - lGold[q]}
               /\ \A r \in Player \ {p, q} : gold'[r] = gold[r]
  <1> USE ExchangeAssumption
  <1> DEFINE q == company[p]
             half == Paid(gold, p)
  <1>1. q \in Player /\ p # q /\ company[q] = p
    BY DEF RInv, IInv, SidesOK, Paired, TradeDone
  <1>2. gold[p] >= lGold[p] /\ gold[q] >= lGold[q] /\ gold' = Paid(half, q)
    BY DEF TradeDone, Acceptable, Check
  <1>3. gold \in [Player -> 0 .. GoldMax - 1] /\ lGold \in [Player -> Nat]
    BY DEF RInv, GoldOK
  <1> HIDE DEF q
  <1>4. /\ half \in [Player -> 0 .. GoldMax - 1]
        /\ half[p] = gold[p] - lGold[p]
        /\ half[q] \in {gold[q], gold[q] + lGold[p]}
        /\ \A r \in Player \ {p, q} : half[r] = gold[r]
    BY <1>1, <1>2, <1>3, PaidIs DEF q
  <1> HIDE DEF half
  <1>5. half[q] >= lGold[q] BY <1>1, <1>2, <1>3, <1>4
  <1>6. /\ Paid(half, q) \in [Player -> 0 .. GoldMax - 1]
        /\ Paid(half, q)[q] = half[q] - lGold[q]
        /\ Paid(half, q)[p] \in {half[p], half[p] + lGold[q]}
        /\ \A r \in Player \ {q, p} : Paid(half, q)[r] = half[r]
    BY <1>1, <1>3, <1>4, <1>5, PaidIs
  <1>7. gold'[p] \in {gold[p] - lGold[p], gold[p] - lGold[p] + lGold[q]}
    BY <1>2, <1>4, <1>6
  <1>8. gold'[q] \in {gold[q] - lGold[q], gold[q] + lGold[p] - lGold[q]}
    <2>1. gold'[q] = half[q] - lGold[q] BY <1>2, <1>6
    <2>2. half[q] = gold[q] \/ half[q] = gold[q] + lGold[p] BY <1>4
    <2>3. CASE half[q] = gold[q] BY <2>1, <2>3
    <2>4. CASE half[q] = gold[q] + lGold[p] BY <1>1, <1>3, <2>1, <2>4
    <2> QED BY <2>2, <2>3, <2>4
  <1> QED BY <1>2, <1>4, <1>6, <1>7, <1>8 DEF q

\* A trade that ends leaves both sides clean.
LEMMA CancelClean ==
    ASSUME RInv, NEW p \in Player, company[p] # NoOne, BothCancel(p)
    PROVE  ClosedIsClean' /\ lGold' \in [Player -> Nat]
  <1> DEFINE both == {p, company[p]}
  <1>1. /\ company' = [q \in Player |-> IF q \in both THEN NoOne ELSE company[q]]
        /\ items' = [q \in Player |-> IF q \in both THEN [s \in Slot |-> NoItem] ELSE items[q]]
        /\ lGold' = [q \in Player |-> IF q \in both THEN 0 ELSE lGold[q]]
    BY DEF BothCancel, CancelSides
  <1> HIDE DEF both
  <1> QED BY <1>1 DEF ClosedIsClean, RInv, GoldOK

LEMMA OfferClean ==
    ASSUME RInv, NEW p \in Player, company[p] # NoOne, company' = company,
           \A q \in Player \ {p} : items'[q] = items[q] /\ lGold'[q] = lGold[q]
    PROVE  ClosedIsClean'
  BY DEF ClosedIsClean, RInv

LEMMA TradeOK ==
    ASSUME RInv, NEW p \in Player, TradeDone(p)
    PROVE  RInv'
  <1>1. company[p] # NoOne /\ BothCancel(p) /\ place' = Moved(Moved(place, p), company[p])
    BY DEF TradeDone
  <1>2. ClosedIsClean' /\ lGold' \in [Player -> Nat] BY <1>1, CancelClean
  <1>3. gold' \in [Player -> 0 .. GoldMax - 1] BY TradePaid
  <1>4. IInv' BY <1>1, CancelInv DEF RInv
  <1>5. PlaceOK'
    <2>1. company[p] \in Player BY <1>1 DEF RInv, IInv, SidesOK
    <2>2. /\ place = [i \in Item |-> place[i]]
          /\ \A i \in Item : place[i] = [owner |-> place[i].owner, cell |-> place[i].cell]
      BY DEF RInv, PlaceOK
    <2> DEFINE half == Moved(place, p)
    <2>3. /\ half = [i \in Item |-> half[i]]
          /\ \A i \in Item : half[i] = [owner |-> half[i].owner, cell |-> half[i].cell]
      BY <2>2, MovedShape
    <2> HIDE DEF half
    <2> DEFINE full == Moved(half, company[p])
    <2>4. /\ full = [i \in Item |-> full[i]]
          /\ \A i \in Item : full[i] = [owner |-> full[i].owner, cell |-> full[i].cell]
      BY <2>1, <2>3, MovedShape
    <2>5. place' = full BY <1>1 DEF half
    <2> HIDE DEF full
    <2> QED BY <2>4, <2>5 DEF PlaceOK
  <1> QED BY <1>2, <1>3, <1>4, <1>5 DEF RInv, GoldOK

LEMMA MovedItem ==
    ASSUME PlaceOK, NEW i \in Item, NEW c, place' = [place EXCEPT ![i].cell = c]
    PROVE  PlaceOK' /\ \A j \in Item : place'[j].owner = place[j].owner
  <1>1. place[i] = [owner |-> place[i].owner, cell |-> place[i].cell] BY DEF PlaceOK
  <1>2. [place[i] EXCEPT !.cell = c] = [owner |-> place[i].owner, cell |-> c] BY <1>1
  <1>3. place' = [place EXCEPT ![i] = [owner |-> place[i].owner, cell |-> c]] BY <1>2
  <1> QED BY <1>3 DEF PlaceOK

LEMMA PutItem ==
    ASSUME PlaceOK, NEW i \in Item, NEW o, NEW c,
           place' = [place EXCEPT ![i] = [owner |-> o, cell |-> c]]
    PROVE  /\ PlaceOK' /\ place'[i].owner = o
           /\ \A j \in Item \ {i} : place'[j].owner = place[j].owner
  BY DEF PlaceOK

LEMMA RInit == Init => RInv
  <1> SUFFICES ASSUME Init PROVE RInv OBVIOUS
  <1> USE ExchangeAssumption DEF Init
  <1>1. IInv BY InitInv
  <1>2. GoldOK BY DEF GoldOK
  <1>3. PlaceOK BY DEF PlaceOK, Place
  <1>4. ClosedIsClean BY DEF ClosedIsClean
  <1> QED BY <1>1, <1>2, <1>3, <1>4 DEF RInv

LEMMA RNext == RInv /\ [Next]_vars => RInv'
  <1> SUFFICES ASSUME RInv, [Next]_vars PROVE RInv' OBVIOUS
  <1> USE ExchangeAssumption
  <1>0. IInv' BY NextInv DEF RInv
  <1>1. ASSUME NEW p \in Player, NEW q \in Player, ExchangeStart(p, q) PROVE RInv'
    <2>1. ClosedIsClean'
      BY <1>1 DEF ExchangeStart, RInv, IInv, SidesOK, ClosedIsClean
    <2> QED BY <1>0, <1>1, <2>1 DEF ExchangeStart, RInv, GoldOK, PlaceOK
  <1>2. ASSUME NEW p \in Player, NEW i \in Item, AddItem(p, i) PROVE RInv'
    <2>1. ClosedIsClean'
      BY <1>2, OfferClean DEF AddItem, MayChange, RInv, IInv, SidesOK
    <2> QED BY <1>0, <1>2, <2>1 DEF AddItem, RInv, GoldOK, PlaceOK
  <1>3. ASSUME NEW p \in Player, NEW s \in Slot, RemoveItem(p, s) PROVE RInv'
    <2>1. ClosedIsClean'
      BY <1>3, OfferClean DEF RemoveItem, MayChange, RInv, IInv, SidesOK
    <2> QED BY <1>0, <1>3, <2>1 DEF RemoveItem, RInv, GoldOK, PlaceOK
  <1>4. ASSUME NEW p \in Player, NEW amount \in 1 .. GoldMax - 1, AddGold(p, amount) PROVE RInv'
    <2>1. ClosedIsClean'
      BY <1>4, OfferClean DEF AddGold, MayChange, RInv, GoldOK
    <2> QED BY <1>0, <1>4, <2>1 DEF AddGold, RInv, GoldOK, PlaceOK
  <1>5. ASSUME NEW p \in Player, Accept(p) PROVE RInv'
    BY <1>0, <1>5 DEF Accept, RInv, GoldOK, PlaceOK, ClosedIsClean
  <1>6. ASSUME NEW p \in Player, TradeDone(p) PROVE RInv' BY <1>6, TradeOK
  <1>7. ASSUME NEW p \in Player, TradeRefused(p) \/ Cancel(p) PROVE RInv'
    <2>1. company[p] # NoOne /\ BothCancel(p) /\ gold' = gold /\ place' = place
      BY <1>7 DEF TradeRefused, Cancel
    <2> QED BY <1>0, <2>1, CancelClean DEF RInv, GoldOK, PlaceOK
  <1>8. ASSUME Other, PlaceOK', gold' \in [Player -> 0 .. GoldMax - 1] PROVE RInv'
    BY <1>0, <1>8 DEF Other, RInv, GoldOK, ClosedIsClean
  <1>9. ASSUME NEW p \in Player, NEW i \in Item, NEW c \in Cell, MoveItem(p, i, c) PROVE RInv'
    BY <1>8, <1>9, MovedItem DEF MoveItem, RInv, GoldOK
  <1>10. ASSUME NEW p \in Player, NEW i \in Item, DropItem(p, i) PROVE RInv'
    BY <1>8, <1>10, PutItem DEF DropItem, Ground, RInv, GoldOK
  <1>11. ASSUME NEW p \in Player, NEW i \in Item, PickupItem(p, i) PROVE RInv'
    BY <1>8, <1>11, PutItem DEF PickupItem, RInv, GoldOK
  <1>12. ASSUME NEW i \in Item, Expire(i) PROVE RInv'
    BY <1>8, <1>12, PutItem DEF Expire, Destroyed, RInv, GoldOK
  <1>13. ASSUME NEW p \in Player, NEW amount \in {-1, 1}, PointChange(p, amount) PROVE RInv'
    BY <1>8, <1>13 DEF PointChange, RInv, GoldOK, PlaceOK
  <1>14. CASE UNCHANGED vars
    BY <1>0, <1>14 DEF vars, RInv, GoldOK, PlaceOK, ClosedIsClean
  <1> QED
    BY <1>1, <1>2, <1>3, <1>4, <1>5, <1>6, <1>7, <1>9, <1>10, <1>11, <1>12, <1>13, <1>14
    DEF Next

-----------------------------------------------------------------------------
(* The refinement: one lemma for each step of the contract *)

LEMMA StartOpens ==
    ASSUME RInv, NEW p \in Player, NEW v \in Player, ExchangeStart(p, v)
    PROVE  Contract!Next
  <1> USE ExchangeAssumption
  <1>1. /\ p # v /\ company[p] = NoOne /\ company[v] = NoOne
        /\ company' = [company EXCEPT ![p] = v, ![v] = p]
        /\ UNCHANGED <<place, gold, accept, items, lGold>>
    BY DEF ExchangeStart
  <1>2. company \in [Player -> Player \cup {NoOne}]
    BY DEF RInv, IInv, SidesOK
  <1>3. \A q \in Player : company[q] = NoOne => Deal(q) = Contract!NoDeal
    <2>1. ASSUME NEW q \in Player, company[q] = NoOne PROVE Deal(q) = Contract!NoDeal
      <3>1. Offered(items[q]) = {} BY <2>1 DEF RInv, ClosedIsClean, Offered
      <3>2. lGold[q] = 0 BY <2>1 DEF RInv, ClosedIsClean
      <3>3. accept[q] = FALSE BY <2>1, Zenon DEF RInv, IInv, SidesOK
      <3> QED BY <2>1, <3>1, <3>2, <3>3, Zenon DEF Deal, Contract!NoDeal, Contract!Terms
    <2> QED BY <2>1
  <1>4. deals[p] = Contract!NoDeal /\ deals[v] = Contract!NoDeal
    BY <1>1, <1>3 DEF deals
  <1>5. deals' = [deals EXCEPT ![p].with = v, ![v].with = p]
    <2>1. \A q \in Player : Deal(q)' = [Deal(q) EXCEPT !.with = company'[q]]
      BY <1>1 DEF Deal
    <2>2. /\ company'[p] = v /\ company'[v] = p
          /\ \A q \in Player \ {p, v} : company'[q] = company[q]
      BY <1>1, <1>2
    <2>3. \A q \in Player \ {p, v} : Deal(q)' = Deal(q)
      BY <1>1, <2>2 DEF Deal
    <2>4. Deal(p)' = [Deal(p) EXCEPT !.with = v] /\ Deal(v)' = [Deal(v) EXCEPT !.with = p]
      BY <2>1, <2>2
    <2>5. deals' = [q \in Player |-> Deal(q)'] BY DEF deals
    <2> HIDE DEF Deal
    <2> QED BY <1>1, <2>3, <2>4, <2>5 DEF deals
  <1>6. owned' = owned BY <1>1 DEF owned, OwnerOf
  <1>7. Contract!Open(p, v)
    BY <1>1, <1>4, <1>5, <1>6 DEF Contract!Open, deals, owned, OwnerOf
  <1> QED BY <1>7 DEF Contract!Next

LEMMA DealSides ==
    ASSUME RInv, NEW p \in Player, company[p] # NoOne
    PROVE  /\ company[p] \in Player /\ p # company[p]
           /\ company[company[p]] = p
           /\ Contract!Dealing(p, company[p])
  <1>1. company[p] \in Player /\ p # company[p] /\ company[company[p]] = p
    BY DEF RInv, IInv, SidesOK, Paired
  <1> QED BY <1>1 DEF Contract!Dealing, Deal

LEMMA OfferOffers ==
    ASSUME RInv, NEW p \in Player, MayChange(p), accept' = Reopened(p),
           UNCHANGED <<place, gold, company>>,
           \A q \in Player \ {p} : items'[q] = items[q] /\ lGold'[q] = lGold[q],
           \A i \in Offered(items'[p]) \ Offered(items[p]) : i \in Item /\ place[i].owner = p
    PROVE  Contract!Next
  <1> DEFINE q == company[p]
             new == Contract!Terms(q, deals'[p].items, deals'[p].gold, FALSE)
  <1>1. q \in Player /\ p # q /\ Contract!Dealing(p, q)
    BY DealSides DEF MayChange
  <1>2. ~accept[q] /\ accept \in [Player -> BOOLEAN]
    BY DEF MayChange, RInv, IInv, SidesOK
  <1>3. /\ accept'[p] = FALSE
        /\ \A r \in Player \ {p} : accept'[r] = accept[r]
    <2>1. accept' = [accept EXCEPT ![p] = FALSE, ![q] = FALSE] BY DEF Reopened
    <2>2. accept[q] = FALSE BY <1>1, <1>2, Zenon
    <2> HIDE DEF q
    <2> QED BY <1>1, <1>2, <2>1, <2>2
  <1>4. deals' = [r \in Player |-> Deal(r)'] BY DEF deals
  <1>5. \A r \in Player \ {p} : Deal(r)' = Deal(r) BY <1>3 DEF Deal
  <1>6. Deal(p)' = new
    <2>1. Deal(p)' = [with |-> q, items |-> Offered(items'[p]), gold |-> lGold'[p],
                      agreed |-> FALSE]
      BY <1>3 DEF Deal
    <2>2. deals'[p].items = Offered(items'[p]) /\ deals'[p].gold = lGold'[p]
      BY <1>4, <2>1
    <2> QED BY <2>1, <2>2 DEF Contract!Terms
  <1>7. deals' = [deals EXCEPT ![p] = new]
    <2> HIDE DEF new
    <2> QED BY <1>4, <1>5, <1>6 DEF deals
  <1>8. deals'[p].items \ deals[p].items \subseteq {i \in Item : owned[i] = p}
    <2>1. deals'[p].items = Offered(items'[p]) /\ deals[p].items = Offered(items[p])
      BY <1>4 DEF deals, Deal
    <2> QED BY <2>1 DEF owned, OwnerOf
  <1>9. deals[q].agreed = accept[q] BY <1>1 DEF deals, Deal
  <1>10. owned' = owned BY DEF owned, OwnerOf
  <1>11. Contract!Offer(p, q)
    <2> HIDE DEF q
    <2> QED BY <1>1, <1>2, <1>7, <1>8, <1>9, <1>10 DEF Contract!Offer, deals, owned, OwnerOf
  <1> QED BY <1>1, <1>11 DEF Contract!Next

LEMMA AcceptAgrees ==
    ASSUME RInv, NEW p \in Player, Accept(p)
    PROVE  Contract!Next
  <1> DEFINE q == company[p]
  <1>1. /\ company[p] # NoOne /\ ~accept[q]
        /\ accept' = [accept EXCEPT ![p] = TRUE]
        /\ UNCHANGED <<place, gold, company, items, lGold>>
    BY DEF Accept
  <1>2. q \in Player /\ p # q /\ Contract!Dealing(p, q) BY <1>1, DealSides
  <1>3. accept'[p] = TRUE /\ \A r \in Player \ {p} : accept'[r] = accept[r]
    BY <1>1 DEF RInv, IInv, SidesOK
  <1>4. \A r \in Player \ {p} : Deal(r)' = Deal(r) BY <1>1, <1>3 DEF Deal
  <1> DEFINE new == Contract!Terms(q, deals[p].items, deals[p].gold, TRUE)
  <1>5. Deal(p)' = new
    <2>1. deals[p].items = Offered(items[p]) /\ deals[p].gold = lGold[p] BY DEF deals, Deal
    <2>2. Deal(p)' = [with |-> company[p], items |-> Offered(items[p]), gold |-> lGold[p],
                      agreed |-> accept'[p]]
      BY <1>1 DEF Deal
    <2> QED BY <1>3, <2>1, <2>2, Zenon DEF Contract!Terms
  <1>6. deals' = [deals EXCEPT ![p] = new]
    <2>1. deals' = [r \in Player |-> Deal(r)'] BY DEF deals
    <2> HIDE DEF Deal, new
    <2> QED BY <1>4, <1>5, <2>1 DEF deals
  <1>7. deals[q].agreed = accept[q] BY <1>2 DEF deals, Deal
  <1>8. owned' = owned BY <1>1 DEF owned, OwnerOf
  <1>9. Contract!Agree(p, q)
    <2> HIDE DEF q
    <2> QED BY <1>1, <1>2, <1>6, <1>7, <1>8 DEF Contract!Agree, deals, owned, OwnerOf
  <1> QED BY <1>2, <1>9 DEF Contract!Next

\* However a trade ends, both deals are closed.
LEMMA CancelCloses ==
    ASSUME RInv, NEW p \in Player, company[p] # NoOne, BothCancel(p)
    PROVE  deals' = [deals EXCEPT ![p] = Contract!NoDeal, ![company[p]] = Contract!NoDeal]
  <1> DEFINE both == {p, company[p]}
  <1>1. company[p] \in Player BY DealSides
  <1>2. /\ company' = [q \in Player |-> IF q \in both THEN NoOne ELSE company[q]]
        /\ accept' = [q \in Player |-> accept[q] /\ q \notin both]
        /\ items' = [q \in Player |-> IF q \in both THEN [s \in Slot |-> NoItem] ELSE items[q]]
        /\ lGold' = [q \in Player |-> IF q \in both THEN 0 ELSE lGold[q]]
    BY DEF BothCancel, CancelSides
  <1>3. both \subseteq Player BY <1>1
  <1> HIDE DEF both
  <1>4. ASSUME NEW q \in both PROVE Deal(q)' = Contract!NoDeal
    <2>1. company'[q] = NoOne /\ lGold'[q] = 0 /\ items'[q] = [s \in Slot |-> NoItem]
      BY <1>2, <1>3, <1>4
    <2>2. Offered(items'[q]) = {} BY <2>1 DEF Offered
    <2>3. accept'[q] = FALSE BY <1>2, <1>3, <1>4, Zenon
    <2>4. Deal(q)' = [with |-> company'[q], items |-> Offered(items'[q]),
                      gold |-> lGold'[q], agreed |-> accept'[q]]
      BY DEF Deal
    <2> QED BY <2>1, <2>2, <2>3, <2>4, Zenon DEF Contract!NoDeal, Contract!Terms
  <1>5. ASSUME NEW q \in Player \ both PROVE Deal(q)' = Deal(q)
    <2>1. company'[q] = company[q] /\ lGold'[q] = lGold[q] /\ items'[q] = items[q]
      BY <1>2, <1>5
    <2>2. accept'[q] = accept[q]
      <3>1. accept[q] = TRUE \/ accept[q] = FALSE
        BY <1>5, Zenon DEF RInv, IInv, SidesOK
      <3>2. accept'[q] = (accept[q] /\ q \notin both) BY <1>2, <1>5, Zenon
      <3> QED BY <1>5, <3>1, <3>2
    <2> QED BY <2>1, <2>2, Zenon DEF Deal
  <1>6. deals' = [q \in Player |-> Deal(q)'] BY DEF deals
  <1>7. deals' = [q \in Player |-> IF q \in both THEN Contract!NoDeal ELSE Deal(q)]
    BY <1>4, <1>5, <1>6
  <1>8. deals = [q \in Player |-> Deal(q)] BY DEF deals
  <1> HIDE DEF deals, Deal
  <1> QED BY <1>1, <1>7, <1>8 DEF both

LEMMA CancelClosesDeal ==
    ASSUME RInv, NEW p \in Player, company[p] # NoOne, BothCancel(p),
           UNCHANGED <<place, gold>>
    PROVE  Contract!Next
  <1>1. company[p] \in Player /\ Contract!Dealing(p, company[p]) BY DealSides
  <1>2. deals' = [deals EXCEPT ![p] = Contract!NoDeal, ![company[p]] = Contract!NoDeal]
    BY CancelCloses
  <1>3. owned' = owned BY DEF owned, OwnerOf
  <1>4. Contract!Close(p, company[p])
    BY <1>1, <1>2, <1>3 DEF Contract!Close, Contract!Closed, deals, owned, OwnerOf
  <1> QED BY <1>1, <1>4 DEF Contract!Next

LEMMA OtherIsOutside ==
    ASSUME RInv, NEW p \in Player, Other,
           \A i \in Item : OwnerOf(i)' # OwnerOf(i) => {OwnerOf(i), OwnerOf(i)'} = {p, NoOne},
           \A q \in Player \ {p} : gold'[q] = gold[q]
    PROVE  Contract!Next
  <1>1. deals' = deals BY DEF Other, deals, Deal
  <1>2. \A i \in Item : owned'[i] # owned[i] => {owned[i], owned'[i]} = {p, NoOne}
    BY DEF owned
  <1>3. Contract!Outside(p)
    BY <1>1, <1>2 DEF Contract!Outside, deals, owned, OwnerOf
  <1> QED BY <1>3 DEF Contract!Next

\* The items of both offers go to the other side, if they go at all.
LEMMA TradeMoves ==
    ASSUME RInv, NEW p \in Player, TradeDone(p)
    PROVE  LET q == company[p]
           IN  \A i \in Item :
                  \/ OwnerOf(i)' = OwnerOf(i)
                  \/ i \in Offered(items[p]) /\ OwnerOf(i)' = q
                  \/ i \in Offered(items[q]) /\ OwnerOf(i)' = p
  <1> DEFINE q == company[p]
             half == Moved(place, p)
             full == Moved(half, q)
  <1>1. company[p] # NoOne /\ place' = full BY DEF TradeDone
  <1>2. q \in Player /\ company[q] = p BY <1>1, DealSides
  <1>3. /\ place = [i \in Item |-> place[i]]
        /\ \A i \in Item : place[i] = [owner |-> place[i].owner, cell |-> place[i].cell]
    BY DEF RInv, PlaceOK
  <1>4. /\ half = [i \in Item |-> half[i]]
        /\ \A i \in Item : half[i] = [owner |-> half[i].owner, cell |-> half[i].cell]
        /\ \A i \in Item : \/ half[i].owner = place[i].owner
                           \/ i \in Offered(items[p]) /\ half[i].owner = q
    BY <1>3, MovedShape
  <1> HIDE DEF half, q
  <1>5. \A i \in Item : \/ full[i].owner = half[i].owner
                        \/ i \in Offered(items[q]) /\ full[i].owner = company[q]
    BY <1>2, <1>4, MovedShape
  <1> HIDE DEF full
  <1> QED BY <1>1, <1>2, <1>4, <1>5 DEF OwnerOf, q

\* No item stands in both offers.
LEMMA OffersApart ==
    ASSUME RInv, NEW p \in Player, company[p] # NoOne
    PROVE  Offered(items[p]) \cap Offered(items[company[p]]) = {}
  <1>1. company[p] \in Player /\ p # company[p] BY DealSides
  <1> DEFINE q == company[p]
  <1>2. ASSUME NEW i \in Offered(items[p]), i \in Offered(items[q]) PROVE FALSE
    <2>1. PICK s \in Slot : items[p][s] = i /\ i # NoItem BY DEF Offered
    <2>2. PICK t \in Slot : items[q][t] = i BY <1>2 DEF Offered
    <2> QED BY <1>1, <2>1, <2>2 DEF RInv, IInv, OfferedOnce
  <1> QED BY <1>2

LEMMA TradeExchanges ==
    ASSUME RInv, NEW p \in Player, NEW q \in Player, q = company[p], TradeDone(p)
    PROVE  Contract!Exchange(p, q)
  <1> USE ExchangeAssumption
  <1> DEFINE P == Offered(items[p])
             Q == Offered(items[q])
             kept == {i \in P \cup Q : OwnerOf(i)' = OwnerOf(i)}
  <1>1. /\ company[p] # NoOne /\ accept[q] /\ Check(p) /\ Check(q) /\ BothCancel(p)
    BY DEF TradeDone, Acceptable
  <1>2. q \in Player /\ p # q /\ Contract!Dealing(p, q) /\ P \cap Q = {}
    BY <1>1, DealSides, OffersApart
  <1>3. /\ deals[p].items = P /\ deals[q].items = Q
        /\ deals[p].gold = lGold[p] /\ deals[q].gold = lGold[q]
    BY <1>2 DEF deals, Deal
  <1>4. deals[q].agreed = accept[q] BY <1>2 DEF deals, Deal
  <1>5. P \subseteq Item /\ Q \subseteq Item
    BY <1>2 DEF Offered, RInv, IInv, SidesOK
  <1>6. \A i \in P : place[i].owner = p
    <2>1. ASSUME NEW s \in Slot, items[p][s] # NoItem PROVE place[items[p][s]].owner = p
      <3>1. place[items[p][s]] = [owner |-> p, cell |-> pos[p][s]]
        BY <1>1, <2>1, Zenon DEF Check
      <3> QED BY <3>1
    <2> QED BY <2>1 DEF Offered
  <1>7. \A i \in Q : place[i].owner = q
    <2>1. ASSUME NEW s \in Slot, items[q][s] # NoItem PROVE place[items[q][s]].owner = q
      <3>1. place[items[q][s]] = [owner |-> q, cell |-> pos[q][s]]
        BY <1>1, <2>1, Zenon DEF Check
      <3> QED BY <3>1
    <2> QED BY <2>1 DEF Offered
  <1>8. (\A i \in P : owned[i] = p) /\ (\A i \in Q : owned[i] = q)
    BY <1>2, <1>5, <1>6, <1>7 DEF owned, OwnerOf
  <1>9. gold[p] >= lGold[p] /\ gold[q] >= lGold[q] BY <1>1 DEF Check
  <1>10. \A i \in Item : \/ OwnerOf(i)' = OwnerOf(i)
                         \/ i \in P /\ OwnerOf(i)' = q
                         \/ i \in Q /\ OwnerOf(i)' = p
    BY TradeMoves
  <1>11. /\ kept \in SUBSET (P \cup Q)
         /\ owned' = [i \in Item |-> IF i \in P \ kept THEN q
                                     ELSE IF i \in Q \ kept THEN p ELSE owned[i]]
    <2>1. owned' = [i \in Item |-> OwnerOf(i)'] BY DEF owned
    <2>2. \A i \in Item : owned[i] = OwnerOf(i) BY DEF owned
    <2> HIDE DEF P, Q
    <2> QED BY <1>2, <1>10, <2>1, <2>2
  <1>12. \E toP \in {0, lGold[q]}, toQ \in {0, lGold[p]} :
            gold' = [gold EXCEPT ![p] = @ - lGold[p] + toP, ![q] = @ - lGold[q] + toQ]
    <2>1. /\ gold' \in [Player -> 0 .. GoldMax - 1]
          /\ gold'[p] \in {gold[p] - lGold[p], gold[p] - lGold[p] + lGold[q]}
          /\ gold'[q] \in {gold[q] - lGold[q], gold[q] + lGold[p] - lGold[q]}
          /\ \A r \in Player \ {p, q} : gold'[r] = gold[r]
      BY TradePaid
    <2>2. gold \in [Player -> 0 .. GoldMax - 1] /\ lGold \in [Player -> Nat]
      BY DEF RInv, GoldOK
    <2>3. gold[p] \in Int /\ gold[q] \in Int /\ lGold[p] \in Nat /\ lGold[q] \in Nat
      BY <1>2, <2>2
    <2>4. PICK toP \in {0, lGold[q]} : gold'[p] = gold[p] - lGold[p] + toP
      BY <2>1, <2>3
    <2>5. PICK toQ \in {0, lGold[p]} : gold'[q] = gold[q] - lGold[q] + toQ
      BY <2>1, <2>3
    <2>6. gold' = [gold EXCEPT ![p] = @ - lGold[p] + toP, ![q] = @ - lGold[q] + toQ]
      BY <1>2, <2>1, <2>2, <2>4, <2>5
    <2> QED BY <2>6
  <1>13. deals' = Contract!Closed(p, q)
    BY <1>1, CancelCloses DEF Contract!Closed, deals
  <1>14. Contract!Dealing(p, q) /\ deals[q].agreed BY <1>1, <1>2, <1>4
  <1>15. /\ \A i \in deals[p].items : owned[i] = p
        /\ \A i \in deals[q].items : owned[i] = q
    BY <1>3, <1>8
  <1>16. gold[p] >= deals[p].gold /\ gold[q] >= deals[q].gold BY <1>3, <1>9
  <1>17. \E k \in SUBSET (deals[p].items \cup deals[q].items) :
           owned' = [i \in Item |-> IF i \in deals[p].items \ k THEN q
                                   ELSE IF i \in deals[q].items \ k THEN p ELSE owned[i]]
    <2> HIDE DEF P, Q, kept
    <2> QED BY <1>3, <1>11, Zenon
  <1>18. \E toP \in {0, deals[q].gold}, toQ \in {0, deals[p].gold} :
           gold' = [gold EXCEPT ![p] = @ - deals[p].gold + toP, ![q] = @ - deals[q].gold + toQ]
    <2> QED BY <1>3, <1>12, Zenon
  <1> HIDE DEF P, Q, kept
  <1> QED BY <1>14, <1>15, <1>16, <1>17, <1>18, <1>13, Zenon
      DEF Contract!Exchange, deals, owned, OwnerOf

-----------------------------------------------------------------------------
(* The theorem *)

LEMMA SwapInit == Init => Contract!Init
  <1> SUFFICES ASSUME Init PROVE Contract!Init OBVIOUS
  <1> USE ExchangeAssumption DEF Init
  <1>1. owned \in [Item -> Player \cup {NoOne}] BY DEF owned, OwnerOf
  <1>2. gold \in [Player -> Nat] OBVIOUS
  <1>3. \A p \in Player : Deal(p) = Contract!NoDeal
    BY DEF Deal, Offered, Contract!NoDeal, Contract!Terms
  <1>4. deals = [p \in Player |-> Contract!NoDeal] BY <1>3 DEF deals
  <1> QED BY <1>1, <1>2, <1>4 DEF Contract!Init, owned, OwnerOf, deals

LEMMA SwapNext == RInv /\ RInv' /\ [Next]_vars => [Contract!Next]_(Contract!swapVars)
  <1> SUFFICES ASSUME RInv, [Next]_vars PROVE Contract!Next \/ UNCHANGED Contract!swapVars
    OBVIOUS
  <1> USE ExchangeAssumption
  <1>1. ASSUME NEW p \in Player, NEW q \in Player, ExchangeStart(p, q) PROVE Contract!Next
    BY <1>1, StartOpens
  <1>2. ASSUME NEW p \in Player, NEW i \in Item, AddItem(p, i) PROVE Contract!Next
    <2>1. PICK s \in Slot : items' = [items EXCEPT ![p][s] = i] BY <1>2 DEF AddItem
    <2>2. \A j \in Offered(items'[p]) \ Offered(items[p]) : j \in Item /\ place[j].owner = p
      BY <1>2, <2>1 DEF AddItem, Offered, RInv, IInv, SidesOK
    <2>3. \A q \in Player \ {p} : items'[q] = items[q] /\ lGold'[q] = lGold[q]
      BY <1>2, <2>1 DEF AddItem, RInv, IInv, SidesOK
    <2> QED BY <1>2, <2>2, <2>3, OfferOffers DEF AddItem
  <1>3. ASSUME NEW p \in Player, NEW s \in Slot, RemoveItem(p, s) PROVE Contract!Next
    <2>1. Offered(items'[p]) \subseteq Offered(items[p])
      BY <1>3 DEF RemoveItem, Offered, RInv, IInv, SidesOK
    <2>2. \A q \in Player \ {p} : items'[q] = items[q] /\ lGold'[q] = lGold[q]
      BY <1>3 DEF RemoveItem, RInv, IInv, SidesOK
    <2> QED BY <1>3, <2>1, <2>2, OfferOffers DEF RemoveItem
  <1>4. ASSUME NEW p \in Player, NEW amount \in 1 .. GoldMax - 1, AddGold(p, amount)
        PROVE  Contract!Next
    <2>1. \A q \in Player \ {p} : items'[q] = items[q] /\ lGold'[q] = lGold[q]
      BY <1>4 DEF AddGold, RInv, GoldOK
    <2>2. items' = items BY <1>4 DEF AddGold
    <2> QED BY <1>4, <2>1, <2>2, OfferOffers DEF AddGold
  <1>5. ASSUME NEW p \in Player, Accept(p) PROVE Contract!Next BY <1>5, AcceptAgrees
  <1>6. ASSUME NEW p \in Player, TradeDone(p) PROVE Contract!Next
    <2>1. company[p] \in Player BY <1>6, DealSides DEF TradeDone
    <2>2. PICK q \in Player : q = company[p] BY <2>1
    <2>3. Contract!Exchange(p, q) BY <1>6, <2>2, TradeExchanges
    <2> QED BY <2>3 DEF Contract!Next
  <1>7. ASSUME NEW p \in Player, TradeRefused(p) \/ Cancel(p) PROVE Contract!Next
    BY <1>7, CancelClosesDeal DEF TradeRefused, Cancel
  <1>8. ASSUME NEW p \in Player, NEW i \in Item, NEW c \in Cell, MoveItem(p, i, c)
        PROVE  Contract!Next
    <2>1. \A j \in Item : place'[j].owner = place[j].owner
      BY <1>8, MovedItem DEF MoveItem, RInv
    <2> QED BY <1>8, <2>1, OtherIsOutside DEF MoveItem, OwnerOf
  <1>9. ASSUME NEW p \in Player, NEW i \in Item, DropItem(p, i) PROVE Contract!Next
    <2>1. place'[i].owner = NoOne /\ \A j \in Item \ {i} : place'[j].owner = place[j].owner
      BY <1>9, PutItem DEF DropItem, Ground, RInv
    <2> QED BY <1>9, <2>1, OtherIsOutside DEF DropItem, OwnerOf
  <1>10. ASSUME NEW p \in Player, NEW i \in Item, PickupItem(p, i) PROVE Contract!Next
    <2>1. place'[i].owner = p /\ \A j \in Item \ {i} : place'[j].owner = place[j].owner
      BY <1>10, PutItem DEF PickupItem, RInv
    <2>2. place[i].owner = NoOne BY <1>10 DEF PickupItem, Ground
    <2> QED BY <1>10, <2>1, <2>2, OtherIsOutside DEF PickupItem, OwnerOf
  <1>11. ASSUME NEW i \in Item, Expire(i) PROVE Contract!Next
    <2>1. place'[i].owner = Gone /\ \A j \in Item \ {i} : place'[j].owner = place[j].owner
      BY <1>11, PutItem DEF Expire, Destroyed, RInv
    <2>2. place[i].owner \in Player BY <1>11 DEF Expire
    <2> QED BY <1>11, <2>1, <2>2, OtherIsOutside DEF Expire, OwnerOf
  <1>12. ASSUME NEW p \in Player, NEW amount \in {-1, 1}, PointChange(p, amount)
         PROVE  Contract!Next
    <2>1. \A q \in Player \ {p} : gold'[q] = gold[q]
      BY <1>12 DEF PointChange, RInv, GoldOK
    <2> QED BY <1>12, <2>1, OtherIsOutside DEF PointChange, OwnerOf
  <1>13. CASE UNCHANGED vars
    BY <1>13 DEF vars, Contract!swapVars, Deal
  <1> QED
    BY <1>1, <1>2, <1>3, <1>4, <1>5, <1>6, <1>7, <1>8, <1>9, <1>10, <1>11, <1>12, <1>13
    DEF Next

\* The trade implements Swap: nothing changes hands but by the consent of both
\* sides to the offers as they are, whatever happens to items and gold besides.
THEOREM ImplementsSwapHolds == Spec => ImplementsSwap
  <1>1. Spec => []RInv BY RInit, RNext, PTL DEF Spec
  <1> QED BY <1>1, SwapInit, SwapNext, PTL DEF Spec, ImplementsSwap, Contract!Spec

-----------------------------------------------------------------------------
(* No gold is lost *)

\* Whoever earned nothing since his trade began has room for the gold he is offered.
OfferFits ==
    \A p \in Player : company[p] # NoOne /\ company[p] \notin earned =>
        gold[company[p]] + lGold[p] < GoldMax

\* Both are paid in full if neither earned anything.
LEMMA PaidInFull ==
    ASSUME RInv, OfferFits, NEW p \in Player, TradeDone(p),
           p \notin earned, company[p] \notin earned
    PROVE  gold[p] + gold[company[p]] = gold'[p] + gold'[company[p]]
  <1> USE ExchangeAssumption
  <1> DEFINE q == company[p]
             half == Paid(gold, p)
  <1>1. q \in Player /\ p # q /\ company[q] = p /\ q # NoOne /\ p # NoOne
    BY DEF RInv, IInv, SidesOK, Paired, TradeDone
  <1>2. /\ gold[p] >= lGold[p] /\ gold[q] >= lGold[q] /\ gold' = Paid(half, q)
        /\ gold[q] + lGold[p] < GoldMax /\ gold[p] + lGold[q] < GoldMax
    BY <1>1 DEF TradeDone, Acceptable, Check, OfferFits
  <1>3. gold \in [Player -> 0 .. GoldMax - 1] /\ lGold \in [Player -> Nat]
    BY DEF RInv, GoldOK
  <1>4. company[p] = q OBVIOUS
  <1> HIDE DEF q
  <1> DEFINE toQ == GoldPoint(gold[q], lGold[p])
             fromP == GoldPoint(gold[p], -lGold[p])
  <1>5. fromP = gold[p] - lGold[p] /\ toQ = gold[q] + lGold[p] BY <1>1, <1>2, <1>3 DEF GoldPoint
  <1>6. half = [gold EXCEPT ![p] = fromP, ![q] = toQ] BY <1>4 DEF Paid
  <1> HIDE DEF half, toQ, fromP
  <1>7. half[p] = gold[p] - lGold[p] /\ half[q] = gold[q] + lGold[p] BY <1>1, <1>3, <1>5, <1>6
  <1> DEFINE toP == GoldPoint(half[p], lGold[q])
             fromQ == GoldPoint(half[q], -lGold[q])
  <1>8. fromQ = gold[q] + lGold[p] - lGold[q] /\ toP = gold[p] - lGold[p] + lGold[q]
    BY <1>1, <1>2, <1>3, <1>7 DEF GoldPoint
  <1>9. Paid(half, q) = [half EXCEPT ![q] = fromQ, ![p] = toP] BY <1>1 DEF Paid
  <1>10. half = [r \in Player |-> half[r]] BY <1>3, <1>6
  <1> HIDE DEF toP, fromQ
  <1>11. gold'[p] = toP /\ gold'[q] = fromQ BY <1>1, <1>2, <1>9, <1>10
  <1> QED BY <1>1, <1>3, <1>8, <1>11 DEF q

LEMMA FitsInit == Init => OfferFits /\ LostOnlyIfEarned
  BY DEF Init, OfferFits, LostOnlyIfEarned, Nothing

LEMMA FitsNext ==
    RInv /\ OfferFits /\ LostOnlyIfEarned /\ [Next]_vars => OfferFits' /\ LostOnlyIfEarned'
  <1> SUFFICES ASSUME RInv, OfferFits, LostOnlyIfEarned, [Next]_vars
               PROVE  OfferFits' /\ LostOnlyIfEarned'
    OBVIOUS
  <1> USE ExchangeAssumption
  <1>0. /\ \A p \in Player : gold[p] \in 0 .. GoldMax - 1 /\ lGold[p] \in Nat
        /\ \A p \in Player : company[p] \in Player \cup {NoOne}
        /\ \A p \in Player : company[p] # NoOne => company[p] # p /\ company[company[p]] = p
        /\ company = [p \in Player |-> company[p]] /\ lGold = [p \in Player |-> lGold[p]]
        /\ gold = [p \in Player |-> gold[p]]
    BY DEF RInv, GoldOK, IInv, SidesOK, Paired
  \* Nothing but the gold offered or owned can break it, and less of either does not.
  <1>1. ASSUME UNCHANGED <<company, lGold, earned, outcome, gold>>
        PROVE  OfferFits' /\ LostOnlyIfEarned'
    BY <1>1 DEF OfferFits, LostOnlyIfEarned
  <1>2. ASSUME NEW p \in Player, NEW v \in Player, ExchangeStart(p, v)
        PROVE  OfferFits' /\ LostOnlyIfEarned'
    <2>1. /\ p # v /\ company[p] = NoOne /\ company[v] = NoOne
          /\ company' = [company EXCEPT ![p] = v, ![v] = p]
          /\ earned' = earned \ {p, v}
          /\ UNCHANGED <<gold, lGold, outcome>>
      BY <1>2 DEF ExchangeStart
    <2>2. lGold[p] = 0 /\ lGold[v] = 0 BY <2>1 DEF RInv, ClosedIsClean
    <2>3. ASSUME NEW q \in Player, company'[q] # NoOne, company'[q] \notin earned'
          PROVE  gold'[company'[q]] + lGold'[q] < GoldMax
      <3>1. CASE q \in {p, v}
        <4>1. lGold[q] = 0 /\ company'[q] \in Player BY <1>0, <2>1, <2>2, <3>1
        <4> QED BY <1>0, <2>1, <4>1
      <3>2. CASE q \notin {p, v}
        <4>1. company'[q] = company[q] BY <1>0, <2>1, <3>2
        <4>2. company[q] \notin {p, v} BY <1>0, <2>1, <2>3, <3>2, <4>1
        <4> QED BY <2>1, <2>3, <4>1, <4>2 DEF OfferFits
      <3> QED BY <3>1, <3>2
    <2> QED BY <2>1, <2>3 DEF OfferFits, LostOnlyIfEarned
  <1>3. ASSUME NEW p \in Player, NEW amount \in 1 .. GoldMax - 1, AddGold(p, amount)
        PROVE  OfferFits' /\ LostOnlyIfEarned'
    <2>1. /\ gold[company[p]] + amount < GoldMax /\ lGold' = [lGold EXCEPT ![p] = amount]
          /\ UNCHANGED <<company, gold, earned, outcome>>
      BY <1>3 DEF AddGold
    <2> QED BY <1>0, <2>1 DEF OfferFits, LostOnlyIfEarned
  \* A trade that ends leaves the other trades as they are.
  <1>4. ASSUME NEW p \in Player, company[p] # NoOne, BothCancel(p), earned' = earned,
               \A q \in Player \ {p, company[p]} : gold'[q] = gold[q]
        PROVE  OfferFits'
    <2> DEFINE both == {p, company[p]}
    <2>1. /\ company' = [q \in Player |-> IF q \in both THEN NoOne ELSE company[q]]
          /\ lGold' = [q \in Player |-> IF q \in both THEN 0 ELSE lGold[q]]
      BY <1>4 DEF BothCancel, CancelSides
    <2>2. ASSUME NEW q \in Player, company'[q] # NoOne, company'[q] \notin earned'
          PROVE  gold'[company'[q]] + lGold'[q] < GoldMax
      <3>1. q \notin both /\ company'[q] = company[q] /\ lGold'[q] = lGold[q] BY <2>1, <2>2
      <3>2. company[q] \in Player \ both BY <1>0, <1>4, <2>2, <3>1
      <3> QED BY <1>4, <2>2, <3>1, <3>2 DEF OfferFits
    <2> QED BY <2>2 DEF OfferFits
  <1>5. ASSUME NEW p \in Player, TradeDone(p) PROVE OfferFits' /\ LostOnlyIfEarned'
    <2> DEFINE q == company[p]
    <2>1. /\ company[p] # NoOne /\ BothCancel(p) /\ earned' = earned
          /\ outcome'.lost = gold[p] + gold[q] - gold'[p] - gold'[q]
          /\ outcome'.earned = earned \cap {p, q}
      BY <1>5 DEF TradeDone
    <2>2. gold' \in [Player -> 0 .. GoldMax - 1] /\ \A r \in Player \ {p, q} : gold'[r] = gold[r]
      BY <1>5, TradePaid
    <2>3. OfferFits' BY <1>4, <2>1, <2>2
    <2>4. ASSUME outcome'.earned = {} PROVE outcome'.lost = 0
      <3>1. p \notin earned /\ q \notin earned BY <2>1, <2>4
      <3>2. gold[p] + gold[q] = gold'[p] + gold'[q] BY <1>5, <3>1, PaidInFull
      <3>3. q \in Player BY <1>0, <2>1
      <3> QED BY <1>0, <2>1, <2>2, <3>2, <3>3
    <2> QED BY <2>3, <2>4 DEF LostOnlyIfEarned
  <1>6. ASSUME NEW p \in Player, TradeRefused(p) \/ Cancel(p) PROVE OfferFits' /\ LostOnlyIfEarned'
    <2>1. company[p] # NoOne /\ BothCancel(p) /\ UNCHANGED <<gold, earned, outcome>>
      BY <1>6 DEF TradeRefused, Cancel
    <2> QED BY <1>4, <2>1 DEF LostOnlyIfEarned
  <1>7. ASSUME NEW p \in Player, NEW amount \in {-1, 1}, PointChange(p, amount)
        PROVE  OfferFits' /\ LostOnlyIfEarned'
    <2>1. /\ gold' = [gold EXCEPT ![p] = @ + amount]
          /\ earned' = IF amount > 0 THEN earned \cup {p} ELSE earned
          /\ UNCHANGED <<company, lGold, outcome>>
      BY <1>7 DEF PointChange, Other
    <2>2. ASSUME NEW q \in Player, company[q] # NoOne, company[q] \notin earned'
          PROVE  gold'[company[q]] + lGold[q] < GoldMax
      <3>1. company[q] \in Player /\ company[q] \notin earned BY <1>0, <2>1, <2>2
      <3>2. gold[company[q]] + lGold[q] < GoldMax BY <2>2, <3>1 DEF OfferFits
      <3>3. gold'[company[q]] <= gold[company[q]] /\ gold'[company[q]] \in Int
        <4> DEFINE r == company[q]
        <4>1. r \in Player /\ r \notin earned' /\ gold[r] \in Int BY <1>0, <2>2, <3>1
        <4> HIDE DEF r
        <4>2. CASE r = p
          <5>1. amount = -1 BY <2>1, <4>1, <4>2
          <5>2. gold'[r] = gold[r] + amount BY <1>0, <2>1, <4>1, <4>2
          <5> QED BY <4>1, <5>1, <5>2 DEF r
        <4>3. CASE r # p
          <5>1. gold'[r] = gold[r] BY <1>0, <2>1, <4>1, <4>3
          <5> QED BY <4>1, <5>1 DEF r
        <4> QED BY <4>2, <4>3
      <3> QED BY <1>0, <3>1, <3>2, <3>3
    <2> QED BY <2>1, <2>2 DEF OfferFits, LostOnlyIfEarned
  <1>8. ASSUME \/ \E p \in Player, i \in Item : AddItem(p, i)
               \/ \E p \in Player, s \in Slot : RemoveItem(p, s)
               \/ \E p \in Player : Accept(p)
               \/ \E p \in Player, i \in Item, c \in Cell : MoveItem(p, i, c)
               \/ \E p \in Player, i \in Item : DropItem(p, i)
               \/ \E p \in Player, i \in Item : PickupItem(p, i)
               \/ \E i \in Item : Expire(i)
               \/ UNCHANGED vars
        PROVE  OfferFits' /\ LostOnlyIfEarned'
    <2>1. UNCHANGED <<company, lGold, earned, outcome, gold>>
      BY <1>8 DEF AddItem, RemoveItem, Accept, MoveItem, DropItem, PickupItem, Expire, Other, vars
    <2> QED BY <1>1, <2>1
  <1> QED BY <1>2, <1>3, <1>5, <1>6, <1>7, <1>8 DEF Next

\* No gold is lost between two players who earned none while they traded: what one side
\* offered the other still has room for, whatever either spends meanwhile.
THEOREM LostOnlyIfEarnedHolds == Spec => []LostOnlyIfEarned
  <1>1. Init => RInv /\ OfferFits /\ LostOnlyIfEarned BY RInit, FitsInit
  <1>2. (RInv /\ OfferFits /\ LostOnlyIfEarned) /\ [Next]_vars
            => (RInv /\ OfferFits /\ LostOnlyIfEarned)'
    BY RNext, FitsNext
  <1> QED BY <1>1, <1>2, PTL DEF Spec

-----------------------------------------------------------------------------
(* The recursive function of Packing: that there is one, and what it says  *)
(* of each slot, by counting up to the slots there are                     *)

\* What Packing puts into the n-th slot behind the slots before it.
Taken(its, before, n) ==
    UNION {Span(before[s], Size[its[s]]) : s \in {t \in 1 .. n - 1 : before[t] # NoCell}}
Placed(used, its, room, before, n) ==
    IF its[n] = NoItem THEN NoCell
    ELSE FirstBlank(room[its[n]], used \cup Taken(its, before, n), Size[its[n]])

Packs(used, its, room, f, top) ==
    f = [n \in 0 .. top |->
           IF n = 0 THEN <<>> ELSE Append(f[n - 1], Placed(used, its, room, f[n - 1], n))]

\* A set of numbers that is not empty has a first one.
LEMMA Least ==
    ASSUME NEW S \in SUBSET Nat, S # {}
    PROVE  \E n \in S : \A m \in S : n <= m
  <1> DEFINE R == {x \in Nat \X Nat : x[1] < x[2]}
  <1>1. IsWellFoundedOn(R, Nat) BY NatLessThanWellFounded, Zenon DEF OpToRel
  <1>2. PICK n \in S : \A m \in S : ~ (<<m, n>> \in R)
    <2> HIDE DEF R
    <2> QED BY <1>1, WFMin
  <1>3. \A m \in S : ~ (m < n) BY <1>2
  <1> QED BY <1>3

\* What holds of nothing and of one more holds of all.
LEMMA Counting ==
    ASSUME NEW S \in SUBSET Nat, 0 \in S, \A n \in S : n + 1 \in S
    PROVE  S = Nat
  <1> SUFFICES ASSUME Nat \ S # {} PROVE FALSE OBVIOUS
  <1> DEFINE T == Nat \ S
  <1>1. T \in SUBSET Nat /\ T # {} OBVIOUS
  <1> HIDE DEF T
  <1>2. PICK n \in T : \A m \in T : n <= m BY <1>1, Least
  <1>3. n \in Nat /\ n # 0 /\ n \notin S BY <1>2 DEF T
  <1>4. n - 1 \in Nat /\ ~ (n <= n - 1) BY <1>3
  <1>5. n - 1 \in S BY <1>2, <1>4 DEF T
  <1>6. (n - 1) + 1 = n BY <1>3
  <1> QED BY <1>3, <1>5, <1>6

\* What a recursive function stands for.
LEMMA PackingIsChosen ==
    ASSUME NEW used, NEW its, NEW room
    PROVE  Packing(used, its, room) = (CHOOSE f : Packs(used, its, room, f, MaxSlot))[MaxSlot]
  BY DEF Packing, Packs, Placed, Taken

\* Each number of slots has a function that packs them one after the other.
LEMMA PackingExists ==
    ASSUME NEW used, NEW its, NEW room
    PROVE  \E f : Packs(used, its, room, f, MaxSlot)
  <1> DEFINE P(f, m) == Packs(used, its, room, f, m)
             put(b, n) == Placed(used, its, room, b, n)
             S == {m \in Nat : \E f : P(f, m)}
  <1>1. 0 \in S
    <2>1. P([n \in 0 .. 0 |-> <<>>], 0) BY DEF Packs
    <2> QED BY <2>1
  <1>2. ASSUME NEW m \in S PROVE m + 1 \in S
    <2>1. PICK f : P(f, m) OBVIOUS
    <2> DEFINE h == [n \in 0 .. m + 1 |-> IF n = m + 1 THEN Append(f[m], put(f[m], m + 1)) ELSE f[n]]
    <2>2. m \in Nat /\ \A n \in 0 .. m : f[n] = IF n = 0 THEN <<>> ELSE Append(f[n - 1], put(f[n - 1], n))
      BY <2>1 DEF Packs
    <2> HIDE DEF P, put
    <2>3. ASSUME NEW n \in 0 .. m + 1 PROVE h[n] = IF n = 0 THEN <<>> ELSE Append(h[n - 1], put(h[n - 1], n))
      <3>1. CASE n = m + 1
        <4>1. m \in 0 .. m + 1 /\ m # m + 1 /\ n - 1 = m /\ n # 0 BY <2>2, <3>1
        <4>2. h[n - 1] = f[m] BY <4>1
        <4> QED BY <3>1, <4>1, <4>2
      <3>2. CASE n # m + 1 /\ n # 0
        <4>1. n \in 0 .. m /\ n - 1 \in 0 .. m /\ n - 1 \in 0 .. m + 1 /\ n - 1 # m + 1 BY <2>2, <3>2
        <4>2. h[n] = f[n] /\ h[n - 1] = f[n - 1] BY <3>2, <4>1
        <4> QED BY <2>2, <3>2, <4>1, <4>2
      <3>3. CASE n = 0
        <4>1. h[0] = f[0] /\ 0 \in 0 .. m BY <2>2, <3>3
        <4> QED BY <2>2, <3>3, <4>1
      <3> QED BY <3>1, <3>2, <3>3
    <2>4. h = [n \in 0 .. m + 1 |-> h[n]] OBVIOUS
    <2> HIDE DEF h
    <2>5. h = [n \in 0 .. m + 1 |-> IF n = 0 THEN <<>> ELSE Append(h[n - 1], put(h[n - 1], n))] BY <2>3, <2>4
    <2>6. P(h, m + 1) BY <2>5 DEF P, put, Packs
    <2> QED BY <2>2, <2>6
  <1> HIDE DEF S
  <1>3. S \in SUBSET Nat BY DEF S
  <1>4. MaxSlot \in S BY <1>1, <1>2, <1>3, Counting, ExchangeAssumption
  <1> QED BY <1>4 DEF S

\* The first blank, when there is one.
LEMMA FirstBlankIs ==
    ASSUME NEW room \in SUBSET Nat, NEW used, NEW size
    PROVE  \/ FirstBlank(room, used, size) = NoCell /\ Blanks(room, used, size) = {}
           \/ /\ FirstBlank(room, used, size) \in Blanks(room, used, size)
              /\ FirstBlank(room, used, size) \in Nat /\ FirstBlank(room, used, size) # NoCell
              /\ \A d \in Blanks(room, used, size) : FirstBlank(room, used, size) <= d
  <1> DEFINE B == Blanks(room, used, size)
  <1>1. B \in SUBSET Nat BY DEF Blanks
  <1>2. CASE B = {} BY <1>2 DEF FirstBlank
  <1>3. CASE B # {}
    <2> HIDE DEF B
    <2>1. \E c \in B : \A d \in B : c <= d BY <1>1, <1>3, Least
    <2> DEFINE first == CHOOSE c \in B : \A d \in B : c <= d
    <2>2. first \in B /\ \A d \in B : first <= d BY <2>1
    <2>3. FirstBlank(room, used, size) = first BY <1>3 DEF FirstBlank, B
    <2>4. NoCell \notin Nat BY ExchangeAssumption
    <2> HIDE DEF first
    <2> QED BY <1>1, <2>2, <2>3, <2>4 DEF B
  <1> QED BY <1>2, <1>3

\* Packing fills slot after slot.
LEMMA PackingIs ==
    ASSUME NEW used, NEW its \in [Slot -> Item \cup {NoItem}], NEW room \in [Item -> SUBSET Nat]
    PROVE  \A s \in Slot : /\ Packing(used, its, room)[s] \in Nat \cup {NoCell}
                           /\ Packing(used, its, room)[s] = Placed(used, its, room, Packing(used, its, room), s)
  <1> DEFINE put(b, n) == Placed(used, its, room, b, n)
             V == Nat \cup {NoCell}
             c == Packing(used, its, room)
  <1>1. PICK f : Packs(used, its, room, f, MaxSlot) /\ c = f[MaxSlot]
    BY PackingIsChosen, PackingExists
  <1>2. MaxSlot \in Nat /\ Slot = 1 .. MaxSlot BY ExchangeAssumption DEF Slot
  <1>3. \A n \in 0 .. MaxSlot : f[n] = IF n = 0 THEN <<>> ELSE Append(f[n - 1], put(f[n - 1], n))
    BY <1>1 DEF Packs
  <1>4. \A b, n : n \in Slot => put(b, n) \in V
    BY FirstBlankIs DEF Placed
  <1> HIDE DEF put, c
  <1> DEFINE Good(n) == /\ f[n] \in Seq(V) /\ Len(f[n]) = n
                        /\ \A m \in 1 .. n : f[n][m] = put(f[m - 1], m)
                        /\ \A m \in 1 .. n : \A s \in 1 .. m - 1 : f[n][s] = f[m - 1][s]
             S == {n \in Nat : n <= MaxSlot => Good(n)}
  <1>5. Good(0)
    <2>1. f[0] = <<>> BY <1>2, <1>3
    <2>2. f[0] \in Seq(V) /\ Len(f[0]) = 0 BY <2>1
    <2>3. 1 .. 0 = {} OBVIOUS
    <2> HIDE DEF V
    <2> QED BY <2>2, <2>3
  <1>6. ASSUME NEW n \in Nat, Good(n), n + 1 <= MaxSlot PROVE Good(n + 1)
    <2>1. /\ n \in Nat /\ n <= MaxSlot /\ n + 1 \in 0 .. MaxSlot /\ n + 1 # 0 /\ (n + 1) - 1 = n /\ n + 1 \in Slot
          /\ f[n] \in Seq(V) /\ Len(f[n]) = n
          /\ \A m \in 1 .. n : f[n][m] = put(f[m - 1], m)
          /\ \A m \in 1 .. n : \A s \in 1 .. m - 1 : f[n][s] = f[m - 1][s]
      BY <1>2, <1>6
    <2> DEFINE v == put(f[n], n + 1)
    <2>2. f[n + 1] = Append(f[n], v) /\ v \in V BY <1>3, <1>4, <2>1
    <2> HIDE DEF v, V
    <2>3. /\ f[n + 1] \in Seq(V) /\ Len(f[n + 1]) = n + 1 /\ f[n + 1][n + 1] = v
          /\ \A m \in 1 .. n : f[n + 1][m] = f[n][m]
      BY <2>1, <2>2
    <2>4. \A m \in 1 .. n + 1 : f[n + 1][m] = put(f[m - 1], m)
      <3> SUFFICES ASSUME NEW m \in 1 .. n + 1 PROVE f[n + 1][m] = put(f[m - 1], m) OBVIOUS
      <3>1. CASE m = n + 1 BY <2>1, <2>3, <3>1 DEF v
      <3>2. CASE m \in 1 .. n BY <2>1, <2>3, <3>2
      <3> QED BY <2>1, <3>1, <3>2
    <2>5. \A m \in 1 .. n + 1 : \A s \in 1 .. m - 1 : f[n + 1][s] = f[m - 1][s]
      <3> SUFFICES ASSUME NEW m \in 1 .. n + 1, NEW s \in 1 .. m - 1 PROVE f[n + 1][s] = f[m - 1][s] OBVIOUS
      <3>1. s \in 1 .. n /\ m \in Nat BY <2>1
      <3>2. f[n + 1][s] = f[n][s] BY <2>3, <3>1
      <3>3. CASE m = n + 1 BY <2>1, <3>2, <3>3
      <3>4. CASE m \in 1 .. n BY <2>1, <3>2, <3>4
      <3> QED BY <2>1, <3>3, <3>4
    <2> QED BY <2>3, <2>4, <2>5
  <1> HIDE DEF Good
  <1>7. Good(MaxSlot)
    <2>1. S \in SUBSET Nat /\ 0 \in S BY <1>5
    <2>2. \A n \in S : n + 1 \in S
      <3>1. \A n \in Nat : n + 1 \in Nat /\ (n + 1 <= MaxSlot => n <= MaxSlot) BY <1>2
      <3> QED BY <1>6, <3>1
    <2>3. MaxSlot \in S
      <3> HIDE DEF S
      <3> QED BY <1>2, <2>1, <2>2, Counting
    <2> QED BY <1>2, <2>3
  <1>8. /\ f[MaxSlot] \in Seq(V) /\ Len(f[MaxSlot]) = MaxSlot
        /\ \A m \in Slot : f[MaxSlot][m] = put(f[m - 1], m)
        /\ \A m \in Slot : \A s \in 1 .. m - 1 : f[MaxSlot][s] = f[m - 1][s]
    BY <1>2, <1>7 DEF Good
  <1> HIDE DEF S
  <1> SUFFICES ASSUME NEW s \in Slot PROVE c[s] \in V /\ c[s] = put(c, s) BY DEF put, c
  <1>9. \A t \in 1 .. s - 1 : c[t] = f[s - 1][t] BY <1>1, <1>8
  <1>10. Taken(its, c, s) = Taken(its, f[s - 1], s)
    <2>1. {t \in 1 .. s - 1 : c[t] # NoCell} = {t \in 1 .. s - 1 : f[s - 1][t] # NoCell} BY <1>9
    <2> QED BY <1>9, <2>1 DEF Taken
  <1>11. put(c, s) = put(f[s - 1], s) BY <1>10 DEF put, Placed
  <1> QED BY <1>1, <1>2, <1>4, <1>8, <1>11

-----------------------------------------------------------------------------
(* Spans of one size *)

\* Of two spans that meet, the one that begins later begins in the other.
LEMMA Meet ==
    ASSUME NEW a \in Nat, NEW g \in Nat, a <= g, NEW z \in Nat, Span(a, z) \cap Span(g, z) # {}
    PROVE  g \in Span(a, z)
  <1>0. Width \in Nat /\ Width >= 1 BY ExchangeAssumption
  <1>1. PICK k \in 0 .. z - 1, l \in 0 .. z - 1 : a + k * Width = g + l * Width
    BY DEF Span
  <1> DEFINE d == k - l
  <1>2. d \in Int /\ k = l + d OBVIOUS
  <1>3. k * Width = l * Width + d * Width BY <1>0, <1>2
  <1>4. l * Width \in Nat /\ d * Width \in Int BY <1>0, <1>2
  <1> HIDE DEF d
  <1>5. g = a + d * Width
    <2> DEFINE x == k * Width
               y == l * Width
               w == d * Width
    <2>1. x \in Int /\ y \in Int /\ w \in Int /\ a + x = g + y /\ x = y + w
      BY <1>1, <1>3, <1>4
    <2> HIDE DEF x, y, w
    <2>2. g = a + w BY <2>1
    <2> QED BY <2>2 DEF w
  <1>6. d < 0 => d * Width < 0 BY <1>0, <1>2
  <1>7. d \in 0 .. z - 1 BY <1>2, <1>4, <1>5, <1>6
  <1> QED BY <1>5, <1>7 DEF Span

\* Of two cells of one span, the span from the first one has the second.
LEMMA Within ==
    ASSUME NEW g \in Nat, NEW z \in Nat, NEW x \in Span(g, z), NEW y \in Span(g, z), x <= y
    PROVE  y \in Span(x, z)
  <1>0. Width \in Nat /\ Width >= 1 BY ExchangeAssumption
  <1>1. PICK k \in 0 .. z - 1 : x = g + k * Width BY DEF Span
  <1>2. PICK l \in 0 .. z - 1 : y = g + l * Width BY DEF Span
  <1> DEFINE d == l - k
  <1>3. d \in Int /\ l = k + d OBVIOUS
  <1>4. l * Width = k * Width + d * Width BY <1>0, <1>3
  <1>5. k * Width \in Nat /\ d * Width \in Int BY <1>0, <1>3
  <1> HIDE DEF d
  <1>6. y = x + d * Width
    <2> DEFINE u == k * Width
               v == l * Width
               w == d * Width
    <2>1. u \in Int /\ v \in Int /\ w \in Int /\ x = g + u /\ y = g + v /\ v = u + w
      BY <1>1, <1>2, <1>4, <1>5
    <2> HIDE DEF u, v, w
    <2>2. y = x + w BY <2>1
    <2> QED BY <2>2 DEF w
  <1>7. d < 0 => d * Width < 0 BY <1>0, <1>3
  <1>8. d \in 0 .. z - 1 BY <1>1, <1>3, <1>5, <1>6, <1>7
  <1> QED BY <1>6, <1>8 DEF Span

\* A span has the cell it begins in.
LEMMA BeginsIn == ASSUME NEW x \in Nat, NEW z \in Nat \ {0} PROVE x \in Span(x, z)
  <1>1. 0 \in 0 .. z - 1 /\ x + 0 * Width = x BY ExchangeAssumption
  <1> QED BY <1>1 DEF Span

-----------------------------------------------------------------------------
(* First fit *)

\* Items of one size that fit, one after the other in the first blanks, into an inventory
\* fit likewise into one with no cell taken that was free.
LEMMA FitsAgain ==
    ASSUME NEW its \in [Slot -> Item \cup {NoItem}], NEW z \in Nat \ {0},
           NEW ra \in [Item -> SUBSET Nat], NEW rb \in [Item -> SUBSET Nat],
           \A s \in Slot : its[s] # NoItem =>
              Size[its[s]] = z /\ ra[its[s]] = DefaultCell /\ rb[its[s]] = DefaultCell,
           NEW ua, NEW ub, ub \subseteq ua,
           \A s \in Slot : its[s] # NoItem => Packing(ua, its, ra)[s] # NoCell
    PROVE  \A s \in Slot : its[s] # NoItem => Packing(ub, its, rb)[s] # NoCell
  <1> DEFINE A == Packing(ua, its, ra)
             B == Packing(ub, its, rb)
             full == {s \in Slot : its[s] # NoItem}
  <1>0. MaxSlot \in Nat /\ Slot = 1 .. MaxSlot BY ExchangeAssumption DEF Slot
  <1>1. DefaultCell \in SUBSET Nat BY ExchangeAssumption DEF DefaultCell
  <1>2. \A s \in Slot : /\ A[s] \in Nat \cup {NoCell} /\ A[s] = Placed(ua, its, ra, A, s)
                        /\ B[s] \in Nat \cup {NoCell} /\ B[s] = Placed(ub, its, rb, B, s)
    BY PackingIs
  <1> HIDE DEF A, B
  <1>3. \A s \in full : /\ A[s] = FirstBlank(DefaultCell, ua \cup Taken(its, A, s), z)
                        /\ B[s] = FirstBlank(DefaultCell, ub \cup Taken(its, B, s), z)
                        /\ A[s] # NoCell /\ A[s] \in Nat
    BY <1>2 DEF Placed, A
  <1>4. \A s \in full : A[s] \in Blanks(DefaultCell, ua \cup Taken(its, A, s), z)
    <2> SUFFICES ASSUME NEW s \in full 
                 PROVE  A[s] \in Blanks(DefaultCell, ua \cup Taken(its, A, s), z) OBVIOUS
    <2> DEFINE u == ua \cup Taken(its, A, s)
    <2>1. A[s] = FirstBlank(DefaultCell, u, z) /\ A[s] # NoCell BY <1>3
    <2> HIDE DEF u, full
    <2>2. A[s] \in Blanks(DefaultCell, u, z) BY <1>1, <2>1, FirstBlankIs
    <2> QED BY <2>2 DEF u
  <1>5. \A s \in Slot \ full : A[s] = NoCell /\ B[s] = NoCell BY <1>2 DEF Placed
  <1> SUFFICES ASSUME NEW t \in full, B[t] = NoCell PROVE FALSE BY DEF B
  <1> DEFINE done == {s \in 1 .. t - 1 : B[s] # NoCell}
             due == {s \in full : s <= t}
  <1>6. t \in Nat /\ done \subseteq full /\ done \subseteq 1 .. t - 1 /\ t \in due /\ t \notin done
        /\ due \subseteq 1 .. t /\ done \subseteq due
    BY <1>0, <1>5
  \* What is placed is placed in the first of the blanks.
  <1>7. \A s \in done : /\ B[s] \in Nat
                        /\ \A d \in Blanks(DefaultCell, ub \cup Taken(its, B, s), z) : B[s] <= d
    <2> SUFFICES ASSUME NEW s \in done
                 PROVE  /\ B[s] \in Nat
                        /\ \A d \in Blanks(DefaultCell, ub \cup Taken(its, B, s), z) : B[s] <= d
      OBVIOUS
    <2> DEFINE u == ub \cup Taken(its, B, s)
    <2>1. s \in full /\ B[s] # NoCell BY <1>6
    <2>2. B[s] = FirstBlank(DefaultCell, u, z) BY <1>3, <2>1
    <2> HIDE DEF u, full, done
    <2>3. B[s] \in Nat /\ \A d \in Blanks(DefaultCell, u, z) : B[s] <= d
      BY <1>1, <2>1, <2>2, FirstBlankIs
    <2> QED BY <2>3 DEF u
  <1>8. \A s \in full : Taken(its, B, s) = UNION {Span(B[u], z) : u \in {v \in 1 .. s - 1 : B[v] # NoCell}}
    <2> SUFFICES ASSUME NEW s \in full
                 PROVE  Taken(its, B, s) = UNION {Span(B[u], z) : u \in {v \in 1 .. s - 1 : B[v] # NoCell}}
      OBVIOUS
    <2>1. \A u \in 1 .. s - 1 : B[u] # NoCell => u \in full BY <1>0, <1>5
    <2>2. \A u \in {v \in 1 .. s - 1 : B[v] # NoCell} : Size[its[u]] = z BY <2>1
    <2> QED BY <2>2 DEF Taken
  <1>9. \A s \in full : \A u \in 1 .. s - 1 : u \in full => Span(A[u], z) \cap Span(A[s], z) = {}
    <2> SUFFICES ASSUME NEW s \in full, NEW u \in 1 .. s - 1, u \in full
                 PROVE  Span(A[u], z) \cap Span(A[s], z) = {}
      OBVIOUS
    <2>1. Span(A[u], z) \subseteq Taken(its, A, s) 
      <3>1. u \in {v \in 1 .. s - 1 : A[v] # NoCell} /\ Size[its[u]] = z BY <1>3
      <3> QED BY <3>1 DEF Taken
    <2>2. Span(A[s], z) \cap Taken(its, A, s) = {} BY <1>4 DEF Blanks
    <2> QED BY <2>1, <2>2
  <1> HIDE DEF full, done, due
  \* Every cell of the old packing begins in a span of the new one.
  <1>10. ASSUME NEW s \in due PROVE \E u \in done : A[s] \in Span(B[u], z)
    <2>1. s \in full /\ A[s] \in Nat BY <1>3 DEF due
    <2>2. A[s] \in DefaultCell /\ OnPage(A[s], z) /\ Span(A[s], z) \cap ua = {}
      BY <1>4, <2>1 DEF Blanks
    <2> DEFINE meets == {u \in done : Span(B[u], z) \cap Span(A[s], z) # {}}
    <2>3. CASE meets = {}
      <3>1. Span(A[s], z) \cap Taken(its, B, t) = {}
        <4>1. t \in full BY <1>6
        <4>2. Taken(its, B, t) = UNION {Span(B[u], z) : u \in done} BY <1>8, <4>1 DEF done
        <4> QED BY <2>3, <4>2
      <3>2. A[s] \in Blanks(DefaultCell, ub \cup Taken(its, B, t), z) BY <2>2, <3>1 DEF Blanks
      <3>3. B[t] # NoCell BY <1>1, <1>3, <1>6, <3>2, FirstBlankIs
      <3> QED BY <3>3
    <2>4. CASE meets # {}
      <3>1. meets \in SUBSET Nat
        <4>1. \A n \in 1 .. t - 1 : n \in Nat BY <1>6
        <4> QED BY <1>6, <4>1
      <3>2. PICK u \in meets : \A v \in meets : u <= v
        <4> HIDE DEF meets
        <4> QED BY <2>4, <3>1, Least
      <3>3. u \in done /\ u \in full /\ u \in 1 .. t - 1 /\ Span(B[u], z) \cap Span(A[s], z) # {} BY <1>6
      <3>4. Span(A[s], z) \cap Taken(its, B, u) = {}
        <4>1. ASSUME NEW v \in 1 .. u - 1, B[v] # NoCell PROVE Span(B[v], z) \cap Span(A[s], z) = {}
          <5>1. v \in done /\ ~ (u <= v) BY <1>6, <3>3, <4>1 DEF done
          <5> QED BY <3>2, <5>1
        <4> QED BY <1>8, <3>3, <4>1
      <3>5. A[s] \in Blanks(DefaultCell, ub \cup Taken(its, B, u), z) BY <2>2, <3>4 DEF Blanks
      <3>6. B[u] <= A[s] /\ B[u] \in Nat BY <1>7, <3>3, <3>5
      <3>7. A[s] \in Span(B[u], z) BY <2>1, <3>3, <3>6, Meet
      <3> QED BY <3>3, <3>7
    <2> QED BY <2>3, <2>4
  \* So there are too many of them.
  <1> DEFINE f == [s \in due |-> CHOOSE u \in done : A[s] \in Span(B[u], z)]
  <1>11. \A s \in due : f[s] \in done /\ A[s] \in Span(B[f[s]], z) BY <1>10
  <1>12. f \in [due -> done] BY <1>11
  <1>13. IsFiniteSet(due) /\ IsFiniteSet(done) /\ Cardinality(done) < Cardinality(due)
    <2>1. IsFiniteSet(1 .. t) BY <1>6, FS_Interval
    <2>2. IsFiniteSet(due) BY <1>6, <2>1, FS_Subset
    <2>3. IsFiniteSet(done) /\ Cardinality(done) <= Cardinality(due)
          /\ (Cardinality(due) = Cardinality(done) => due = done)
      BY <1>6, <2>2, FS_Subset
    <2>4. Cardinality(done) \in Nat /\ Cardinality(due) \in Nat BY <2>2, <2>3, FS_CardinalityType
    <2> QED BY <1>6, <2>2, <2>3, <2>4
  <1> HIDE DEF f
  <1>14. PICK x \in due, y \in due : x # y /\ f[x] = f[y] BY <1>12, <1>13, FS_PigeonHole
  <1>15. ASSUME NEW r \in due, NEW s \in due, r < s, f[r] = f[s] PROVE FALSE
    <2>1. r \in full /\ s \in full /\ r \in Nat /\ s \in Nat /\ r \in 1 .. s - 1 BY <1>0, <1>6, <1>15 DEF due
    <2>2. A[r] \in Nat /\ A[s] \in Nat BY <1>3, <2>1
    <2>3. f[r] \in done /\ B[f[r]] \in Nat BY <1>7, <1>11
    <2>4. A[r] \in Span(B[f[r]], z) /\ A[s] \in Span(B[f[r]], z) BY <1>11, <1>15
    <2>5. A[r] \in Span(A[r], z) /\ A[s] \in Span(A[s], z) BY <2>2, BeginsIn
    <2>6. Span(A[r], z) \cap Span(A[s], z) = {} BY <1>9, <2>1
    <2>7. A[r] <= A[s] => A[s] \in Span(A[r], z) BY <2>3, <2>4, Within
    <2>8. A[s] <= A[r] => A[r] \in Span(A[s], z) BY <2>3, <2>4, Within
    <2> QED BY <2>2, <2>5, <2>6, <2>7, <2>8
  <1>16. x < y \/ y < x BY <1>6, <1>14
  <1> QED BY <1>14, <1>15, <1>16

-----------------------------------------------------------------------------
(* Nothing of even offers stays behind *)

\* Items of one size and of the default inventory, for which CheckSpace found room, are
\* all moved by Done, and nothing else is.
LEMMA EvenMoved ==
    ASSUME RInv, NEW p \in Player, NEW q \in Player, q = company[p], CheckSpace(p),
           NEW z \in Nat \ {0}, \A i \in Offered(items[p]) : Size[i] = z /\ i \notin Special,
           NEW at, Used(at, q) \subseteq Used(place, q)
    PROVE  /\ \A i \in Offered(items[p]) : Moved(at, p)[i].owner = q
           /\ \A i \in Item \ Offered(items[p]) : Moved(at, p)[i] = at[i]
  <1> DEFINE its == items[p]
             any == [i \in Item |-> DefaultCell]
             cells == Packing(Used(at, q), its, RoomOf)
             moved == {s \in Slot : its[s] # NoItem /\ cells[s] # NoCell}
  <1>1. its \in [Slot -> Item \cup {NoItem}] BY DEF RInv, IInv, SidesOK
  <1>2. DefaultCell \in SUBSET Nat /\ SpecialCell \in SUBSET Nat
    BY ExchangeAssumption DEF DefaultCell, SpecialCell
  <1>3. any \in [Item -> SUBSET Nat] /\ RoomOf \in [Item -> SUBSET Nat] BY <1>2 DEF RoomOf
  <1>4. ASSUME NEW s \in Slot, its[s] # NoItem
        PROVE  /\ Size[its[s]] = z /\ any[its[s]] = DefaultCell /\ RoomOf[its[s]] = DefaultCell
               /\ its[s] \in Item /\ its[s] \in Offered(its)
    <2>1. its[s] \in Item /\ its[s] \in Offered(its) BY <1>1, <1>4 DEF Offered
    <2>2. Size[its[s]] = z /\ its[s] \notin Special BY <2>1
    <2> QED BY <2>1, <2>2 DEF RoomOf
  <1>5. \A s \in Slot : its[s] # NoItem => Packing(Used(place, q), its, any)[s] # NoCell
    BY DEF CheckSpace
  <1> DEFINE ua == Used(place, q)
             ub == Used(at, q)
             ra == any
             rb == RoomOf
  <1>6. \A s \in Slot : its[s] # NoItem => cells[s] # NoCell
    <2>1. /\ \A s \in Slot : its[s] # NoItem =>
                Size[its[s]] = z /\ ra[its[s]] = DefaultCell /\ rb[its[s]] = DefaultCell
          /\ ra \in [Item -> SUBSET Nat] /\ rb \in [Item -> SUBSET Nat] /\ ub \subseteq ua
          /\ \A s \in Slot : its[s] # NoItem => Packing(ua, its, ra)[s] # NoCell
      BY <1>3, <1>4, <1>5
    <2>2. cells = Packing(ub, its, rb) OBVIOUS
    <2> HIDE DEF ua, ub, ra, rb, any, its, cells
    <2>3. \A s \in Slot : its[s] # NoItem => Packing(ub, its, rb)[s] # NoCell
      BY <1>1, <2>1, FitsAgain
    <2> QED BY <2>2, <2>3
  <1>7. Moved(at, p) = [i \in Item |->
                          IF \E s \in moved : its[s] = i
                          THEN [owner |-> q, cell |-> cells[CHOOSE s \in moved : its[s] = i]]
                          ELSE at[i]]
    BY DEF Moved
  <1> HIDE DEF cells
  <1>8. \A i \in Item : (\E s \in moved : its[s] = i) <=> i \in Offered(its)
    BY <1>6, ExchangeAssumption DEF Offered
  <1>9. Offered(its) \subseteq Item BY <1>1 DEF Offered
  <1> HIDE DEF moved, its
  <1> QED BY <1>7, <1>8, <1>9 DEF its

\* No trade was made yet.
LEMMA KeptInit == Init => KeptOnlyIfUneven
  BY DEF Init, Nothing, KeptOnlyIfUneven

\* Items that mix no sizes have one.
LEMMA OneSize ==
    ASSUME NEW its \in [Slot -> Item \cup {NoItem}], NEW jts \in [Slot -> Item \cup {NoItem}],
           NEW i \in Offered(its) \cup Offered(jts),
           ~ (Cardinality({Size[j] : j \in Offered(its) \cup Offered(jts)}) > 1)
    PROVE  Size[i] \in Nat \ {0} /\ \A j \in Offered(its) \cup Offered(jts) : Size[j] = Size[i]
  <1> DEFINE O == Offered(its) \cup Offered(jts)
             S == {Size[j] : j \in O}
  <1>1. O \subseteq Item BY DEF Offered
  <1>2. IsFiniteSet(O)
    <2>1. IsFiniteSet(Slot) BY ExchangeAssumption, FS_Interval DEF Slot
    <2>2. ASSUME NEW h \in [Slot -> Item \cup {NoItem}] PROVE IsFiniteSet({h[s] : s \in Slot})
      <3> DEFINE R == {h[s] : s \in Slot}
      <3>1. h \in Surjection(Slot, R) BY <2>2 DEF Surjection
      <3> HIDE DEF R
      <3>2. IsFiniteSet(R) BY <2>1, <3>1, FS_Surjection
      <3> QED BY <3>2 DEF R
    <2>3. IsFiniteSet({its[s] : s \in Slot}) /\ IsFiniteSet({jts[s] : s \in Slot}) BY <2>2
    <2>4. Offered(its) \in SUBSET {its[s] : s \in Slot} /\ Offered(jts) \in SUBSET {jts[s] : s \in Slot}
      BY DEF Offered
    <2>5. IsFiniteSet(Offered(its)) /\ IsFiniteSet(Offered(jts)) BY <2>3, <2>4, FS_Subset
    <2> QED BY <2>5, FS_Union
  <1>3. IsFiniteSet(S)
    <2> DEFINE h == [j \in O |-> Size[j]]
    <2>1. h \in Surjection(O, S) BY DEF Surjection
    <2> HIDE DEF h, O, S
    <2> QED BY <1>2, <2>1, FS_Surjection
  <1>4. ASSUME NEW j \in O, Size[j] # Size[i] PROVE FALSE
    <2> DEFINE T == {Size[i], Size[j]}
    <2>1. T \in SUBSET S OBVIOUS
    <2>2. Cardinality(T) = 2
      <3>1. ASSUME NEW a, NEW b, a # b PROVE Cardinality({a, b}) = 2
        <4>1. IsFiniteSet({a}) /\ Cardinality({a}) = 1 BY FS_Singleton
        <4>2. b \notin {a} /\ {a, b} = {a} \cup {b} BY <3>1
        <4>3. Cardinality({a} \cup {b}) = Cardinality({a}) + 1 BY <4>1, <4>2, FS_AddElement
        <4>4. {a, b} = {a} \cup {b} BY <4>2
        <4>5. Cardinality({a, b}) = Cardinality({a}) + 1 BY ONLY <4>3, <4>4, Zenon
        <4> QED BY ONLY <4>1, <4>5
      <3> QED BY <1>4, <3>1
    <2> HIDE DEF T
    <2>3. ~ (Cardinality(S) > 1) OBVIOUS
    <2> HIDE DEF S
    <2>4. Cardinality(T) <= Cardinality(S) /\ Cardinality(S) \in Nat
      BY <1>3, <2>1, FS_Subset, FS_CardinalityType
    <2> QED BY <2>2, <2>3, <2>4
  <1>5. Size[i] \in Nat \ {0} BY <1>1, ExchangeAssumption
  <1> QED BY <1>4, <1>5

\* Done of the first side frees cells of its owner and takes none there, so what
\* CheckSpace found for the other side fits still.
LEMMA KeptTrade ==
    ASSUME RInv, NEW p \in Player, TradeDone(p)
    PROVE  KeptOnlyIfUneven'
  <1> DEFINE q == company[p]
             O == Offered(items[p]) \cup Offered(items[q])
             half == Moved(place, p)
  <1>1. /\ company[p] # NoOne /\ place' = Moved(half, q)
        /\ Check(p) /\ Check(q) /\ CheckSpace(p) /\ CheckSpace(q)
        /\ outcome'.kept = {i \in O : place'[i] = place[i]} /\ outcome'.offers = O
    BY DEF TradeDone, Acceptable
  <1>2. q \in Player /\ p # q /\ company[q] = p /\ Offered(items[p]) \cap Offered(items[q]) = {}
    BY <1>1, DealSides, OffersApart
  <1>3. /\ items[p] \in [Slot -> Item \cup {NoItem}] /\ items[q] \in [Slot -> Item \cup {NoItem}]
    BY <1>2 DEF RInv, IInv, SidesOK
  <1>4. /\ \A i \in Offered(items[p]) : i \in Item /\ place[i].owner = p
        /\ \A i \in Offered(items[q]) : i \in Item /\ place[i].owner = q
    <2>1. ASSUME NEW r \in Player, items[r] \in [Slot -> Item \cup {NoItem}], Check(r),
                 NEW i \in Offered(items[r])
          PROVE  i \in Item /\ place[i].owner = r
      <3>1. PICK s \in Slot : items[r][s] = i /\ i # NoItem BY DEF Offered
      <3>2. place[i] = [owner |-> r, cell |-> pos[r][s]] BY <2>1, <3>1 DEF Check
      <3> QED BY <2>1, <3>1, <3>2
    <2> QED BY <1>1, <1>2, <1>3, <2>1
  <1> HIDE DEF q, half, O
  <1> SUFFICES ASSUME NEW i \in O, place'[i] = place[i],
                      ~ (Cardinality({Size[j] : j \in O}) > 1), O \cap Special = {}
               PROVE  FALSE
    BY <1>1 DEF KeptOnlyIfUneven
  <1>5. Size[i] \in Nat \ {0} /\ \A j \in O : Size[j] = Size[i] /\ j \notin Special
    BY <1>3, OneSize DEF O
  <1>6. /\ \A j \in Offered(items[p]) : half[j].owner = q
        /\ \A j \in Item \ Offered(items[p]) : half[j] = place[j]
    BY <1>2, <1>5, <1>1, EvenMoved DEF O, half, q
  <1>7. Used(half, p) \subseteq Used(place, p)
    <2>1. ASSUME NEW j \in Item, half[j].owner = p PROVE half[j] = place[j] /\ place[j].owner = p
      BY <1>2, <1>6, <2>1
    <2> QED BY <2>1 DEF Used
  <1>8. /\ \A j \in Offered(items[q]) : place'[j].owner = p
        /\ \A j \in Item \ Offered(items[q]) : place'[j] = half[j]
    BY <1>1, <1>2, <1>5, <1>7, EvenMoved DEF O
  <1>9. CASE i \in Offered(items[q]) BY <1>2, <1>4, <1>8, <1>9
  <1>10. CASE i \in Offered(items[p])
    <2>1. i \in Item \ Offered(items[q]) BY <1>2, <1>4, <1>10
    <2>2. place'[i].owner = q BY <1>6, <1>8, <1>10, <2>1
    <2> QED BY <1>2, <1>4, <1>10, <2>2
  <1> QED BY <1>9, <1>10 DEF O

\* Only a trade that is made leaves an outcome.
LEMMA KeptNext == RInv /\ KeptOnlyIfUneven /\ [Next]_vars => KeptOnlyIfUneven'
  <1> SUFFICES ASSUME RInv, KeptOnlyIfUneven, [Next]_vars PROVE KeptOnlyIfUneven' OBVIOUS
  <1>1. CASE \E p \in Player : TradeDone(p) BY <1>1, KeptTrade
  <1>2. CASE ~ \E p \in Player : TradeDone(p)
    <2>1. outcome' = outcome
      BY <1>2 DEF Next, vars, ExchangeStart, AddItem, RemoveItem, AddGold, Accept, TradeRefused,
                  Cancel, Other, MoveItem, DropItem, PickupItem, Expire, PointChange
    <2> QED BY <2>1 DEF KeptOnlyIfUneven
  <1> QED BY <1>1, <1>2

\* Something that a trade should have moved stays with its owner only if the offers mix
\* sizes or hold an item of a special inventory: for even offers, the blanks that
\* CheckSpace found one after the other are as good as those Done finds after the first
\* side has moved.
THEOREM KeptOnlyIfUnevenHolds == Spec => []KeptOnlyIfUneven
  BY RInit, RNext, KeptInit, KeptNext, PTL DEF Spec

-----------------------------------------------------------------------------
(* The types.  That an item lands on a cell of the inventory, and that a   *)
(* trade loses no more gold than there was, is the packing and the payment *)

LEMMA CellsOfRooms ==
    /\ RoomOf \in [Item -> SUBSET Nat] /\ \A i \in Item : RoomOf[i] \subseteq Cell
    /\ 0 \in Cell
  BY ExchangeAssumption DEF RoomOf, Cell, DefaultCell, SpecialCell

LEMMA BlankIsCell ==
    ASSUME NEW i \in Item, NEW used, FirstBlank(RoomOf[i], used, Size[i]) # NoCell
    PROVE  FirstBlank(RoomOf[i], used, Size[i]) \in Cell
  <1>1. RoomOf[i] \in SUBSET Nat /\ RoomOf[i] \subseteq Cell BY CellsOfRooms
  <1>2. FirstBlank(RoomOf[i], used, Size[i]) \in Blanks(RoomOf[i], used, Size[i])
    BY <1>1, FirstBlankIs
  <1> QED BY <1>1, <1>2 DEF Blanks

\* Done puts what it moves on cells.
LEMMA MovedPlaces ==
    ASSUME SidesOK, NEW p \in Player, company[p] \in Player, NEW at \in [Item -> Place]
    PROVE  Moved(at, p) \in [Item -> Place]
  <1> DEFINE used == Used(at, company[p])
             cells == Packing(used, items[p], RoomOf)
             moved == {s \in Slot : items[p][s] # NoItem /\ cells[s] # NoCell}
             there(i) == cells[CHOOSE s \in moved : items[p][s] = i]
  <1>1. Moved(at, p) = [i \in Item |->
                          IF \E s \in moved : items[p][s] = i
                          THEN [owner |-> company[p], cell |-> there(i)] ELSE at[i]]
    BY DEF Moved
  <1>2. items[p] \in [Slot -> Item \cup {NoItem}] BY DEF SidesOK
  <1>3. \A s \in Slot : cells[s] = Placed(used, items[p], RoomOf, cells, s)
    <2> HIDE DEF used
    <2> QED BY <1>2, CellsOfRooms, PackingIs
  <1>4. \A s \in moved : s \in Slot /\ items[p][s] # NoItem /\ cells[s] # NoCell OBVIOUS
  <1> HIDE DEF cells, used, moved
  <1>5. \A s \in moved : cells[s] \in Cell
    <2> SUFFICES ASSUME NEW s \in moved PROVE cells[s] \in Cell OBVIOUS
    <2> DEFINE i == items[p][s]
               full == used \cup Taken(items[p], cells, s)
    <2>1. i \in Item BY <1>2, <1>4
    <2>2. cells[s] = FirstBlank(RoomOf[i], full, Size[i]) BY <1>3, <1>4 DEF Placed
    <2> HIDE DEF i, full
    <2> QED BY <1>4, <2>1, <2>2, BlankIsCell
  <1>6. ASSUME NEW i \in Item, \E s \in moved : items[p][s] = i PROVE there(i) \in Cell
    BY <1>5, <1>6
  <1> HIDE DEF there
  <1>7. ASSUME NEW i \in Item
        PROVE  (IF \E s \in moved : items[p][s] = i
                THEN [owner |-> company[p], cell |-> there(i)] ELSE at[i]) \in Place
    BY <1>6 DEF Place
  <1> QED BY <1>1, <1>7

\* What is lost is an offer or both, and those were there.
LEMMA LostInRange ==
    ASSUME RInv, NEW p \in Player, TradeDone(p)
    PROVE  gold[p] + gold[company[p]] - gold'[p] - gold'[company[p]] \in 0 .. 2 * GoldMax
  <1> DEFINE q == company[p]
  <1>1. q \in Player BY DEF RInv, IInv, SidesOK, TradeDone
  <1>2. /\ gold' \in [Player -> 0 .. GoldMax - 1]
        /\ gold'[p] \in {gold[p] - lGold[p], gold[p] - lGold[p] + lGold[q]}
        /\ gold'[q] \in {gold[q] - lGold[q], gold[q] + lGold[p] - lGold[q]}
    BY TradePaid
  <1>3. gold \in [Player -> 0 .. GoldMax - 1] /\ lGold \in [Player -> Nat] BY DEF RInv, GoldOK
  <1> HIDE DEF q
  <1>4. ASSUME NEW a \in 0 .. GoldMax - 1, NEW b \in 0 .. GoldMax - 1, NEW m \in Nat, NEW n \in Nat,
               NEW c \in 0 .. GoldMax - 1, NEW d \in 0 .. GoldMax - 1,
               c \in {a - m, a - m + n}, d \in {b - n, b + m - n}
        PROVE  a + b - c - d \in 0 .. 2 * GoldMax
    BY <1>4, ExchangeAssumption
  <1>5. /\ gold[p] \in 0 .. GoldMax - 1 /\ gold[q] \in 0 .. GoldMax - 1
        /\ gold'[p] \in 0 .. GoldMax - 1 /\ gold'[q] \in 0 .. GoldMax - 1
        /\ lGold[p] \in Nat /\ lGold[q] \in Nat
    BY <1>1, <1>2, <1>3
  <1> QED BY <1>2, <1>4, <1>5 DEF q

LEMMA CancelTypes ==
    ASSUME TypeOK, NEW p \in Player, BothCancel(p)
    PROVE  /\ company' \in [Player -> Player \cup {NoOne}]
           /\ accept' \in [Player -> BOOLEAN]
           /\ items' \in [Player -> [Slot -> Item \cup {NoItem}]]
           /\ pos' \in [Player -> [Slot -> Cell \cup {NoCell}]]
           /\ lGold' \in [Player -> 0 .. GoldMax]
           /\ exchanging' \subseteq Item
  <1> DEFINE both == {p, company[p]}
             released == Offered(items[p]) \cup Offered(items[company[p]])
  <1>1. /\ company' = [q \in Player |-> IF q \in both THEN NoOne ELSE company[q]]
        /\ accept' = [q \in Player |-> accept[q] /\ q \notin both]
        /\ items' = [q \in Player |-> IF q \in both THEN [s \in Slot |-> NoItem] ELSE items[q]]
        /\ pos' = [q \in Player |-> IF q \in both THEN [s \in Slot |-> NoCell] ELSE pos[q]]
        /\ lGold' = [q \in Player |-> IF q \in both THEN 0 ELSE lGold[q]]
        /\ exchanging' = exchanging \ released
    BY DEF BothCancel, CancelSides
  <1> HIDE DEF both, released
  <1>2. 0 \in 0 .. GoldMax BY ExchangeAssumption
  <1> QED BY <1>1, <1>2 DEF TypeOK

LEMMA TypeInit == Init => TypeOK
  <1> SUFFICES ASSUME Init PROVE TypeOK OBVIOUS
  <1>1. 0 \in 0 .. GoldMax /\ 0 \in 0 .. 2 * GoldMax /\ 0 \in 0 .. MaxStart /\ 0 \in 0 .. MaxOther
    BY ExchangeAssumption
  <1> QED BY <1>1, ExchangeAssumption DEF Init, TypeOK, Nothing

LEMMA TradeTypes ==
    ASSUME RInv, TypeOK, NEW p \in Player, TradeDone(p)
    PROVE  TypeOK'
  <1> DEFINE q == company[p]
             offers == Offered(items[p]) \cup Offered(items[q])
             half == Moved(place, p)
  <1>1. /\ company[p] # NoOne /\ BothCancel(p) /\ place' = Moved(half, q)
        /\ outcome' = [kept |-> {i \in offers : place'[i] = place[i]},
                       lost |-> gold[p] + gold[q] - gold'[p] - gold'[q],
                       offers |-> offers, earned |-> earned \cap {p, q}]
        /\ UNCHANGED <<earned, starts, others>>
    BY DEF TradeDone
  <1>2. q \in Player /\ company[q] = p /\ SidesOK BY <1>1 DEF RInv, IInv, SidesOK, Paired
  <1>3. offers \subseteq Item BY <1>2 DEF SidesOK, Offered
  <1>4. place' \in [Item -> Place]
    <2>1. half \in [Item -> Place] BY <1>2, MovedPlaces DEF TypeOK
    <2> HIDE DEF half, q
    <2>2. Moved(half, q) \in [Item -> Place] BY <1>2, <2>1, MovedPlaces
    <2> QED BY <1>1, <2>2
  <1>5. gold' \in [Player -> 0 .. GoldMax - 1] BY TradePaid
  <1>6. gold[p] + gold[q] - gold'[p] - gold'[q] \in 0 .. 2 * GoldMax BY LostInRange
  <1> HIDE DEF half, offers, q
  <1>7. outcome' \in [kept : SUBSET Item, lost : 0 .. 2 * GoldMax,
                      offers : SUBSET Item, earned : SUBSET Player]
    BY <1>1, <1>3, <1>6 DEF TypeOK
  <1> QED BY <1>1, <1>4, <1>5, <1>7, CancelTypes DEF TypeOK

\* What happens besides the trade moves items between cells.
LEMMA OtherTypes ==
    ASSUME TypeOK, Other, place' \in [Item -> Place], gold' \in [Player -> 0 .. GoldMax - 1],
           earned' \subseteq Player
    PROVE  TypeOK'
  <1>1. others' \in 0 .. MaxOther BY ExchangeAssumption DEF Other, TypeOK
  <1> QED BY <1>1 DEF Other, TypeOK

LEMMA TypeNext == RInv /\ TypeOK /\ [Next]_vars => TypeOK'
  <1> SUFFICES ASSUME RInv, TypeOK, [Next]_vars PROVE TypeOK' OBVIOUS
  <1>0. \A i \in Item : /\ place[i].owner \in Player \cup {NoOne, Gone}
                         /\ place[i].cell \in Cell
                         /\ place[i] = [owner |-> place[i].owner, cell |-> place[i].cell]
    BY DEF TypeOK, Place
  <1>1. ASSUME NEW p \in Player, NEW q \in Player, ExchangeStart(p, q) PROVE TypeOK'
    <2>1. starts' \in 0 .. MaxStart BY <1>1, ExchangeAssumption DEF ExchangeStart, TypeOK
    <2> QED BY <1>1, <2>1 DEF ExchangeStart, TypeOK
  <1>2. ASSUME NEW p \in Player, NEW i \in Item, AddItem(p, i) PROVE TypeOK'
    <2>1. PICK s \in Slot : /\ items' = [items EXCEPT ![p][s] = i]
                            /\ pos' = [pos EXCEPT ![p][s] = place[i].cell]
      BY <1>2 DEF AddItem
    <2>2. items' \in [Player -> [Slot -> Item \cup {NoItem}]] BY <2>1 DEF TypeOK
    <2>3. pos' \in [Player -> [Slot -> Cell \cup {NoCell}]] BY <1>0, <2>1 DEF TypeOK
    <2>4. accept' \in [Player -> BOOLEAN] BY <1>2 DEF AddItem, Reopened, TypeOK
    <2> QED BY <1>2, <2>2, <2>3, <2>4 DEF AddItem, TypeOK
  <1>3. ASSUME NEW p \in Player, NEW s \in Slot, RemoveItem(p, s) PROVE TypeOK'
    <2>1. items' \in [Player -> [Slot -> Item \cup {NoItem}]] BY <1>3 DEF RemoveItem, TypeOK
    <2>2. pos' \in [Player -> [Slot -> Cell \cup {NoCell}]] BY <1>3 DEF RemoveItem, TypeOK
    <2>3. accept' \in [Player -> BOOLEAN] BY <1>3 DEF RemoveItem, Reopened, TypeOK
    <2> QED BY <1>3, <2>1, <2>2, <2>3 DEF RemoveItem, TypeOK
  <1>4. ASSUME NEW p \in Player, NEW amount \in 1 .. GoldMax - 1, AddGold(p, amount) PROVE TypeOK'
    <2>1. amount \in 0 .. GoldMax BY ExchangeAssumption
    <2>2. lGold' \in [Player -> 0 .. GoldMax] BY <1>4, <2>1 DEF AddGold, TypeOK
    <2>3. accept' \in [Player -> BOOLEAN] BY <1>4 DEF AddGold, Reopened, TypeOK
    <2> QED BY <1>4, <2>2, <2>3 DEF AddGold, TypeOK
  <1>5. ASSUME NEW p \in Player, Accept(p) PROVE TypeOK' BY <1>5 DEF Accept, TypeOK
  <1>6. ASSUME NEW p \in Player, TradeDone(p) PROVE TypeOK' BY <1>6, TradeTypes
  <1>7. ASSUME NEW p \in Player, TradeRefused(p) \/ Cancel(p) PROVE TypeOK'
    <2>1. BothCancel(p) /\ UNCHANGED <<place, gold, earned, outcome, starts, others>>
      BY <1>7 DEF TradeRefused, Cancel
    <2> QED BY <2>1, CancelTypes DEF TypeOK
  <1>8. ASSUME NEW p \in Player, NEW i \in Item, NEW c \in Cell, MoveItem(p, i, c) PROVE TypeOK'
    <2>0. place[i] = [owner |-> place[i].owner, cell |-> place[i].cell] BY <1>0
    <2>1. [place[i] EXCEPT !.cell = c] = [owner |-> place[i].owner, cell |-> c] BY <2>0
    <2>2. [owner |-> place[i].owner, cell |-> c] \in Place BY <1>0 DEF Place
    <2>3. place' = [place EXCEPT ![i] = [place[i] EXCEPT !.cell = c]] BY <1>8 DEF MoveItem
    <2>4. place' \in [Item -> Place] BY <2>1, <2>2, <2>3 DEF TypeOK
    <2> QED BY <1>8, <2>4, OtherTypes DEF MoveItem, TypeOK
  <1>9. ASSUME NEW p \in Player, NEW i \in Item, DropItem(p, i) PROVE TypeOK'
    <2>1. Ground \in Place BY CellsOfRooms DEF Ground, Place
    <2>2. place' \in [Item -> Place] BY <1>9, <2>1 DEF DropItem, TypeOK
    <2> QED BY <1>9, <2>2, OtherTypes DEF DropItem, TypeOK
  <1>10. ASSUME NEW p \in Player, NEW i \in Item, PickupItem(p, i) PROVE TypeOK'
    <2> DEFINE blank == FirstBlank(RoomOf[i], Used(place, p), Size[i])
    <2>1. blank # NoCell /\ place' = [place EXCEPT ![i] = [owner |-> p, cell |-> blank]]
      BY <1>10 DEF PickupItem
    <2>2. blank \in Cell BY <2>1, BlankIsCell
    <2> HIDE DEF blank
    <2>3. [owner |-> p, cell |-> blank] \in Place BY <2>2 DEF Place
    <2>4. place' \in [Item -> Place] BY <2>1, <2>3 DEF TypeOK
    <2> QED BY <1>10, <2>4, OtherTypes DEF PickupItem, TypeOK
  <1>11. ASSUME NEW i \in Item, Expire(i) PROVE TypeOK'
    <2>1. Destroyed \in Place BY CellsOfRooms DEF Destroyed, Place
    <2>2. place' \in [Item -> Place] BY <1>11, <2>1 DEF Expire, TypeOK
    <2> QED BY <1>11, <2>2, OtherTypes DEF Expire, TypeOK
  <1>12. ASSUME NEW p \in Player, NEW amount \in {-1, 1}, PointChange(p, amount) PROVE TypeOK'
    <2>1. gold' \in [Player -> 0 .. GoldMax - 1] BY <1>12 DEF PointChange, TypeOK
    <2>2. earned' \subseteq Player BY <1>12 DEF PointChange, TypeOK
    <2> QED BY <1>12, <2>1, <2>2, OtherTypes DEF PointChange, TypeOK
  <1>13. CASE UNCHANGED vars BY <1>13 DEF vars, TypeOK
  <1> QED
    BY <1>1, <1>2, <1>3, <1>4, <1>5, <1>6, <1>7, <1>8, <1>9, <1>10, <1>11, <1>12, <1>13 DEF Next

\* Gold stays below its ceiling and items on cells of an inventory, whatever trades, refusals
\* and cancels come in between, and a trade makes no gold.
THEOREM TypeCorrect == Spec => []TypeOK
  BY RInit, RNext, TypeInit, TypeNext, PTL DEF Spec
=============================================================================
