------------------------------ MODULE Exchange ------------------------------
(***************************************************************************)
(* The trade of two players: CExchange of game/src/exchange.cpp, with the  *)
(* handler of its packets in input_main.cpp and what else may happen to    *)
(* the items and the gold of a player while he trades.  The core is one    *)
(* thread, so every handler is one step.                                   *)
(*                                                                         *)
(* An item is the object the pointers of the code name.  The display grid  *)
(* of twelve cells admits an item only while one of the twelve slots is    *)
(* free, so only the slots are kept.  Cells from Cells on are the special   *)
(* inventory, of whose three ranges one is kept.  Dragon soul stones, with  *)
(* an inventory of their own that both CheckSpace and Done use, are left   *)
(* out.                                                                    *)
(***************************************************************************)
EXTENDS Integers, FiniteSets, Sequences

CONSTANTS
    Player, Item,
    NoOne, Gone,    \* no player; the owner of an item that was destroyed
    NoItem, NoCell,
    Bound,          \* items with ITEM_ANTIFLAG_GIVE
    Special,        \* items with a special inventory: books, stones, material
    Size,           \* cells an item takes, one below the other
    Width,          \* INVENTORY_WIDTH
    PageSize,       \* cells of a page
    Cells,          \* INVENTORY_MAX_NUM
    SpecialCells,   \* cells of the special inventory
    MaxSlot,        \* EXCHANGE_ITEM_MAX_NUM
    GoldMax,        \* GOLD_MAX
    Stock, Purse,   \* where the items are and who has how much at first
    MaxStart,       \* bound: trades started
    MaxOther        \* bound: steps besides the trades

DefaultCell == 0 .. Cells - 1
SpecialCell == Cells .. Cells + SpecialCells - 1
Cell == DefaultCell \cup SpecialCell
Slot == 1 .. MaxSlot
Place == [owner : Player \cup {NoOne, Gone}, cell : Cell]
Ground == [owner |-> NoOne, cell |-> 0]
Destroyed == [owner |-> Gone, cell |-> 0]

ASSUME ExchangeAssumption ==
    /\ NoOne \notin Player /\ Gone \notin Player /\ NoOne # Gone
    /\ NoItem \notin Item /\ NoCell \notin Int
    /\ Bound \subseteq Item /\ Special \subseteq Item
    /\ Size \in [Item -> Nat \ {0}] /\ \A i \in Special : Size[i] = 1
    /\ Width \in Nat \ {0} /\ PageSize \in Nat \ {0}
    /\ Cells \in Nat \ {0} /\ SpecialCells \in Nat
    /\ MaxSlot \in Nat \ {0} /\ GoldMax \in Nat \ {0}
    /\ Stock \in [Item -> Place]
    /\ Purse \in [Player -> 0 .. GoldMax - 1]
    /\ MaxStart \in Nat /\ MaxOther \in Nat

VARIABLES
    place,      \* owner and cell of each item
    gold,       \* POINT_GOLD
    company,    \* the other side of the exchange, NoOne without one
    accept,     \* m_bAccept
    items,      \* m_apItems
    pos,        \* m_aItemPos
    lGold,      \* m_lGold
    exchanging, \* items with m_bExchanging
    earned,     \* history: players who earned gold since their trade began
    outcome,    \* history: what the last trade that was made left behind
    starts, others

vars == <<place, gold, company, accept, items, pos, lGold, exchanging, earned, outcome,
          starts, others>>
sides == <<company, accept, items, pos, lGold>>

Nothing == [kept |-> {}, lost |-> 0, offers |-> {}, earned |-> {}]

TypeOK ==
    /\ place \in [Item -> Place]
    /\ gold \in [Player -> 0 .. GoldMax - 1]
    /\ company \in [Player -> Player \cup {NoOne}]
    /\ accept \in [Player -> BOOLEAN]
    /\ items \in [Player -> [Slot -> Item \cup {NoItem}]]
    /\ pos \in [Player -> [Slot -> Cell \cup {NoCell}]]
    /\ lGold \in [Player -> 0 .. GoldMax]
    /\ exchanging \subseteq Item
    /\ earned \subseteq Player
    /\ outcome \in [kept : SUBSET Item, lost : 0 .. 2 * GoldMax,
                    offers : SUBSET Item, earned : SUBSET Player]
    /\ starts \in 0 .. MaxStart
    /\ others \in 0 .. MaxOther

Init ==
    /\ place = Stock
    /\ gold = Purse
    /\ company = [p \in Player |-> NoOne]
    /\ accept = [p \in Player |-> FALSE]
    /\ items = [p \in Player |-> [s \in Slot |-> NoItem]]
    /\ pos = [p \in Player |-> [s \in Slot |-> NoCell]]
    /\ lGold = [p \in Player |-> 0]
    /\ exchanging = {}
    /\ earned = {}
    /\ outcome = Nothing
    /\ starts = 0 /\ others = 0

-----------------------------------------------------------------------------
(* The inventory *)

\* The cells an item of the size takes from the cell c.
Span(c, size) == {c + k * Width : k \in 0 .. size - 1}

\* IsEmptyItemGrid: an item of several cells does not reach over the end of a
\* page of the inventory.
OnPage(c, size) ==
    LET last == c + (size - 1) * Width
    IN  size = 1 \/ (last < Cells /\ last \div PageSize = c \div PageSize)

Blanks(room, used, size) ==
    {c \in room : OnPage(c, size) /\ Span(c, size) \cap used = {}}

FirstBlank(room, used, size) ==
    LET blanks == Blanks(room, used, size)
    IN  IF blanks = {} THEN NoCell ELSE CHOOSE c \in blanks : \A d \in blanks : c <= d

\* Where GetEmptyInventory looks for an item.
RoomOf == [i \in Item |-> IF i \in Special THEN SpecialCell ELSE DefaultCell]

Used(at, p) == UNION {Span(at[i].cell, Size[i]) : i \in {j \in Item : at[j].owner = p}}

Offered(its) == {its[s] : s \in Slot} \ {NoItem}

\* The cells the items get, slot after slot, each in the first blank of its
\* room; NoCell where there is none.
Packing(used, its, room) ==
    LET packed[n \in 0 .. MaxSlot] ==
          IF n = 0 THEN <<>>
          ELSE LET before == packed[n - 1]
                   taken == UNION {Span(before[s], Size[its[s]]) :
                                     s \in {t \in 1 .. n - 1 : before[t] # NoCell}}
               IN  Append(before, IF its[n] = NoItem THEN NoCell
                                  ELSE FirstBlank(room[its[n]], used \cup taken, Size[its[n]]))
    IN  packed[MaxSlot]

-----------------------------------------------------------------------------
(* CExchange *)

ExchangeStart(p, victim) ==
    /\ starts < MaxStart
    /\ p # victim /\ gold[p] < GoldMax
    /\ company[p] = NoOne /\ company[victim] = NoOne
    /\ company' = [company EXCEPT ![p] = victim, ![victim] = p]
    /\ earned' = earned \ {p, victim}
    /\ starts' = starts + 1
    /\ UNCHANGED <<place, gold, accept, items, pos, lGold, exchanging, outcome, others>>

\* An offer may change while the other side has not accepted.
MayChange(p) == company[p] # NoOne /\ ~accept[company[p]]

\* mutant: who changes his offer stays bound to it
ReopenedOther(p) == [accept EXCEPT ![company[p]] = FALSE]

Reopened(p) == [accept EXCEPT ![p] = FALSE, ![company[p]] = FALSE]

AddItem(p, i) ==
    /\ MayChange(p)
    /\ place[i].owner = p /\ i \notin Bound \cup exchanging
    /\ \E s \in Slot :
          /\ items[p][s] = NoItem /\ \A t \in 1 .. s - 1 : items[p][t] # NoItem
          /\ items' = [items EXCEPT ![p][s] = i]
          /\ pos' = [pos EXCEPT ![p][s] = place[i].cell]
    /\ exchanging' = exchanging \cup {i}
    /\ accept' = Reopened(p)
    /\ UNCHANGED <<place, gold, company, lGold, earned, outcome, starts, others>>

RemoveItem(p, s) ==
    /\ MayChange(p)
    /\ items[p][s] # NoItem
    /\ exchanging' = exchanging \ {items[p][s]}
    /\ items' = [items EXCEPT ![p][s] = NoItem]
    /\ pos' = [pos EXCEPT ![p][s] = NoCell]
    /\ accept' = Reopened(p)
    /\ UNCHANGED <<place, gold, company, lGold, earned, outcome, starts, others>>

AddGold(p, amount) ==
    /\ MayChange(p)
    /\ gold[company[p]] + amount < GoldMax
    /\ amount > 0 /\ gold[p] >= amount /\ lGold[p] = 0
    /\ lGold' = [lGold EXCEPT ![p] = amount]
    /\ accept' = Reopened(p)
    /\ UNCHANGED <<place, gold, company, items, pos, exchanging, earned, outcome, starts, others>>

\* The offer is still there.  An item that is gone is no longer at its cell.
Check(p) ==
    /\ gold[p] >= lGold[p]
    /\ \A s \in Slot : items[p][s] # NoItem =>
          place[items[p][s]] = [owner |-> p, cell |-> pos[p][s]]

\* mutant
CheckSpaceNot(p) == TRUE

\* CheckSpace: tried on the company's inventory as it is now, and never on its
\* special inventory.
CheckSpace(p) ==
    LET cells == Packing(Used(place, company[p]), items[p], [i \in Item |-> DefaultCell])
    IN  \A s \in Slot : items[p][s] # NoItem => cells[s] # NoCell

\* PointChange(POINT_GOLD): an amount that would reach GOLD_MAX is refused.
GoldPoint(have, amount) == IF have + amount < GoldMax THEN have + amount ELSE have

\* The places after Done of p: an item without a blank stays where it is.
Moved(at, p) ==
    LET cells == Packing(Used(at, company[p]), items[p], RoomOf)
        moved == {s \in Slot : items[p][s] # NoItem /\ cells[s] # NoCell}
    IN  [i \in Item |->
           IF \E s \in moved : items[p][s] = i
           THEN [owner |-> company[p],
                 cell |-> cells[CHOOSE s \in moved : items[p][s] = i]]
           ELSE at[i]]

\* mutant: the company is not paid
PaidOne(purse, p) == [purse EXCEPT ![p] = GoldPoint(@, -lGold[p])]

Paid(purse, p) ==
    [purse EXCEPT ![p] = GoldPoint(@, -lGold[p]), ![company[p]] = GoldPoint(@, lGold[p])]

\* The sides are deleted and the items released.
CancelSides(both, released) ==
    /\ company' = [q \in Player |-> IF q \in both THEN NoOne ELSE company[q]]
    /\ accept' = [q \in Player |-> accept[q] /\ q \notin both]
    /\ items' = [q \in Player |-> IF q \in both THEN [s \in Slot |-> NoItem] ELSE items[q]]
    /\ pos' = [q \in Player |-> IF q \in both THEN [s \in Slot |-> NoCell] ELSE pos[q]]
    /\ lGold' = [q \in Player |-> IF q \in both THEN 0 ELSE lGold[q]]
    /\ exchanging' = exchanging \ released

\* mutant: the other side's Cancel is not called
OneCancel(p) == CancelSides({p}, Offered(items[p]))

\* mutant: the items of the company stay locked
CancelOwnItems(p) == CancelSides({p, company[p]}, Offered(items[p]))

\* Cancel calls the Cancel of the company.
BothCancel(p) ==
    CancelSides({p, company[p]}, Offered(items[p]) \cup Offered(items[company[p]]))

\* The first to accept.
Accept(p) ==
    /\ company[p] # NoOne /\ ~accept[p] /\ ~accept[company[p]]
    /\ accept' = [accept EXCEPT ![p] = TRUE]
    /\ UNCHANGED <<place, gold, company, items, pos, lGold, exchanging, earned, outcome,
                   starts, others>>

\* What the checks of Accept ask when both have accepted, as far as the
\* exchange goes; a running quest or a lost daemon refuses it at any time.
Acceptable(p) ==
    /\ Check(p) /\ CheckSpace(p)
    /\ Check(company[p]) /\ CheckSpace(company[p])

TradeDone(p) ==
    /\ company[p] # NoOne /\ ~accept[p] /\ accept[company[p]]
    /\ Acceptable(p)
    /\ place' = Moved(Moved(place, p), company[p])
    /\ gold' = Paid(Paid(gold, p), company[p])
    /\ outcome' =
         LET q == company[p]
             offers == Offered(items[p]) \cup Offered(items[q])
         IN  [kept |-> {i \in offers : place'[i] = place[i]},
              lost |-> gold[p] + gold[q] - gold'[p] - gold'[q],
              offers |-> offers,
              earned |-> earned \cap {p, q}]
    /\ BothCancel(p)
    /\ UNCHANGED <<earned, starts, others>>

TradeRefused(p) ==
    /\ company[p] # NoOne /\ ~accept[p] /\ accept[company[p]]
    /\ BothCancel(p)
    /\ UNCHANGED <<place, gold, earned, outcome, starts, others>>

\* The client's cancel; also when a player walks away, dies or leaves.
Cancel(p) ==
    /\ company[p] # NoOne
    /\ BothCancel(p)
    /\ UNCHANGED <<place, gold, earned, outcome, starts, others>>

-----------------------------------------------------------------------------
(* Besides the trade *)

Other ==
    /\ others < MaxOther /\ others' = others + 1
    /\ UNCHANGED <<company, accept, items, pos, lGold, exchanging, outcome, starts>>

MoveItem(p, i, c) ==
    /\ Other
    /\ place[i].owner = p /\ i \notin exchanging
    /\ c \in Blanks(RoomOf[i], Used([place EXCEPT ![i] = Ground], p), Size[i])
    /\ place' = [place EXCEPT ![i].cell = c]
    /\ UNCHANGED <<gold, earned>>

DropItem(p, i) ==
    /\ Other
    /\ place[i].owner = p /\ i \notin exchanging \cup Bound
    /\ place' = [place EXCEPT ![i] = Ground]
    /\ UNCHANGED <<gold, earned>>

PickupItem(p, i) ==
    /\ Other
    /\ place[i] = Ground
    /\ LET blank == FirstBlank(RoomOf[i], Used(place, p), Size[i])
       IN  /\ blank # NoCell
           /\ place' = [place EXCEPT ![i] = [owner |-> p, cell |-> blank]]
    /\ UNCHANGED <<gold, earned>>

\* real_time_expire_event: an item of limited time goes wherever it is.
Expire(i) ==
    /\ Other
    /\ place[i].owner \in Player
    /\ place' = [place EXCEPT ![i] = Destroyed]
    /\ UNCHANGED <<gold, earned>>

PointChange(p, amount) ==
    /\ Other
    /\ gold[p] + amount \in 0 .. GoldMax - 1
    /\ gold' = [gold EXCEPT ![p] = @ + amount]
    /\ earned' = IF amount > 0 THEN earned \cup {p} ELSE earned
    /\ UNCHANGED place

Next ==
    \/ \E p, q \in Player : ExchangeStart(p, q)
    \/ \E p \in Player, i \in Item : AddItem(p, i)
    \/ \E p \in Player, s \in Slot : RemoveItem(p, s)
    \/ \E p \in Player, amount \in 1 .. GoldMax - 1 : AddGold(p, amount)
    \/ \E p \in Player : Accept(p)
    \/ \E p \in Player : TradeDone(p)
    \/ \E p \in Player : TradeRefused(p)
    \/ \E p \in Player : Cancel(p)
    \/ \E p \in Player, i \in Item, c \in Cell : MoveItem(p, i, c)
    \/ \E p \in Player, i \in Item : DropItem(p, i)
    \/ \E p \in Player, i \in Item : PickupItem(p, i)
    \/ \E i \in Item : Expire(i)
    \/ \E p \in Player, amount \in {-1, 1} : PointChange(p, amount)

Spec == Init /\ [][Next]_vars

-----------------------------------------------------------------------------
(* Properties *)

\* The two sides of a trade point at each other, and a trade both have
\* accepted is over: Accept makes it or cancels it in the same call, whichever
\* way a side ended.
Paired ==
    \A p \in Player : company[p] # NoOne =>
        /\ company[p] # p
        /\ company[company[p]] = p
        /\ ~(accept[p] /\ accept[company[p]])

\* An item is locked against use, moving and a second offer exactly while it
\* stands in an offer: no way a trade ends leaves an item locked, none
\* unlocks one that is offered elsewhere.
LockedIsOffered ==
    exchanging = UNION {Offered(items[p]) : p \in Player}

\* Something a trade should have moved stays behind only in two cases: the
\* offers mix sizes (CheckSpace tried the second side before the first had
\* moved, and the first blanks it found need not be the ones Done finds), or an
\* item of a special inventory is offered (CheckSpace looks for room in the
\* default one).
KeptOnlyIfUneven ==
    outcome.kept # {} =>
        \/ Cardinality({Size[i] : i \in outcome.offers}) > 1
        \/ outcome.offers \cap Special # {}

\* Gold gets lost in a trade only if a side earned some after the trade began:
\* the ceiling is checked when gold is offered, not when it is handed over.
LostOnlyIfEarned == outcome.lost # 0 => outcome.earned # {}

\* The trade implements Swap: consent of both to what changes hands, in one step.
Deal(p) ==
    [with |-> company[p], items |-> Offered(items[p]), gold |-> lGold[p], agreed |-> accept[p]]

Contract == INSTANCE Swap WITH
    owner <- [i \in Item |-> IF place[i].owner \in Player THEN place[i].owner ELSE NoOne],
    deal <- [p \in Player |-> Deal(p)]

\* Nothing changes hands but by the consent of both to the offers as they are,
\* all of the last side's offer and the other's but for what has no room.
ImplementsSwap == Contract!Spec
=============================================================================
