--------------------------- MODULE ItemCache_proofs ---------------------------
(***************************************************************************)
(* Proofs about the item cache, for any finite sets of players and items,  *)
(* any bounds and any choice of the environment's switches.                *)
(*                                                                         *)
(* TypeOK is not inductive: a row is written from a queued statement, the  *)
(* statement from an entry, the entry from an item object, so TypeInv adds *)
(* what each of them owes the next.                                        *)
(*                                                                         *)
(* That the last save wins rests on who is to write what: RowAt is the row *)
(* a statement of the queue will find, and SyncInv compares it with what   *)
(* was sent, for the reads under way and for the end of the queue.  It is  *)
(* proved for the environments Orderly describes; the others break it.     *)
(***************************************************************************)
EXTENDS ItemCache, FiniteSetTheorems, WellFoundedInduction, TLAPS

\* An item object; one that a player holds is not deleted.
Object ==
  {o \in [at : Holder, last : Player \cup {NoOne}, box : BOOLEAN, ver : 0..MaxVer] :
     o.at \in Player => o.ver # 0}

\* An entry; one that is not deleted has an owner.
Entry ==
  {e \in [owner : Player \cup {NoOne}, ver : 0..MaxVer, dirty : BOOLEAN,
          since : SUBSET Player] :
     e.ver # 0 => e.owner \in Player}

\* A statement; a write names an item and a row, a read names a player.
Statement ==
  {m \in [op : Op, item : Item \cup {NoOne}, to : To, owner : Player \cup {NoOne},
          ver : 0..MaxVer] :
     /\ m.op = "write" => m.item \in Item /\ [owner |-> m.owner, ver |-> m.ver] \in Value
     /\ m.op \in {"player", "item"} => m.owner \in Player}

Result == [op : {"player", "item"}, owner : Player, to : To,
           rows : [Item -> 0..MaxVer]]

GameInv == item \in [Item -> Object] /\ unsaved \subseteq Item
SessionInv ==
  /\ phase \in [Player -> {"off", "select", "game", "closing"}]
  /\ loaded \subseteq Player
  /\ logins \in [Player -> 0..MaxLogin]
  /\ crashes \in 0..MaxCrash
LoginInv == play \subseteq Player /\ ptab \subseteq Player /\ leaving \subseteq Player
CacheInv ==
  /\ cached \subseteq Item
  /\ entry \in [Item -> Entry]
  /\ hasSet \subseteq Player
  /\ set \in [Player -> SUBSET Item]
SqlInv ==
  /\ row \in [Item -> Value]
  /\ main \in Seq(Statement)
  /\ async \in Seq(Item)
  /\ res \in Seq(Result)
SentInv == sent \in [Item -> Value]

TypeInv == GameInv /\ SessionInv /\ LoginInv /\ CacheInv /\ SqlInv /\ SentInv

-----------------------------------------------------------------------------
(* Records and sequences *)

LEMMA TypeInvImpliesTypeOK == TypeInv => TypeOK
<1> SUFFICES ASSUME TypeInv PROVE TypeOK
  OBVIOUS
<1>1. /\ item \in [Item -> [at : Holder, last : Player \cup {NoOne}, box : BOOLEAN,
                            ver : 0..MaxVer]]
      /\ unsaved \subseteq Item
  BY DEF TypeInv, GameInv, Object
<1>2. entry \in [Item -> [owner : Player \cup {NoOne}, ver : 0..MaxVer,
                          dirty : BOOLEAN, since : SUBSET Player]]
  BY DEF TypeInv, CacheInv, Entry
<1>3. main \in Seq([op : Op, item : Item \cup {NoOne}, to : To,
                    owner : Player \cup {NoOne}, ver : 0..MaxVer])
  <2> DEFINE M == [op : Op, item : Item \cup {NoOne}, to : To,
                   owner : Player \cup {NoOne}, ver : 0..MaxVer]
  <2>1. Statement \subseteq M
    BY DEF Statement
  <2>2. main \in Seq(Statement)
    BY DEF TypeInv, SqlInv
  <2> HIDE DEF M
  <2>3. main \in Seq(M)
    BY <2>1, <2>2
  <2> QED
    BY <2>3 DEF M
<1>4. {loaded, play, ptab, leaving, hasSet} \subseteq SUBSET Player
  BY DEF TypeInv, SessionInv, LoginInv, CacheInv
<1> QED
  BY <1>1, <1>2, <1>3, <1>4
  DEF TypeInv, SessionInv, CacheInv, SqlInv, SentInv, Result, TypeOK

\* The write of a well-typed entry is a well-typed statement, and the row it
\* leaves is a row.
LEMMA OnFlushType ==
  ASSUME NEW i \in Item, NEW e \in Entry
  PROVE  OnFlush(i, e) \in Statement
<1>1. e.owner \in Player \cup {NoOne} /\ e.ver \in 0..MaxVer
      /\ (e.ver # 0 => e.owner \in Player)
  BY DEF Entry
<1>2. [owner |-> IF e.ver = 0 THEN NoOne ELSE e.owner, ver |-> e.ver] \in Value
  BY <1>1, CacheAssumption DEF Value, Gone
<1> QED
  BY <1>1, <1>2 DEF OnFlush, Statement, Op, To

LEMMA SelectType ==
  ASSUME NEW p \in Player, NEW kind \in {"player", "item"}
  PROVE  Select(kind, p) \in Statement
  BY CacheAssumption DEF Select, Statement, Op, To

\* Answering queries to somebody else leaves a queue a queue.
LEMMA RedirectMain ==
  ASSUME NEW q \in Seq(Statement), NEW S, NEW t \in To
  PROVE  Redirect(q, S, t) \in Seq(Statement)
<1>1. ASSUME NEW m \in Statement PROVE [m EXCEPT !.to = t] \in Statement
  <2>1. /\ [m EXCEPT !.to = t].op = m.op
        /\ [m EXCEPT !.to = t].item = m.item
        /\ [m EXCEPT !.to = t].owner = m.owner
        /\ [m EXCEPT !.to = t].ver = m.ver
    BY DEF Statement
  <2>2. [m EXCEPT !.to = t] \in [op : Op, item : Item \cup {NoOne}, to : To,
                                 owner : Player \cup {NoOne}, ver : 0..MaxVer]
    BY DEF Statement
  <2> QED
    BY <2>1, <2>2 DEF Statement
<1>2. Redirect(q, S, t) \in [1..Len(q) -> Statement]
  BY <1>1 DEF Redirect
<1> QED
  BY <1>2

LEMMA RedirectRes ==
  ASSUME NEW q \in Seq(Result), NEW S, NEW t \in To
  PROVE  Redirect(q, S, t) \in Seq(Result)
<1>1. ASSUME NEW m \in Result PROVE [m EXCEPT !.to = t] \in Result
  BY DEF Result
<1>2. Redirect(q, S, t) \in [1..Len(q) -> Result]
  BY <1>1 DEF Redirect
<1> QED
  BY <1>2

\* However a set of entries is ordered, their writes are a queue.
LEMMA FlushOrdersType ==
  ASSUME CacheInv, NEW S \in SUBSET Item, NEW w \in FlushOrders(S)
  PROVE  w \in Seq(Statement)
<1>1. IsFiniteSet(Dirty(S)) /\ Dirty(S) \subseteq Item
  BY CacheAssumption, FS_Subset DEF Dirty
<1>2. Cardinality(Dirty(S)) \in Nat
  BY <1>1, FS_CardinalityType
<1>3. PICK q \in [1..Cardinality(Dirty(S)) -> Dirty(S)] :
        w = [k \in DOMAIN q |-> OnFlush(q[k], entry[q[k]])]
  BY DEF FlushOrders, SetToSeqs
<1>4. \A k \in DOMAIN q : OnFlush(q[k], entry[q[k]]) \in Statement
  BY <1>1, <1>3, OnFlushType DEF CacheInv
<1>5. w \in [1..Cardinality(Dirty(S)) -> Statement]
  BY <1>3, <1>4
<1> QED
  BY <1>2, <1>5

-----------------------------------------------------------------------------
(* The daemon's helpers keep its state well typed *)

\* Regrouping items gives every owner a set of items.
LEMMA RegroupType ==
  ASSUME CacheInv, NEW R \in SUBSET Item, NEW o, NEW known
  PROVE  Regroup(R, o, known) \in [Player -> SUBSET Item]
  BY DEF CacheInv, Regroup

LEMMA CleanType ==
  ASSUME CacheInv, NEW S
  PROVE  Clean(S) \in [Item -> Entry]
<1>1. ASSUME NEW e \in Entry
      PROVE  [e EXCEPT !.dirty = FALSE, !.since = {}] \in Entry
  BY DEF Entry
<1> QED
  BY <1>1 DEF CacheInv, Clean

\* A save of a player's item.
LEMMA PutItemCacheType ==
  ASSUME CacheInv, SqlInv,
         NEW i \in Item, NEW o \in Player, NEW v \in 1..MaxVer,
         PutItemCache(i, o, v)
  PROVE  CacheInv' /\ main' \in Seq(Statement)
<1> DEFINE old == IF i \in cached /\ entry[i].dirty THEN entry[i].since ELSE {}
           e == [owner |-> o, ver |-> v, dirty |-> o \in hasSet,
                 since |-> IF o \in hasSet THEN old ELSE {}]
<1>1. old \in SUBSET Player
  BY DEF CacheInv, Entry
<1>2. e \in Entry
  <2>1. v \in 0..MaxVer /\ v # 0
    BY CacheAssumption
  <2>2. (o \in hasSet) \in BOOLEAN
    OBVIOUS
  <2> HIDE DEF old
  <2> QED
    BY <1>1, <2>1, <2>2 DEF Entry
<1>3. /\ cached' = cached \cup {i}
      /\ entry' = [entry EXCEPT ![i] = e]
      /\ set' = Regroup({i}, o, hasSet)
      /\ main' = IF o \in hasSet THEN main ELSE Append(main, OnFlush(i, e))
      /\ hasSet' = hasSet
  BY DEF PutItemCache
<1> HIDE DEF e
<1>4. OnFlush(i, e) \in Statement
  BY <1>2, OnFlushType
<1>5. set' \in [Player -> SUBSET Item]
  BY <1>3, RegroupType
<1>6. main' \in Seq(Statement)
  BY <1>3, <1>4 DEF SqlInv
<1> QED
  BY <1>2, <1>3, <1>5, <1>6 DEF CacheInv

LEMMA FlushItemCacheSetType ==
  ASSUME CacheInv, SqlInv, NEW p \in Player, FlushItemCacheSet(p)
  PROVE  CacheInv' /\ main' \in Seq(Statement)
<1>1. CASE p \notin hasSet
  BY <1>1 DEF FlushItemCacheSet, cacheVars, CacheInv, SqlInv
<1>2. CASE p \in hasSet
  <2>1. PICK w \in FlushOrders(set[p]) : main' = main \o w
    BY <1>2 DEF FlushItemCacheSet
  <2>2. set[p] \in SUBSET Item
    BY DEF CacheInv
  <2>3. w \in Seq(Statement)
    BY <2>1, <2>2, FlushOrdersType
  <2>4. main' \in Seq(Statement)
    BY <2>1, <2>3 DEF SqlInv
  <2>5. entry' \in [Item -> Entry]
    BY <1>2, CleanType DEF FlushItemCacheSet
  <2> QED
    BY <1>2, <2>4, <2>5 DEF FlushItemCacheSet, CacheInv
<1> QED
  BY <1>1, <1>2

LEMMA QUERY_ITEM_SAVEType ==
  ASSUME CacheInv, SqlInv, SentInv,
         NEW i \in Item, NEW o \in Player, NEW v \in 1..MaxVer,
         QUERY_ITEM_SAVE(i, o, v)
  PROVE  CacheInv' /\ SqlInv' /\ SentInv'
<1>1. CacheInv' /\ main' \in Seq(Statement)
  BY PutItemCacheType DEF QUERY_ITEM_SAVE
<1>2. [owner |-> o, ver |-> v] \in Value
  BY DEF Value
<1>3. sent' \in [Item -> Value]
  BY <1>2 DEF QUERY_ITEM_SAVE, SentInv
<1> QED
  BY <1>1, <1>3 DEF QUERY_ITEM_SAVE, SqlInv, SentInv

LEMMA SafeboxSaveType ==
  ASSUME CacheInv, SqlInv, SentInv, NEW i \in Item, QUERY_ITEM_SAVE_Safebox(i)
  PROVE  CacheInv' /\ SqlInv' /\ SentInv'
<1>1. [op |-> "refused", item |-> i, to |-> "nopeer", owner |-> NoOne, ver |-> 0]
        \in Statement
  BY CacheAssumption DEF Statement, Op, To
<1>2. main' \in Seq(Statement)
  BY <1>1 DEF QUERY_ITEM_SAVE_Safebox, SqlInv
<1>3. sent' \in [Item -> Value]
  BY DEF QUERY_ITEM_SAVE_Safebox, SentInv, Value
<1>4. CacheInv'
  BY DEF QUERY_ITEM_SAVE_Safebox, CacheInv
<1> QED
  BY <1>2, <1>3, <1>4 DEF QUERY_ITEM_SAVE_Safebox, SqlInv, SentInv

LEMMA QUERY_ITEM_DESTROYType ==
  ASSUME CacheInv, SqlInv, SentInv, NEW i \in Item, NEW last,
         QUERY_ITEM_DESTROY(i, last)
  PROVE  CacheInv' /\ SqlInv' /\ SentInv'
<1> DEFINE e == [entry[i] EXCEPT !.ver = 0, !.dirty = FALSE, !.since = {}]
<1>1. e \in Entry
  <2>1. ASSUME NEW x \in Entry
        PROVE  [x EXCEPT !.ver = 0, !.dirty = FALSE, !.since = {}] \in Entry
    <3> DEFINE y == [x EXCEPT !.ver = 0, !.dirty = FALSE, !.since = {}]
    <3>1. 0 \in 0..MaxVer
      BY CacheAssumption
    <3>2. y.ver = 0
      BY DEF Entry
    <3>3. y \in [owner : Player \cup {NoOne}, ver : 0..MaxVer, dirty : BOOLEAN,
                 since : SUBSET Player]
      BY <3>1 DEF Entry
    <3> QED
      BY <3>2, <3>3 DEF Entry
  <2> QED
    BY <2>1 DEF CacheInv
<1>2. /\ \/ main' = main
         \/ main' = Append(main, OnFlush(i, e))
      /\ async' = async \/ async' = Append(async, i)
      /\ entry' = entry \/ entry' = [entry EXCEPT ![i] = e]
      /\ sent' = [sent EXCEPT ![i] = Gone]
      /\ cached' = cached /\ hasSet' = hasSet /\ set' = set
      /\ row' = row /\ res' = res
  BY DEF QUERY_ITEM_DESTROY
<1> HIDE DEF e
<1>3. OnFlush(i, e) \in Statement
  BY <1>1, OnFlushType
<1>4. main' \in Seq(Statement) /\ async' \in Seq(Item)
  <2>1. main \in Seq(Statement) /\ async \in Seq(Item)
    BY DEF SqlInv
  <2>2. Append(main, OnFlush(i, e)) \in Seq(Statement)
    BY <1>3, <2>1
  <2>3. Append(async, i) \in Seq(Item)
    BY <2>1
  <2> QED
    BY <1>2, <2>1, <2>2, <2>3
<1>5. sent' \in [Item -> Value]
  BY <1>2 DEF SentInv, Value
<1>6. CacheInv'
  BY <1>1, <1>2 DEF CacheInv
<1> QED
  BY <1>2, <1>4, <1>5, <1>6 DEF SqlInv, SentInv

\* What a player holds is an object.
LEMMA AddToCharacterType ==
  ASSUME NEW p \in Player, NEW v \in 1..MaxVer
  PROVE  AddToCharacter(p, v) \in Object
<1>1. v \in 0..MaxVer /\ v # 0
  BY CacheAssumption
<1> QED
  BY <1>1 DEF AddToCharacter, Object, Holder

\* Items sent to a core become objects their player holds.
LEMMA ItemLoadType ==
  ASSUME GameInv, NEW p \in Player, NEW S, NEW v,
         \A i \in S : v[i] \in 1..MaxVer,
         ItemLoad(p, S, v)
  PROVE  item' \in [Item -> Object]
<1>1. \A i \in S : AddToCharacter(p, v[i]) \in Object
  BY AddToCharacterType
<1> QED
  BY <1>1 DEF ItemLoad, GameInv

-----------------------------------------------------------------------------
(* Type correctness, one lemma per group of actions *)

\* The daemon's timers and FLUSH_CACHE.
LEMMA TimersType ==
  ASSUME TypeInv
  PROVE  /\ \A i \in Item : UpdateItemCache(i) => TypeInv'
         /\ \A p \in Player : UpdatePlayerCache(p) => TypeInv'
         /\ \A p \in Player : UpdateLogoutPlayer(p) => TypeInv'
         /\ \A p \in Player : QUERY_FLUSH_CACHE(p) => TypeInv'
<1> USE DEF TypeInv
<1>1. ASSUME NEW i \in Item, UpdateItemCache(i) PROVE TypeInv'
  <2>1. OnFlush(i, entry[i]) \in Statement
    BY OnFlushType DEF CacheInv
  <2>2. main' \in Seq(Statement)
    BY <1>1, <2>1 DEF UpdateItemCache, SqlInv
  <2>3. entry' \in [Item -> Entry]
    BY <1>1, CleanType DEF UpdateItemCache
  <2>4. CacheInv' /\ SqlInv'
    BY <1>1, <2>2, <2>3 DEF UpdateItemCache, CacheInv, SqlInv
  <2> QED
    BY <1>1, <2>4 DEF UpdateItemCache, gameVars, sessionVars, loginVars, GameInv,
       SessionInv, LoginInv, SentInv
<1>2. ASSUME NEW p \in Player, UpdatePlayerCache(p) PROVE TypeInv'
  <2>1. PICK w \in FlushOrders(set[p]) : main' = main \o w
    BY <1>2 DEF UpdatePlayerCache
  <2>2. set[p] \in SUBSET Item
    BY DEF CacheInv
  <2>3. w \in Seq(Statement)
    BY <2>1, <2>2, FlushOrdersType
  <2>4. main' \in Seq(Statement)
    BY <2>1, <2>3 DEF SqlInv
  <2>5. entry' \in [Item -> Entry]
    BY <1>2, CleanType DEF UpdatePlayerCache
  <2>6. CacheInv' /\ SqlInv'
    BY <1>2, <2>4, <2>5 DEF UpdatePlayerCache, CacheInv, SqlInv
  <2> QED
    BY <1>2, <2>6 DEF UpdatePlayerCache, gameVars, sessionVars, loginVars, GameInv,
       SessionInv, LoginInv, SentInv
<1>3. ASSUME NEW p \in Player, UpdateLogoutPlayer(p) \/ QUERY_FLUSH_CACHE(p)
      PROVE  TypeInv'
  <2>1. CacheInv' /\ main' \in Seq(Statement)
    BY <1>3, FlushItemCacheSetType DEF UpdateLogoutPlayer, QUERY_FLUSH_CACHE
  <2>2. SqlInv'
    BY <1>3, <2>1 DEF UpdateLogoutPlayer, QUERY_FLUSH_CACHE, SqlInv
  <2>3. LoginInv'
    BY <1>3 DEF UpdateLogoutPlayer, QUERY_FLUSH_CACHE, LoginInv
  <2> QED
    BY <1>3, <2>1, <2>2, <2>3 DEF UpdateLogoutPlayer, QUERY_FLUSH_CACHE, gameVars,
       sessionVars, GameInv, SessionInv, SentInv
<1> QED
  BY <1>1, <1>2, <1>3

\* What changes only the core's objects.
LEMMA ObjectsType ==
  ASSUME TypeInv, NEW p, NEW i \in Item,
         \/ DropNew(i)
         \/ p \in Player /\ (CreateItem(p, i) \/ Change(p, i) \/ PickupItem(p, i))
  PROVE  TypeInv'
<1> USE CacheAssumption DEF TypeInv
<1>1. /\ item[i].at \in Holder /\ item[i].last \in Player \cup {NoOne}
      /\ item[i].box \in BOOLEAN /\ item[i].ver \in 0..MaxVer
  BY DEF GameInv, Object
<1>2. CASE p \in Player /\ CreateItem(p, i)
  <2>1. AddToCharacter(p, 1) \in Object
    BY <1>2, AddToCharacterType
  <2>2. GameInv'
    BY <1>2, <2>1 DEF CreateItem, GameInv
  <2> QED
    BY <1>2, <2>2 DEF CreateItem, sessionVars, loginVars, cacheVars, sqlVars,
       SessionInv, LoginInv, CacheInv, SqlInv, SentInv
<1>3. CASE DropNew(i)
  <2>1. [at |-> Ground, last |-> NoOne, box |-> FALSE, ver |-> 1] \in Object
    BY DEF Object, Holder
  <2>2. GameInv'
    BY <1>3, <2>1 DEF DropNew, GameInv
  <2> QED
    BY <1>3, <2>2 DEF DropNew, sessionVars, loginVars, cacheVars, sqlVars,
       SessionInv, LoginInv, CacheInv, SqlInv, SentInv
<1>4. CASE Change(p, i)
  <2>1. item[i].ver + 1 \in 0..MaxVer /\ item[i].ver + 1 # 0
    BY <1>1, <1>4 DEF Change
  <2>2. [item[i] EXCEPT !.ver = item[i].ver + 1] \in Object
    <3> DEFINE o == [item[i] EXCEPT !.ver = item[i].ver + 1]
    <3>1. item[i] \in [at : Holder, last : Player \cup {NoOne}, box : BOOLEAN,
                       ver : 0..MaxVer]
      BY DEF GameInv, Object
    <3>2. o.ver # 0
      BY <3>1, <2>1
    <3>3. o \in [at : Holder, last : Player \cup {NoOne}, box : BOOLEAN,
                 ver : 0..MaxVer]
      BY <3>1, <2>1
    <3> QED
      BY <3>2, <3>3 DEF Object
  <2>3. item' = [item EXCEPT ![i] = [item[i] EXCEPT !.ver = item[i].ver + 1]]
    BY <1>4 DEF Change, GameInv
  <2>4. GameInv'
    BY <1>4, <2>2, <2>3 DEF Change, GameInv
  <2> QED
    BY <1>4, <2>4 DEF Change, sessionVars, loginVars, cacheVars, sqlVars,
       SessionInv, LoginInv, CacheInv, SqlInv, SentInv
<1>5. CASE p \in Player /\ PickupItem(p, i)
  <2>1. AddToCharacter(p, item[i].ver + 1) \in Object
    BY <1>1, <1>5, AddToCharacterType DEF PickupItem
  <2>2. GameInv'
    BY <1>5, <2>1 DEF PickupItem, GameInv
  <2> QED
    BY <1>5, <2>2 DEF PickupItem, sessionVars, loginVars, cacheVars, sqlVars,
       SessionInv, LoginInv, CacheInv, SqlInv, SentInv
<1> QED
  BY <1>2, <1>3, <1>4, <1>5

\* What changes an object and tells the daemon.
LEMMA SavesType ==
  ASSUME TypeInv, NEW p, NEW q, NEW i \in Item,
         \/ DestroyItem(i) \/ SaveSingleItem(i)
         \/ p \in Player /\ q \in Player /\ Exchange(p, q, i)
         \/ p \in Player /\ (DropItem(p, i) \/ SafeboxCheckin(p, i)
                             \/ SafeboxCheckout(p, i))
  PROVE  TypeInv'
<1> USE DEF TypeInv
<1>1. /\ item[i] \in [at : Holder, last : Player \cup {NoOne}, box : BOOLEAN,
                      ver : 0..MaxVer]
      /\ item[i].at \in Player => item[i].ver \in 1..MaxVer
  BY CacheAssumption DEF GameInv, Object
<1>2. ASSUME NEW at \in {NoOne, Ground}
      PROVE  [item EXCEPT ![i].at = at] \in [Item -> Object]
  <2>1. [item[i] EXCEPT !.at = at] \in Object
    BY <1>1, CacheAssumption DEF Object, Holder
  <2> QED
    BY <2>1 DEF GameInv
<1>3. CASE p \in Player /\ q \in Player /\ Exchange(p, q, i)
  <2>1. item[i].ver + 1 \in 1..MaxVer
    BY <1>1, <1>3, CacheAssumption DEF Exchange
  <2>2. AddToCharacter(q, item[i].ver + 1) \in Object
    BY <1>3, <2>1, AddToCharacterType
  <2>3. GameInv'
    BY <1>3, <2>2 DEF Exchange, GameInv
  <2>4. CacheInv' /\ SqlInv' /\ SentInv'
    BY <1>3, <2>1, QUERY_ITEM_SAVEType DEF Exchange
  <2> QED
    BY <1>3, <2>3, <2>4 DEF Exchange, sessionVars, loginVars, SessionInv, LoginInv
<1>4. CASE DropItem(p, i)
  <2>1. GameInv'
    BY <1>2, <1>4 DEF DropItem, GameInv
  <2>2. CacheInv' /\ SqlInv' /\ SentInv'
    BY <1>4, QUERY_ITEM_DESTROYType DEF DropItem
  <2> QED
    BY <1>4, <2>1, <2>2 DEF DropItem, sessionVars, loginVars, SessionInv, LoginInv
<1>5. CASE DestroyItem(i)
  <2>1. GameInv'
    BY <1>2, <1>5 DEF DestroyItem, GameInv
  <2>2. CacheInv' /\ SqlInv' /\ SentInv'
    BY <1>5, QUERY_ITEM_DESTROYType DEF DestroyItem
  <2> QED
    BY <1>5, <2>1, <2>2 DEF DestroyItem, sessionVars, loginVars, SessionInv, LoginInv
<1>6. CASE SaveSingleItem(i)
  <2>1. GameInv'
    BY <1>6 DEF SaveSingleItem, GameInv
  <2>2. CacheInv' /\ SqlInv' /\ SentInv'
    BY <1>1, <1>6, QUERY_ITEM_SAVEType, QUERY_ITEM_DESTROYType DEF SaveSingleItem
  <2> QED
    BY <1>6, <2>1, <2>2 DEF SaveSingleItem, sessionVars, loginVars, SessionInv, LoginInv
<1>7. CASE SafeboxCheckin(p, i)
  <2>1. [item[i] EXCEPT !.box = TRUE] \in Object
    <3>1. /\ [item[i] EXCEPT !.box = TRUE].at = item[i].at
          /\ [item[i] EXCEPT !.box = TRUE].ver = item[i].ver
      BY <1>1
    <3>2. item[i].at \in Player => item[i].ver # 0
      BY <1>1
    <3>3. [item[i] EXCEPT !.box = TRUE] \in
            [at : Holder, last : Player \cup {NoOne}, box : BOOLEAN, ver : 0..MaxVer]
      BY <1>1
    <3> QED
      BY <3>1, <3>2, <3>3 DEF Object
  <2>2. GameInv'
    BY <1>7, <2>1 DEF SafeboxCheckin, GameInv
  <2>3. CacheInv' /\ SqlInv' /\ SentInv'
    BY <1>7, SafeboxSaveType DEF SafeboxCheckin
  <2> QED
    BY <1>7, <2>2, <2>3 DEF SafeboxCheckin, sessionVars, loginVars, SessionInv, LoginInv
<1>8. CASE p \in Player /\ SafeboxCheckout(p, i)
  <2> DEFINE v == item[i].ver + 1
             e == [owner |-> p, ver |-> v, dirty |-> FALSE, since |-> {}]
  <2>1. v \in 1..MaxVer /\ v \in 0..MaxVer /\ v # 0
    BY <1>1, <1>8, CacheAssumption DEF SafeboxCheckout
  <2>2. /\ item' = [item EXCEPT ![i] = AddToCharacter(p, v)]
        /\ unsaved' = unsaved \ {i}
        /\ cached' = cached \cup {i}
        /\ entry' = [entry EXCEPT ![i] = e]
        /\ set' = Regroup({i}, p, hasSet)
        /\ main' = Append(main, OnFlush(i, e))
        /\ sent' = [sent EXCEPT ![i] = [owner |-> p, ver |-> v]]
        /\ UNCHANGED <<hasSet, row, async, res>>
    BY <1>8 DEF SafeboxCheckout
  <2> HIDE DEF v
  <2>3. AddToCharacter(p, v) \in Object /\ [owner |-> p, ver |-> v] \in Value
    BY <1>8, <2>1, AddToCharacterType DEF Value
  <2>4. e \in Entry
    BY <1>8, <2>1 DEF Entry
  <2> HIDE DEF e
  <2>5. OnFlush(i, e) \in Statement
    BY <2>4, OnFlushType
  <2>6. GameInv'
    BY <2>2, <2>3 DEF GameInv
  <2>7. set' \in [Player -> SUBSET Item]
    BY <2>2, RegroupType
  <2>8. CacheInv'
    BY <2>2, <2>4, <2>7 DEF CacheInv
  <2>9. main' \in Seq(Statement)
    BY <2>2, <2>5 DEF SqlInv
  <2>10. SqlInv' /\ SentInv'
    BY <2>2, <2>3, <2>9 DEF SqlInv, SentInv
  <2> QED
    BY <1>8, <2>6, <2>8, <2>10 DEF SafeboxCheckout, sessionVars, loginVars, SessionInv,
       LoginInv
<1> QED
  BY <1>3, <1>4, <1>5, <1>6, <1>7, <1>8

\* A record that leaves a player's hands stays an object, and an entry that
\* notes a logout stays an entry.
LEMMA LeaveType ==
  /\ \A o \in Object : [o EXCEPT !.at = NoOne] \in Object
  /\ \A e \in Entry, p \in Player : [e EXCEPT !.since = @ \cup {p}] \in Entry
<1>1. ASSUME NEW o \in Object PROVE [o EXCEPT !.at = NoOne] \in Object
  BY CacheAssumption DEF Object, Holder
<1>2. ASSUME NEW e \in Entry, NEW p \in Player
      PROVE  [e EXCEPT !.since = @ \cup {p}] \in Entry
  <2> DEFINE f == [e EXCEPT !.since = @ \cup {p}]
  <2>1. f.ver = e.ver /\ f.owner = e.owner
    BY DEF Entry
  <2>2. f \in [owner : Player \cup {NoOne}, ver : 0..MaxVer, dirty : BOOLEAN,
               since : SUBSET Player]
    BY DEF Entry
  <2> QED
    BY <2>1, <2>2 DEF Entry
<1> QED
  BY <1>1, <1>2

\* Sessions: login, the three answers to a load, save, disconnect and logout.
LEMMA SessionsType ==
  ASSUME TypeInv, NEW p \in Player,
         \/ Login(p) \/ QUERY_PLAYER_LOAD(p) \/ QUERY_PLAYER_SAVE(p)
         \/ Disconnect(p) \/ QUERY_LOGOUT(p)
  PROVE  TypeInv'
<1> USE DEF TypeInv
<1>1. CASE Login(p)
  <2>1. logins' \in [Player -> 0..MaxLogin]
    <3>1. logins[p] + 1 \in 0..MaxLogin
      BY <1>1, CacheAssumption DEF Login, SessionInv
    <3> QED
      BY <1>1, <3>1 DEF Login, SessionInv
  <2>2. SessionInv'
    BY <1>1, <2>1 DEF Login, SessionInv
  <2>3. LoginInv'
    BY <1>1 DEF Login, LoginInv
  <2> QED
    BY <1>1, <2>2, <2>3 DEF Login, gameVars, cacheVars, sqlVars, GameInv, CacheInv,
       SqlInv, SentInv
<1>2. CASE QUERY_PLAYER_LOAD(p)
  <2>1. /\ play' \subseteq Player /\ loaded' \subseteq Player
        /\ phase' \in [Player -> {"off", "select", "game", "closing"}]
    BY <1>2 DEF QUERY_PLAYER_LOAD, LoadFromCache, LoadFromTable, LoadRefused,
       LoginInv, SessionInv
  <2>2. main' \in Seq(Statement)
    <3>1. Select("player", p) \in Statement /\ Select("item", p) \in Statement
      BY SelectType
    <3>2. <<Select("player", p), Select("item", p)>> \in Seq(Statement)
      BY <3>1
    <3>3. main \in Seq(Statement)
      BY DEF SqlInv
    <3>4. \/ main' = main
          \/ main' = Append(main, Select("item", p))
          \/ main' = main \o <<Select("player", p), Select("item", p)>>
      BY <1>2 DEF QUERY_PLAYER_LOAD, LoadFromCache, LoadFromTable, LoadRefused
    <3>5. /\ Append(main, Select("item", p)) \in Seq(Statement)
          /\ main \o <<Select("player", p), Select("item", p)>> \in Seq(Statement)
      BY <3>1, <3>2, <3>3
    <3> QED
      BY <3>3, <3>4, <3>5
  <2>3. item' \in [Item -> Object]
    <3> DEFINE S == {i \in set[p] : entry[i].ver # 0}
               v == [i \in S |-> entry[i].ver]
    <3>1. CASE LoadFromCache(p) /\ p \in hasSet
      <4>1. \A i \in S : v[i] \in 1..MaxVer
        BY CacheAssumption DEF CacheInv, Entry
      <4>2. ItemLoad(p, S, v)
        BY <3>1 DEF LoadFromCache
      <4> HIDE DEF S, v
      <4> QED
        BY <4>1, <4>2, ItemLoadType
    <3>2. CASE ~(LoadFromCache(p) /\ p \in hasSet)
      BY <1>2, <3>2 DEF QUERY_PLAYER_LOAD, LoadFromCache, LoadFromTable, LoadRefused,
         GameInv
    <3> QED
      BY <3>1, <3>2
  <2>4. GameInv' /\ SessionInv'
    BY <1>2, <2>1, <2>3 DEF QUERY_PLAYER_LOAD, GameInv, SessionInv
  <2>5. LoginInv' /\ SqlInv'
    BY <1>2, <2>1, <2>2 DEF QUERY_PLAYER_LOAD, LoginInv, SqlInv
  <2> QED
    BY <1>2, <2>4, <2>5 DEF QUERY_PLAYER_LOAD, cacheVars, CacheInv, SentInv
<1>3. CASE QUERY_PLAYER_SAVE(p)
  BY <1>3 DEF QUERY_PLAYER_SAVE, gameVars, sessionVars, cacheVars, sqlVars, GameInv,
     SessionInv, LoginInv, CacheInv, SqlInv, SentInv
<1>4. CASE Disconnect(p)
  BY <1>4 DEF Disconnect, gameVars, cacheVars, sqlVars, GameInv, SessionInv, LoginInv,
     CacheInv, SqlInv, SentInv
<1>5. CASE QUERY_LOGOUT(p)
  <2>1. item' \in [Item -> Object]
    BY <1>5, LeaveType DEF QUERY_LOGOUT, GameInv
  <2>2. entry' \in [Item -> Entry]
    BY <1>5, LeaveType DEF QUERY_LOGOUT, CacheInv
  <2>3. "nodesc" \in To
    BY DEF To
  <2>4. main' \in Seq(Statement) /\ res' \in Seq(Result)
    BY <1>5, <2>3, RedirectMain, RedirectRes DEF QUERY_LOGOUT, SqlInv
  <2>5. phase' \in [Player -> {"off", "select", "game", "closing"}]
    BY <1>5 DEF QUERY_LOGOUT, SessionInv
  <2>6. GameInv' /\ SessionInv' /\ LoginInv'
    BY <1>5, <2>1, <2>5 DEF QUERY_LOGOUT, GameInv, SessionInv, LoginInv
  <2>7. CacheInv' /\ SqlInv'
    BY <1>5, <2>2, <2>4 DEF QUERY_LOGOUT, CacheInv, SqlInv
  <2> QED
    BY <1>5, <2>6, <2>7 DEF QUERY_LOGOUT, SentInv
<1> QED
  BY <1>1, <1>2, <1>3, <1>4, <1>5

\* A core dies.
LEMMA CoreCrashType ==
  ASSUME TypeInv, CoreCrash
  PROVE  TypeInv'
<1> USE DEF TypeInv
<1>1. item' \in [Item -> Object]
  BY LeaveType DEF CoreCrash, GameInv
<1>2. "nopeer" \in To
  BY DEF To
<1>3. main' \in Seq(Statement) /\ res' \in Seq(Result)
  BY <1>2, RedirectMain, RedirectRes DEF CoreCrash, SqlInv
<1>4. crashes' \in 0..MaxCrash
  BY CacheAssumption DEF CoreCrash, SessionInv
<1>5. GameInv' /\ SessionInv' /\ LoginInv'
  BY <1>1, <1>4 DEF CoreCrash, GameInv, SessionInv, LoginInv
<1>6. CacheInv' /\ SqlInv' /\ SentInv'
  BY <1>3 DEF CoreCrash, cacheVars, CacheInv, SqlInv, SentInv
<1> QED
  BY <1>5, <1>6

\* MySQL executes a statement of the main connection.
LEMMA MainExecType ==
  ASSUME TypeInv, MainExec
  PROVE  TypeInv'
<1> USE DEF TypeInv
<1> DEFINE q == Head(main)
<1>1. q \in Statement /\ main' \in Seq(Statement)
  BY DEF MainExec, SqlInv
<1>2. CASE q.op = "write"
  <2>1. q.item \in Item /\ [owner |-> q.owner, ver |-> q.ver] \in Value
    BY <1>1, <1>2 DEF Statement
  <2>2. row' = [row EXCEPT ![q.item] = [owner |-> q.owner, ver |-> q.ver]]
    BY <1>2 DEF MainExec, Execute
  <2>3. row' \in [Item -> Value]
    BY <2>1, <2>2 DEF SqlInv
  <2>4. SqlInv'
    BY <1>1, <1>2, <2>3 DEF MainExec, SqlInv
  <2> QED
    BY <2>4 DEF MainExec, gameVars, sessionVars, loginVars, cacheVars, GameInv,
       SessionInv, LoginInv, CacheInv, SentInv
<1>3. CASE q.op \in {"player", "item"}
  <2> DEFINE r == [op |-> q.op, owner |-> q.owner, to |-> q.to,
                   rows |-> RowsOf(q.owner)]
  <2>1. q.owner \in Player /\ q.to \in To
    BY <1>1, <1>3 DEF Statement
  <2>2. RowsOf(q.owner) \in [Item -> 0..MaxVer]
    BY CacheAssumption DEF RowsOf, SqlInv, Value, Gone
  <2>3. r \in Result
    BY <1>3, <2>1, <2>2 DEF Result
  <2>4. res' = Append(res, r) /\ row' = row
    BY <1>3 DEF MainExec
  <2> HIDE DEF r
  <2>5. res' \in Seq(Result)
    BY <2>3, <2>4 DEF SqlInv
  <2>6. SqlInv'
    BY <1>1, <2>4, <2>5 DEF MainExec, SqlInv
  <2> QED
    BY <2>6 DEF MainExec, gameVars, sessionVars, loginVars, cacheVars, GameInv,
       SessionInv, LoginInv, CacheInv, SentInv
<1>4. CASE q.op \notin {"write", "player", "item"}
  <2>1. row' = row /\ res' = res
    BY <1>4 DEF MainExec
  <2> QED
    BY <1>1, <2>1 DEF MainExec, gameVars, sessionVars, loginVars, cacheVars, GameInv,
       SessionInv, LoginInv, CacheInv, SqlInv, SentInv
<1> QED
  BY <1>2, <1>3, <1>4

\* ... or one of the async connection.
LEMMA AsyncExecType ==
  ASSUME TypeInv, AsyncExec
  PROVE  TypeInv'
<1> USE DEF TypeInv
<1>1. Head(async) \in Item /\ async' \in Seq(Item)
  BY DEF AsyncExec, SqlInv
<1>2. row' \in [Item -> Value]
  BY <1>1 DEF AsyncExec, Execute, SqlInv, Value
<1>3. SqlInv'
  BY <1>1, <1>2 DEF AsyncExec, SqlInv
<1> QED
  BY <1>3 DEF AsyncExec, gameVars, sessionVars, loginVars, cacheVars, GameInv,
     SessionInv, LoginInv, CacheInv, SentInv

\* The daemon takes a result.
LEMMA ResultType ==
  ASSUME TypeInv, AnalyzeQueryResult
  PROVE  TypeInv'
<1> USE DEF TypeInv
<1> DEFINE m == Head(res)
<1>1. m \in Result /\ res' \in Seq(Result)
  BY DEF AnalyzeQueryResult, SqlInv
<1>2. m.owner \in Player /\ m.to \in To /\ m.rows \in [Item -> 0..MaxVer]
  BY <1>1 DEF Result
<1>3. \/ UNCHANGED <<item, phase, loaded, play, cacheVars>>
      \/ RESULT_PLAYER_LOAD(m.owner, m.to)
      \/ RESULT_ITEM_LOAD(m.owner, m.to, m.rows)
  BY DEF AnalyzeQueryResult
<1>4. SqlInv' /\ SentInv'
  BY <1>1 DEF AnalyzeQueryResult, SqlInv, SentInv
<1> HIDE DEF m
<1>5. GameInv' /\ SessionInv' /\ LoginInv' /\ CacheInv'
  <2>1. unsaved' = unsaved /\ logins' = logins /\ crashes' = crashes
        /\ ptab' = ptab /\ leaving' = leaving
    BY DEF AnalyzeQueryResult
  <2>2. CASE UNCHANGED <<item, phase, loaded, play, cacheVars>>
    BY <2>1, <2>2 DEF cacheVars, GameInv, SessionInv, LoginInv, CacheInv
  <2>3. CASE RESULT_PLAYER_LOAD(m.owner, m.to)
    BY <1>2, <2>1, <2>3 DEF RESULT_PLAYER_LOAD, cacheVars, GameInv, SessionInv,
       LoginInv, CacheInv
  <2>4. CASE RESULT_ITEM_LOAD(m.owner, m.to, m.rows)
    <3> DEFINE S == {i \in Item : m.rows[i] # 0}
               keep(i) == i \in cached /\ entry[i].dirty
               e(i) == [owner |-> m.owner, ver |-> m.rows[i], dirty |-> keep(i),
                        since |-> IF keep(i) THEN entry[i].since ELSE {}]
    <3>1. entry' = [i \in Item |-> IF i \in S THEN e(i) ELSE entry[i]]
      BY <2>4 DEF RESULT_ITEM_LOAD
    <3>2. ASSUME NEW i \in S PROVE e(i) \in Entry
      <4>1. m.rows[i] \in 0..MaxVer
        BY <1>2
      <4>2. entry[i].since \in SUBSET Player /\ entry[i].dirty \in BOOLEAN
        BY DEF CacheInv, Entry
      <4>3. keep(i) \in BOOLEAN
        OBVIOUS
      <4> QED
        BY <1>2, <4>1, <4>2, <4>3 DEF Entry
    <3>3. entry' \in [Item -> Entry]
      <4> HIDE DEF S, e
      <4> QED
        BY <3>1, <3>2 DEF CacheInv
    <3>4. set' \in [Player -> SUBSET Item]
      BY <2>4, RegroupType DEF RESULT_ITEM_LOAD
    <3>5. CacheInv'
      BY <1>2, <2>4, <3>3, <3>4 DEF RESULT_ITEM_LOAD, CacheInv
    <3>6. \A i \in S : m.rows[i] \in 1..MaxVer
      BY <1>2, CacheAssumption
    <3>7. item' \in [Item -> Object] /\ loaded' \subseteq Player
      <4>1. \/ item' = item /\ loaded' = loaded
            \/ ItemLoad(m.owner, S, m.rows) /\ loaded' = loaded \cup {m.owner}
        BY <2>4 DEF RESULT_ITEM_LOAD
      <4> HIDE DEF S
      <4> QED
        BY <1>2, <3>6, <4>1, ItemLoadType DEF GameInv, SessionInv
    <3>8. play' = play /\ phase' = phase
      BY <2>4 DEF RESULT_ITEM_LOAD
    <3> QED
      BY <2>1, <3>5, <3>7, <3>8 DEF GameInv, SessionInv, LoginInv
  <2> QED
    BY <1>3, <2>2, <2>3, <2>4
<1> QED
  BY <1>4, <1>5

-----------------------------------------------------------------------------
LEMMA TypeInvInit == Init => TypeInv
<1> SUFFICES ASSUME Init PROVE TypeInv
  OBVIOUS
<1>1. row \in [Item -> Value]
  BY CacheAssumption DEF Init, Value
<1>2. item \in [Item -> Object]
  <2>1. ASSUME NEW i \in Item
        PROVE  [at |-> NoOne, last |-> NoOne, box |-> FALSE, ver |-> row[i].ver] \in Object
    <3>1. row[i].ver \in 0..MaxVer
      BY <1>1, CacheAssumption DEF Value, Gone
    <3> QED
      BY <3>1, CacheAssumption DEF Object, Holder
  <2> QED
    BY <2>1 DEF Init
<1>3. [owner |-> NoOne, ver |-> 0, dirty |-> FALSE, since |-> {}] \in Entry
  BY CacheAssumption DEF Entry
<1>4. \A S : <<>> \in Seq(S)
  OBVIOUS
<1>5. GameInv /\ SessionInv /\ LoginInv
  BY <1>2, CacheAssumption DEF Init, GameInv, SessionInv, LoginInv
<1>6. CacheInv
  BY <1>3 DEF Init, CacheInv
<1>7. SqlInv /\ SentInv
  BY <1>1, <1>4 DEF Init, SqlInv, SentInv
<1> QED
  BY <1>5, <1>6, <1>7 DEF TypeInv

LEMMA TypeInvStep == TypeInv /\ [Next]_vars => TypeInv'
<1> SUFFICES ASSUME TypeInv, [Next]_vars PROVE TypeInv'
  OBVIOUS
<1>1. ASSUME NEW i \in Item, ItemStep(i) PROVE TypeInv'
  BY <1>1, TimersType, ObjectsType, SavesType DEF ItemStep
<1>2. ASSUME NEW p \in Player, PlayerStep(p) PROVE TypeInv'
  BY <1>2, TimersType, SessionsType DEF PlayerStep
<1>3. ASSUME NEW p \in Player, NEW i \in Item, PlayerItemStep(p, i) PROVE TypeInv'
  BY <1>3, ObjectsType, SavesType DEF PlayerItemStep
<1>4. CASE CoreCrash \/ MainExec \/ AsyncExec \/ AnalyzeQueryResult
  BY <1>4, CoreCrashType, MainExecType, AsyncExecType, ResultType
<1>5. CASE UNCHANGED vars
  BY <1>5 DEF vars, gameVars, sessionVars, loginVars, cacheVars, sqlVars, TypeInv,
     GameInv, SessionInv, LoginInv, CacheInv, SqlInv, SentInv
<1> QED
  BY <1>1, <1>2, <1>3, <1>4, <1>5 DEF Next

\* The daemon's maps, the core's objects, the statements and the rows stay
\* within their types.
THEOREM TypeCorrect == Spec => []TypeOK
  BY TypeInvInit, TypeInvStep, TypeInvImpliesTypeOK, PTL DEF Spec

-----------------------------------------------------------------------------
(* The item sets.  The two properties need each other: FlushItemCacheSet    *)
(* deletes the entries of one set, and no other set names them because every *)
(* pointer is in the set of the owner its entry names; and it leaves no      *)
(* dirty entry behind because those of that owner are in the set it deletes. *)

SetInv == NoDanglingEntry /\ DirtyReachable

\* An entry that is put moves to its owner's set, or to none and is clean.
LEMMA PutItemCacheSets ==
  ASSUME CacheInv, SetInv, NEW i \in Item, NEW o \in Player, NEW v,
         PutItemCache(i, o, v)
  PROVE  SetInv'
<1>1. /\ cached' = cached \cup {i} /\ hasSet' = hasSet
      /\ set' = Regroup({i}, o, hasSet)
      /\ \A j \in Item \ {i} : entry'[j] = entry[j]
      /\ entry'[i].owner = o /\ (entry'[i].dirty <=> o \in hasSet)
  BY DEF PutItemCache, CacheInv
<1>2. NoDanglingEntry'
  BY <1>1 DEF SetInv, NoDanglingEntry, Regroup, CacheInv
<1>3. DirtyReachable'
  <2> SUFFICES ASSUME NEW j \in cached', entry'[j].dirty
               PROVE  entry'[j].owner \in Player /\ j \in set'[entry'[j].owner]
    BY DEF DirtyReachable
  <2>1. CASE j = i
    BY <1>1, <2>1 DEF Regroup
  <2>2. CASE j # i
    <3>1. j \in cached /\ entry[j].dirty /\ entry'[j] = entry[j]
      BY <1>1, <2>2 DEF CacheInv
    <3>2. entry[j].owner \in Player /\ j \in set[entry[j].owner]
      BY <3>1 DEF SetInv, DirtyReachable
    <3>3. entry[j].owner \in hasSet
      BY <3>2 DEF SetInv, NoDanglingEntry
    <3> QED
      BY <1>1, <2>2, <3>1, <3>2, <3>3 DEF Regroup
  <2> QED
    BY <2>1, <2>2
<1> QED
  BY <1>2, <1>3 DEF SetInv

\* A set that is dropped takes its own entries along, and no others.
LEMMA FlushItemCacheSetSets ==
  ASSUME CacheInv, SetInv, NEW p \in Player, FlushItemCacheSet(p)
  PROVE  SetInv'
<1>1. CASE p \notin hasSet
  BY <1>1 DEF FlushItemCacheSet, cacheVars, SetInv, NoDanglingEntry, DirtyReachable
<1>2. CASE p \in hasSet
  <2>1. /\ cached' = cached \ set[p]
        /\ entry' = Clean(set[p])
        /\ hasSet' = hasSet \ {p}
        /\ set' = [set EXCEPT ![p] = {}]
    BY <1>2 DEF FlushItemCacheSet
  <2>2. \A j \in Item \ set[p] : entry'[j] = entry[j]
    BY <2>1 DEF Clean
  <2>3. NoDanglingEntry'
    <3> SUFFICES ASSUME NEW q \in Player, NEW j \in set'[q]
                 PROVE  q \in hasSet' /\ j \in cached' /\ entry'[j].owner = q
      BY DEF NoDanglingEntry
    <3>1. q # p /\ j \in set[q]
      BY <2>1 DEF CacheInv
    <3>2. q \in hasSet /\ j \in cached /\ entry[j].owner = q
      BY <3>1 DEF SetInv, NoDanglingEntry
    <3>3. j \notin set[p] /\ j \in Item
      BY <3>1, <3>2 DEF SetInv, NoDanglingEntry, CacheInv
    <3> QED
      BY <2>1, <2>2, <3>1, <3>2, <3>3
  <2>4. DirtyReachable'
    <3> SUFFICES ASSUME NEW j \in cached', entry'[j].dirty
                 PROVE  entry'[j].owner \in Player /\ j \in set'[entry'[j].owner]
      BY DEF DirtyReachable
    <3>1. j \in cached /\ j \notin set[p] /\ j \in Item /\ entry'[j] = entry[j]
      BY <2>1, <2>2 DEF CacheInv
    <3>2. entry[j].owner \in Player /\ j \in set[entry[j].owner]
      BY <3>1 DEF SetInv, DirtyReachable
    <3> QED
      BY <2>1, <3>1, <3>2 DEF CacheInv
  <2> QED
    BY <2>3, <2>4 DEF SetInv
<1> QED
  BY <1>1, <1>2

\* Where the maps and the owners stay and entries at most become clean.
LEMMA CleaningSets ==
  ASSUME CacheInv, SetInv,
         UNCHANGED <<cached, hasSet, set>>,
         \A j \in Item : /\ entry'[j].owner = entry[j].owner
                         /\ entry'[j].dirty => entry[j].dirty
  PROVE  SetInv'
<1>1. NoDanglingEntry'
  BY DEF SetInv, NoDanglingEntry, CacheInv
<1>2. DirtyReachable'
  BY DEF SetInv, DirtyReachable, CacheInv
<1> QED
  BY <1>1, <1>2 DEF SetInv

\* The entries a Flush, a Delete or a logout leaves keep their owners.
LEMMA CleanSets ==
  ASSUME CacheInv, NEW S, NEW j \in Item
  PROVE  /\ Clean(S)[j].owner = entry[j].owner
         /\ Clean(S)[j].dirty => entry[j].dirty
  BY DEF CacheInv, Clean, Entry

LEMMA DestroySets ==
  ASSUME CacheInv, SetInv, NEW i \in Item, NEW last, QUERY_ITEM_DESTROY(i, last)
  PROVE  SetInv'
<1>1. entry' = entry \/ entry' = [entry EXCEPT ![i] =
        [entry[i] EXCEPT !.ver = 0, !.dirty = FALSE, !.since = {}]]
  BY DEF QUERY_ITEM_DESTROY
<1>2. \A j \in Item : /\ entry'[j].owner = entry[j].owner
                      /\ entry'[j].dirty => entry[j].dirty
  <2>1. entry[i] \in Entry
    BY DEF CacheInv
  <2>2. /\ [entry[i] EXCEPT !.ver = 0, !.dirty = FALSE, !.since = {}].owner
             = entry[i].owner
        /\ [entry[i] EXCEPT !.ver = 0, !.dirty = FALSE, !.since = {}].dirty = FALSE
    BY <2>1 DEF Entry
  <2> QED
    BY <1>1, <2>2 DEF CacheInv
<1> QED
  BY <1>2, CleaningSets DEF QUERY_ITEM_DESTROY

LEMMA SafeboxSaveSets ==
  ASSUME CacheInv, SetInv, NEW i \in Item, QUERY_ITEM_SAVE_Safebox(i)
  PROVE  SetInv'
<1>1. /\ cached' = cached \ {i} /\ entry' = entry /\ hasSet' = hasSet
      /\ set' = IF i \in cached /\ entry[i].owner \in hasSet
                THEN [set EXCEPT ![entry[i].owner] = @ \ {i}] ELSE set
  BY DEF QUERY_ITEM_SAVE_Safebox
<1>2. NoDanglingEntry'
  BY <1>1 DEF SetInv, NoDanglingEntry, CacheInv
<1>3. DirtyReachable'
  BY <1>1 DEF SetInv, DirtyReachable, CacheInv
<1> QED
  BY <1>2, <1>3 DEF SetInv

\* Rows that come back move their items into the reader's set.
LEMMA ItemLoadResultSets ==
  ASSUME CacheInv, SetInv, NEW p \in Player, NEW to, NEW rows,
         RESULT_ITEM_LOAD(p, to, rows)
  PROVE  SetInv'
<1> DEFINE S == {i \in Item : rows[i] # 0}
<1>1. /\ cached' = cached \cup S /\ hasSet' = hasSet \cup {p}
      /\ set' = Regroup(S, p, hasSet \cup {p})
  BY DEF RESULT_ITEM_LOAD
<1>2. \A j \in S : entry'[j].owner = p
  BY DEF RESULT_ITEM_LOAD
<1>3. \A j \in Item \ S : entry'[j] = entry[j]
  BY DEF RESULT_ITEM_LOAD
<1>4. S \subseteq Item
  OBVIOUS
<1> HIDE DEF S
<1>5. /\ set'[p] = set[p] \cup S
      /\ \A q \in Player \ {p} :
           set'[q] = set[q] \ {i \in S \cap cached : entry[i].owner = q}
  BY <1>1 DEF Regroup
<1>6. NoDanglingEntry'
  <2> SUFFICES ASSUME NEW q \in Player, NEW j \in set'[q]
               PROVE  q \in hasSet' /\ j \in cached' /\ entry'[j].owner = q
    BY DEF NoDanglingEntry
  <2>1. CASE j \in S /\ q = p
    BY <1>1, <1>2, <2>1
  <2>2. CASE j \notin S
    <3>1. j \in set[q]
      BY <1>5, <2>2
    <3>2. q \in hasSet /\ j \in cached /\ entry[j].owner = q /\ j \in Item
      BY <3>1 DEF SetInv, NoDanglingEntry, CacheInv
    <3> QED
      BY <1>1, <1>3, <2>2, <3>2
  <2>3. CASE j \in S /\ q # p
    <3>1. j \in set[q] /\ ~(j \in cached /\ entry[j].owner = q)
      BY <1>5, <2>3
    <3> QED
      BY <3>1 DEF SetInv, NoDanglingEntry
  <2> QED
    BY <2>1, <2>2, <2>3
<1>7. DirtyReachable'
  <2> SUFFICES ASSUME NEW j \in cached', entry'[j].dirty
               PROVE  entry'[j].owner \in Player /\ j \in set'[entry'[j].owner]
    BY DEF DirtyReachable
  <2>1. CASE j \in S
    BY <1>2, <1>5, <2>1
  <2>2. CASE j \notin S
    <3>1. j \in cached /\ j \in Item /\ entry'[j] = entry[j]
      BY <1>1, <1>3, <2>2 DEF CacheInv
    <3>2. entry[j].owner \in Player /\ j \in set[entry[j].owner]
      BY <3>1 DEF SetInv, DirtyReachable
    <3> QED
      BY <1>5, <2>2, <3>1, <3>2
  <2> QED
    BY <2>1, <2>2
<1> QED
  BY <1>6, <1>7 DEF SetInv

LEMMA SafeboxCheckoutSets ==
  ASSUME CacheInv, SetInv, NEW p \in Player, NEW i \in Item, SafeboxCheckout(p, i)
  PROVE  SetInv'
<1>1. /\ cached' = cached \cup {i} /\ hasSet' = hasSet
      /\ set' = Regroup({i}, p, hasSet)
      /\ \A j \in Item \ {i} : entry'[j] = entry[j]
      /\ entry'[i].owner = p /\ entry'[i].dirty = FALSE
  BY DEF SafeboxCheckout, CacheInv
<1>2. NoDanglingEntry'
  BY <1>1 DEF SetInv, NoDanglingEntry, Regroup, CacheInv
<1>3. DirtyReachable'
  <2> SUFFICES ASSUME NEW j \in cached', entry'[j].dirty
               PROVE  entry'[j].owner \in Player /\ j \in set'[entry'[j].owner]
    BY DEF DirtyReachable
  <2>1. j # i /\ j \in cached /\ j \in Item /\ entry'[j] = entry[j]
    BY <1>1 DEF CacheInv
  <2>2. entry[j].owner \in Player /\ j \in set[entry[j].owner]
    BY <2>1 DEF SetInv, DirtyReachable
  <2>3. entry[j].owner \in hasSet
    BY <2>2 DEF SetInv, NoDanglingEntry
  <2> QED
    BY <1>1, <2>1, <2>2, <2>3 DEF Regroup
<1> QED
  BY <1>2, <1>3 DEF SetInv

LEMMA SetInvInit == Init => SetInv
  BY DEF Init, SetInv, NoDanglingEntry, DirtyReachable

\* What a core does to its objects, and tells the daemon of.
LEMMA CoreSets ==
  ASSUME TypeInv, SetInv, NEW p, NEW q, NEW i \in Item,
         \/ DestroyItem(i) \/ SaveSingleItem(i)
         \/ p \in Player /\ q \in Player /\ Exchange(p, q, i)
         \/ p \in Player /\ (DropItem(p, i) \/ SafeboxCheckin(p, i)
                             \/ SafeboxCheckout(p, i))
  PROVE  SetInv'
<1>1. CacheInv
  BY DEF TypeInv
<1>2. ASSUME NEW o \in Player, NEW v, QUERY_ITEM_SAVE(i, o, v) PROVE SetInv'
  BY <1>1, <1>2, PutItemCacheSets DEF QUERY_ITEM_SAVE
<1>3. ASSUME NEW last, QUERY_ITEM_DESTROY(i, last) PROVE SetInv'
  BY <1>1, <1>3, DestroySets
<1>4. CASE DestroyItem(i) \/ SaveSingleItem(i)
  BY <1>2, <1>3, <1>4 DEF DestroyItem, SaveSingleItem
<1>5. CASE p \in Player /\ q \in Player /\ Exchange(p, q, i)
  BY <1>2, <1>5 DEF Exchange
<1>6. CASE p \in Player /\ DropItem(p, i)
  BY <1>3, <1>6 DEF DropItem
<1>7. CASE p \in Player /\ SafeboxCheckin(p, i)
  BY <1>1, <1>7, SafeboxSaveSets DEF SafeboxCheckin
<1>8. CASE p \in Player /\ SafeboxCheckout(p, i)
  BY <1>1, <1>8, SafeboxCheckoutSets
<1> QED
  BY <1>4, <1>5, <1>6, <1>7, <1>8

\* Timers, sessions and results.
LEMMA DaemonSets ==
  ASSUME TypeInv, SetInv, NEW p, NEW i,
         \/ i \in Item /\ UpdateItemCache(i)
         \/ p \in Player /\ PlayerStep(p)
         \/ AnalyzeQueryResult
  PROVE  SetInv'
<1>1. CacheInv
  BY DEF TypeInv
<1>2. CASE i \in Item /\ UpdateItemCache(i)
  BY <1>1, <1>2, CleanSets, CleaningSets DEF UpdateItemCache
<1>3. CASE p \in Player /\ UpdatePlayerCache(p)
  BY <1>1, <1>3, CleanSets, CleaningSets DEF UpdatePlayerCache
<1>4. CASE p \in Player /\ (UpdateLogoutPlayer(p) \/ QUERY_FLUSH_CACHE(p))
  BY <1>1, <1>4, FlushItemCacheSetSets DEF UpdateLogoutPlayer, QUERY_FLUSH_CACHE
<1>5. CASE p \in Player /\ (\/ Login(p) \/ QUERY_PLAYER_LOAD(p)
                            \/ QUERY_PLAYER_SAVE(p) \/ Disconnect(p))
  BY <1>1, <1>5, CleaningSets
  DEF Login, QUERY_PLAYER_LOAD, QUERY_PLAYER_SAVE, Disconnect, cacheVars
<1>6. CASE p \in Player /\ QUERY_LOGOUT(p)
  <2>1. \A e \in Entry : /\ [e EXCEPT !.since = @ \cup {p}].owner = e.owner
                         /\ [e EXCEPT !.since = @ \cup {p}].dirty = e.dirty
    BY DEF Entry
  <2>2. \A j \in Item : /\ entry'[j].owner = entry[j].owner
                        /\ entry'[j].dirty => entry[j].dirty
    BY <1>1, <1>6, <2>1 DEF QUERY_LOGOUT, CacheInv
  <2> QED
    BY <1>1, <1>6, <2>2, CleaningSets DEF QUERY_LOGOUT
<1>7. CASE AnalyzeQueryResult
  <2> DEFINE m == Head(res)
  <2>1. m \in Result
    BY <1>7 DEF AnalyzeQueryResult, TypeInv, SqlInv
  <2>2. m.owner \in Player
    BY <2>1 DEF Result
  <2>3. \/ UNCHANGED cacheVars
        \/ RESULT_ITEM_LOAD(m.owner, m.to, m.rows)
    BY <1>7 DEF AnalyzeQueryResult, RESULT_PLAYER_LOAD
  <2> HIDE DEF m
  <2>4. CASE UNCHANGED cacheVars
    BY <1>1, <2>4, CleaningSets DEF cacheVars
  <2> QED
    BY <1>1, <2>2, <2>3, <2>4, ItemLoadResultSets
<1> QED
  BY <1>2, <1>3, <1>4, <1>5, <1>6, <1>7 DEF PlayerStep

LEMMA SetInvStep == TypeInv /\ SetInv /\ [Next]_vars => SetInv'
<1> SUFFICES ASSUME TypeInv, SetInv, [Next]_vars PROVE SetInv'
  OBVIOUS
<1>1. CacheInv
  BY DEF TypeInv
<1>2. UNCHANGED cacheVars => SetInv'
  BY <1>1, CleaningSets DEF cacheVars
<1>3. ASSUME NEW i \in Item, ItemStep(i) PROVE SetInv'
  <2>1. CASE DropNew(i)
    BY <1>2, <2>1 DEF DropNew
  <2> QED
    BY <1>3, <2>1, CoreSets, DaemonSets DEF ItemStep
<1>4. ASSUME NEW p \in Player, PlayerStep(p) PROVE SetInv'
  BY <1>4, DaemonSets
<1>5. ASSUME NEW p \in Player, NEW i \in Item, PlayerItemStep(p, i) PROVE SetInv'
  <2>1. CASE CreateItem(p, i) \/ Change(p, i) \/ PickupItem(p, i)
    BY <1>2, <2>1 DEF CreateItem, Change, PickupItem
  <2> QED
    BY <1>5, <2>1, CoreSets DEF PlayerItemStep
<1>6. CASE AnalyzeQueryResult
  BY <1>6, DaemonSets
<1>7. CASE CoreCrash \/ MainExec \/ AsyncExec \/ UNCHANGED vars
  BY <1>2, <1>7 DEF CoreCrash, MainExec, AsyncExec, vars
<1> QED
  BY <1>3, <1>4, <1>5, <1>6, <1>7 DEF Next

\* No owner's set ever names an entry that was deleted or belongs to another
\* owner, whatever order saves, flushes, loads and the timers come in.
THEOREM NoDanglingEntryHolds == Spec => []NoDanglingEntry
<1>1. TypeInv /\ SetInv => NoDanglingEntry
  BY DEF SetInv
<1> QED
  BY <1>1, TypeInvInit, TypeInvStep, SetInvInit, SetInvStep, PTL DEF Spec

\* Every unwritten change is found from its owner's set, so dropping the set
\* always writes it.
THEOREM DirtyReachableHolds == Spec => []DirtyReachable
<1>1. TypeInv /\ SetInv => DirtyReachable
  BY DEF SetInv
<1> QED
  BY <1>1, TypeInvInit, TypeInvStep, SetInvInit, SetInvStep, PTL DEF Spec

-----------------------------------------------------------------------------
(* The mark of the account that is in the game *)

\* A player in a core's game has its account marked as playing, also when the
\* answer to its load came late or it logged in again meanwhile.
THEOREM PlayingIsMarkedHolds == Spec => []PlayingIsMarked
<1>1. Init => PlayingIsMarked
  BY DEF Init, PlayingIsMarked
<1>2. TypeInv /\ PlayingIsMarked /\ [Next]_vars => PlayingIsMarked'
  <2> SUFFICES ASSUME TypeInv, PlayingIsMarked, [Next]_vars PROVE PlayingIsMarked'
    OBVIOUS
  <2>1. phase \in [Player -> {"off", "select", "game", "closing"}]
    BY DEF TypeInv, SessionInv
  <2>2. phase' = phase /\ play' = play => PlayingIsMarked'
    BY DEF PlayingIsMarked
  <2>3. ASSUME NEW i \in Item, ItemStep(i) PROVE PlayingIsMarked'
    BY <2>2, <2>3 DEF ItemStep, UpdateItemCache, DropNew, DestroyItem, SaveSingleItem,
       sessionVars, loginVars
  <2>4. ASSUME NEW p \in Player, NEW i \in Item, PlayerItemStep(p, i)
        PROVE  PlayingIsMarked'
    BY <2>2, <2>4 DEF PlayerItemStep, CreateItem, Change, DropItem, PickupItem,
       SafeboxCheckin, SafeboxCheckout, Exchange, sessionVars, loginVars
  <2>5. ASSUME NEW p \in Player, PlayerStep(p) PROVE PlayingIsMarked'
    <3>1. CASE UpdatePlayerCache(p) \/ UpdateLogoutPlayer(p) \/ QUERY_FLUSH_CACHE(p)
               \/ QUERY_PLAYER_SAVE(p)
      BY <2>2, <3>1 DEF UpdatePlayerCache, UpdateLogoutPlayer, QUERY_FLUSH_CACHE,
         QUERY_PLAYER_SAVE, sessionVars, loginVars
    <3>2. CASE Login(p)
      BY <2>1, <3>2 DEF Login, PlayingIsMarked
    <3>3. CASE QUERY_PLAYER_LOAD(p)
      <4>1. \/ play' = play /\ phase' = phase
            \/ play' = play \cup {p} /\ phase' = [phase EXCEPT ![p] = "game"]
        BY <3>3 DEF QUERY_PLAYER_LOAD, LoadFromCache, LoadFromTable, LoadRefused
      <4> QED
        BY <2>1, <4>1 DEF PlayingIsMarked
    <3>4. CASE Disconnect(p)
      BY <2>1, <3>4 DEF Disconnect, PlayingIsMarked
    <3>5. CASE QUERY_LOGOUT(p)
      BY <2>1, <3>5 DEF QUERY_LOGOUT, PlayingIsMarked
    <3> QED
      BY <2>5, <3>1, <3>2, <3>3, <3>4, <3>5 DEF PlayerStep
  <2>6. CASE CoreCrash
    BY <2>1, <2>6 DEF CoreCrash, PlayingIsMarked
  <2>7. CASE MainExec \/ AsyncExec \/ UNCHANGED vars
    BY <2>2, <2>7 DEF MainExec, AsyncExec, vars, sessionVars, loginVars
  <2>8. CASE AnalyzeQueryResult
    <3> DEFINE m == Head(res)
    <3>1. \/ play' = play /\ phase' = phase
          \/ /\ play' = play \cup {m.owner}
             /\ phase' \in {phase, [phase EXCEPT ![m.owner] = "game"]}
      BY <2>8 DEF AnalyzeQueryResult, RESULT_PLAYER_LOAD, RESULT_ITEM_LOAD
    <3> HIDE DEF m
    <3> QED
      BY <2>1, <3>1 DEF PlayingIsMarked
  <2> QED
    BY <2>3, <2>4, <2>5, <2>6, <2>7, <2>8 DEF Next
<1> QED
  BY <1>1, <1>2, TypeInvInit, TypeInvStep, PTL DEF Spec

-----------------------------------------------------------------------------
(* What a queue will have written *)

\* What MySQL holds for i when statement k of the queue q is executed, r being
\* its row now.
WritesIn(q, i, k) == {j \in DOMAIN q : j < k /\ q[j].op = "write" /\ q[j].item = i}
RowOf(m) == [owner |-> m.owner, ver |-> m.ver]
RowAt(q, r, i, k) ==
  IF WritesIn(q, i, k) = {} THEN r ELSE RowOf(q[Max(WritesIn(q, i, k))])

\* A set of the first numbers that is not empty has a greatest element.
LEMMA MaxOf ==
  ASSUME NEW n \in Nat, NEW T \in SUBSET (1..n), T # {}
  PROVE  Max(T) \in T /\ \A j \in T : j <= Max(T)
<1> DEFINE R == {x \in Nat \X Nat : x[1] < x[2]}
           above == {n - j : j \in T}
<1>1. IsWellFoundedOn(R, Nat)
  BY NatLessThanWellFounded, Zenon DEF OpToRel
<1>2. above \subseteq Nat /\ above # {}
  OBVIOUS
<1>3. PICK x \in above : \A y \in above : ~ (<<y, x>> \in R)
  <2> HIDE DEF R, above
  <2> QED
    BY <1>1, <1>2, WFMin
<1>4. PICK m \in T : x = n - m
  OBVIOUS
<1>5. ASSUME NEW j \in T PROVE m >= j
  <2>1. n - j \in above /\ n - j \in Nat /\ x \in Nat
    BY <1>2
  <2>2. ~ (n - j < x)
    BY <1>3, <2>1
  <2> QED
    BY <1>4, <2>2
<1>6. \A j \in T : Max(T) >= j /\ Max(T) \in T
  BY <1>4, <1>5 DEF Max
<1> QED
  BY <1>4, <1>6

\* The row stays when nothing writes the item, ...
LEMMA RowAtNone ==
  ASSUME NEW q, NEW r, NEW i, NEW k, WritesIn(q, i, k) = {}
  PROVE  RowAt(q, r, i, k) = r
  BY DEF RowAt

\* ... and is that of the last write otherwise.
LEMMA RowAtLast ==
  ASSUME NEW q \in Seq(Statement), NEW r, NEW i, NEW k,
         NEW j \in WritesIn(q, i, k), \A l \in WritesIn(q, i, k) : l <= j
  PROVE  RowAt(q, r, i, k) = RowOf(q[j])
<1>1. WritesIn(q, i, k) \in SUBSET (1..Len(q)) /\ Len(q) \in Nat
  BY DEF WritesIn
<1>2. /\ Max(WritesIn(q, i, k)) \in WritesIn(q, i, k)
      /\ j <= Max(WritesIn(q, i, k))
  BY <1>1, MaxOf
<1>3. Max(WritesIn(q, i, k)) = j
  <2>1. Max(WritesIn(q, i, k)) <= j
    BY <1>2
  <2>2. j \in Nat /\ Max(WritesIn(q, i, k)) \in Nat
    BY <1>1, <1>2
  <2> QED
    BY <1>2, <2>1, <2>2
<1> QED
  BY <1>3 DEF RowAt

\* If there is a write, one of them is the last.
LEMMA LastWrite ==
  ASSUME NEW q \in Seq(Statement), NEW i, NEW k, WritesIn(q, i, k) # {}
  PROVE  \E j \in WritesIn(q, i, k) : \A l \in WritesIn(q, i, k) : l <= j
<1>1. WritesIn(q, i, k) \in SUBSET (1..Len(q)) /\ Len(q) \in Nat
  BY DEF WritesIn
<1> QED
  BY <1>1, MaxOf

\* Queues with the same writes leave the same.
LEMMA RowAtSame ==
  ASSUME NEW q \in Seq(Statement), NEW u \in Seq(Statement), NEW r, NEW i, NEW k, NEW l,
         WritesIn(q, i, k) = WritesIn(u, i, l),
         \A j \in WritesIn(q, i, k) : RowOf(u[j]) = RowOf(q[j])
  PROVE  RowAt(q, r, i, k) = RowAt(u, r, i, l)
<1>1. CASE WritesIn(q, i, k) = {}
  BY <1>1 DEF RowAt
<1>2. CASE WritesIn(q, i, k) # {}
  <2>1. PICK j \in WritesIn(q, i, k) : \A h \in WritesIn(q, i, k) : h <= j
    BY <1>2, LastWrite
  <2>2. RowAt(q, r, i, k) = RowOf(q[j])
    BY <2>1, RowAtLast
  <2>3. j \in WritesIn(u, i, l) /\ \A h \in WritesIn(u, i, l) : h <= j
    BY <2>1
  <2>4. RowAt(u, r, i, l) = RowOf(u[j])
    BY <2>3, RowAtLast
  <2> QED
    BY <2>2, <2>4
<1> QED
  BY <1>1, <1>2

\* A statement is not affected by what is queued after it, ...
LEMMA RowAtPrefix ==
  ASSUME NEW q \in Seq(Statement), NEW w \in Seq(Statement), NEW r, NEW i,
         NEW k \in 1..Len(q) + 1
  PROVE  RowAt(q \o w, r, i, k) = RowAt(q, r, i, k)
<1>1. q \o w \in Seq(Statement) /\ Len(q \o w) = Len(q) + Len(w)
      /\ Len(q) \in Nat /\ Len(w) \in Nat
  OBVIOUS
<1>2. \A j \in 1..Len(q) : (q \o w)[j] = q[j]
  OBVIOUS
<1>3. DOMAIN q = 1..Len(q) /\ DOMAIN (q \o w) = 1..(Len(q) + Len(w))
  BY <1>1
<1>4. \A j \in DOMAIN (q \o w) : j < k => j \in 1..Len(q)
  BY <1>1, <1>3
<1>5. DOMAIN q \subseteq DOMAIN (q \o w)
  BY <1>1, <1>3
<1>6. WritesIn(q \o w, i, k) = WritesIn(q, i, k)
  <2> HIDE DEF WritesIn
  <2>1. ASSUME NEW j PROVE j \in WritesIn(q \o w, i, k) <=> j \in WritesIn(q, i, k)
    BY <1>2, <1>3, <1>4, <1>5, Zenon DEF WritesIn
  <2> QED
    BY <2>1
<1>7. \A j \in WritesIn(q, i, k) : (q \o w)[j] = q[j]
  BY <1>2, <1>3 DEF WritesIn
<1>8. ASSUME NEW u \in Seq(Statement), WritesIn(u, i, k) = WritesIn(q, i, k),
             \A j \in WritesIn(q, i, k) : u[j] = q[j]
      PROVE  RowAt(u, r, i, k) = RowAt(q, r, i, k)
  <2>1. \A j \in WritesIn(q, i, k) : RowOf(u[j]) = RowOf(q[j])
    BY <1>8
  <2> QED
    BY <1>8, <2>1, RowAtSame
<1> QED
  BY <1>1, <1>6, <1>7, <1>8

\* ... and what follows without a write of the item finds what the queue leaves.
LEMMA RowAtOthers ==
  ASSUME NEW q \in Seq(Statement), NEW w \in Seq(Statement), NEW r, NEW i,
         NEW k \in Len(q) + 1..Len(q) + Len(w) + 1,
         \A n \in 1..Len(w) : w[n].op = "write" => w[n].item # i
  PROVE  RowAt(q \o w, r, i, k) = RowAt(q, r, i, Len(q) + 1)
<1> DEFINE u == q \o w
<1>1. u \in Seq(Statement) /\ Len(u) = Len(q) + Len(w)
      /\ Len(q) \in Nat /\ Len(w) \in Nat /\ k \in Nat
  OBVIOUS
<1>2. /\ \A j \in 1..Len(q) : u[j] = q[j]
      /\ \A n \in 1..Len(w) : u[Len(q) + n] = w[n]
  OBVIOUS
<1>3. DOMAIN q = 1..Len(q) /\ DOMAIN u = 1..(Len(q) + Len(w))
  BY <1>1
<1> HIDE DEF u
<1>4. \A j \in DOMAIN u : \/ j \in 1..Len(q)
                          \/ j - Len(q) \in 1..Len(w) /\ Len(q) + (j - Len(q)) = j
  BY <1>1, <1>3
<1>5. \A j \in 1..Len(q) : j < k /\ j < Len(q) + 1 /\ j \in DOMAIN u
  BY <1>1, <1>3
<1>6. \A j \in DOMAIN u : u[j].op = "write" /\ u[j].item = i => j \in 1..Len(q)
  BY <1>2, <1>4
<1>7. ASSUME NEW j
      PROVE  j \in WritesIn(q, i, Len(q) + 1) <=> j \in WritesIn(u, i, k)
  <2>1. ASSUME j \in WritesIn(q, i, Len(q) + 1) PROVE j \in WritesIn(u, i, k)
    BY <1>2, <1>3, <1>5, <2>1, Zenon DEF WritesIn
  <2>2. ASSUME j \in WritesIn(u, i, k) PROVE j \in WritesIn(q, i, Len(q) + 1)
    <3>1. j \in 1..Len(q)
      BY <1>6, <2>2 DEF WritesIn
    <3> QED
      BY <1>2, <1>3, <1>5, <2>2, <3>1, Zenon DEF WritesIn
  <2> QED
    BY <2>1, <2>2
<1>8. WritesIn(q, i, Len(q) + 1) = WritesIn(u, i, k)
  <2> HIDE DEF WritesIn
  <2> QED
    BY <1>7
<1>9. \A j \in WritesIn(q, i, Len(q) + 1) : RowOf(u[j]) = RowOf(q[j])
  BY <1>2, <1>3 DEF WritesIn
<1>10. RowAt(q, r, i, Len(q) + 1) = RowAt(u, r, i, k)
  BY <1>1, <1>8, <1>9, RowAtSame
<1> QED
  BY <1>10 DEF u

\* A write that follows, with no other of the item after it, is what will be left.
WritesLast(w, i, n) ==
  w[n].op = "write" /\ w[n].item = i /\ \A l \in 1..Len(w) : w[l].item = i => l <= n
LEMMA RowAtWrite ==
  ASSUME NEW q \in Seq(Statement), NEW w \in Seq(Statement), NEW r, NEW i,
         NEW n \in 1..Len(w), WritesLast(w, i, n)
  PROVE  RowAt(q \o w, r, i, Len(q) + Len(w) + 1) = RowOf(w[n])
<1> USE DEF WritesLast
<1> DEFINE u == q \o w
           k == Len(q) + Len(w) + 1
<1>1. u \in Seq(Statement) /\ Len(u) = Len(q) + Len(w)
      /\ Len(q) \in Nat /\ Len(w) \in Nat
  OBVIOUS
<1>2. u[Len(q) + n] = w[n] /\ \A l \in 1..Len(w) : u[Len(q) + l] = w[l]
  OBVIOUS
<1>3. DOMAIN u = 1..(Len(q) + Len(w))
  BY <1>1
<1>4. Len(q) + n \in DOMAIN u /\ Len(q) + n < k
  BY <1>1, <1>3
<1>5. \A j \in DOMAIN u : \/ j <= Len(q) + n
                          \/ j - Len(q) \in 1..Len(w) /\ Len(q) + (j - Len(q)) = j
  BY <1>1, <1>3
<1>6. \A l \in 1..Len(w) : l <= n => Len(q) + l <= Len(q) + n
  BY <1>1
<1> HIDE DEF u, k
<1>7. Len(q) + n \in WritesIn(u, i, k)
  BY <1>2, <1>4 DEF WritesIn
<1>8. ASSUME NEW j \in WritesIn(u, i, k) PROVE j <= Len(q) + n
  <2>1. j \in DOMAIN u /\ u[j].item = i
    BY DEF WritesIn
  <2>2. CASE j - Len(q) \in 1..Len(w) /\ Len(q) + (j - Len(q)) = j
    BY <1>2, <1>6, <2>1, <2>2
  <2> QED
    BY <1>5, <2>1, <2>2
<1>9. RowAt(u, r, i, k) = RowOf(u[Len(q) + n])
  BY <1>1, <1>7, <1>8, RowAtLast
<1> QED
  BY <1>2, <1>9 DEF u, k

\* Executing the oldest statement leaves the rest as it was.
LEMMA RowAtTail ==
  ASSUME NEW q \in Seq(Statement), q # <<>>, NEW r, NEW i, NEW k \in 1..Len(q),
         NEW x, x = IF Head(q).op = "write" /\ Head(q).item = i THEN RowOf(Head(q)) ELSE r
  PROVE  RowAt(Tail(q), x, i, k) = RowAt(q, r, i, k + 1)
<1> DEFINE u == Tail(q)
           W == WritesIn(q, i, k + 1)
           V == WritesIn(u, i, k)
<1>1. u \in Seq(Statement) /\ Len(u) = Len(q) - 1 /\ Len(q) \in Nat \ {0} /\ k \in Nat
  OBVIOUS
<1>2. q[1] = Head(q) /\ \A j \in 1..Len(q) - 1 : u[j] = q[j + 1]
  OBVIOUS
<1>3. DOMAIN u = 1..Len(q) - 1 /\ DOMAIN q = 1..Len(q)
  BY <1>1
<1> HIDE DEF u
<1>4. ASSUME NEW j \in V PROVE j + 1 \in W /\ u[j] = q[j + 1]
  <2>1. j \in 1..Len(q) - 1 /\ j < k /\ u[j].op = "write" /\ u[j].item = i
    BY <1>3 DEF WritesIn
  <2>2. j + 1 \in 1..Len(q) /\ j + 1 < k + 1
    BY <1>1, <2>1
  <2> QED
    BY <1>2, <1>3, <2>1, <2>2 DEF WritesIn
<1>5. ASSUME NEW j \in W PROVE j = 1 \/ j - 1 \in V
  <2>1. j \in 1..Len(q) /\ j < k + 1 /\ q[j].op = "write" /\ q[j].item = i
    BY <1>3 DEF WritesIn
  <2>2. CASE j # 1
    <3>1. j - 1 \in 1..Len(q) - 1 /\ j - 1 < k /\ (j - 1) + 1 = j
      BY <1>1, <2>1, <2>2
    <3> QED
      BY <1>2, <1>3, <2>1, <3>1 DEF WritesIn
  <2> QED
    BY <2>2
<1>6. V \subseteq Nat /\ W \subseteq Nat \ {0}
  BY <1>1, <1>3 DEF WritesIn
<1>7. 1 \in W <=> Head(q).op = "write" /\ Head(q).item = i
  <2>1. 1 \in DOMAIN q /\ 1 < k + 1
    BY <1>1, <1>3
  <2> QED
    BY <1>2, <2>1 DEF WritesIn
<1> HIDE DEF V, W
<1>8. CASE V # {}
  <2>1. PICK j \in V : \A l \in V : l <= j
    BY <1>1, <1>8, LastWrite DEF V
  <2>2. RowAt(u, x, i, k) = RowOf(u[j])
    BY <1>1, <2>1, RowAtLast DEF V
  <2>3. ASSUME NEW l \in W PROVE l <= j + 1
    BY <1>5, <1>6, <2>1
  <2>4. RowAt(q, r, i, k + 1) = RowOf(q[j + 1])
    BY <1>4, <2>1, <2>3, RowAtLast DEF W
  <2> QED
    BY <1>4, <2>2, <2>4 DEF u
<1>9. CASE V = {} /\ 1 \in W
  <2>1. \A l \in W : l <= 1
    BY <1>5, <1>9
  <2>2. RowAt(q, r, i, k + 1) = RowOf(q[1])
    BY <1>9, <2>1, RowAtLast DEF W
  <2>3. RowAt(u, x, i, k) = x
    BY <1>9, RowAtNone DEF V
  <2> QED
    BY <1>2, <1>7, <1>9, <2>2, <2>3 DEF u
<1>10. CASE V = {} /\ 1 \notin W
  <2>1. W = {}
    BY <1>5, <1>10
  <2> QED
    BY <1>7, <1>10, <2>1, RowAtNone DEF u, V, W
<1> QED
  BY <1>8, <1>9, <1>10

\* Redirected answers write nothing.
LEMMA RowAtRedirect ==
  ASSUME NEW q \in Seq(Statement), NEW S, NEW t \in To, NEW r, NEW i, NEW k
  PROVE  RowAt(Redirect(q, S, t), r, i, k) = RowAt(q, r, i, k)
<1> DEFINE u == Redirect(q, S, t)
<1>1. u \in Seq(Statement) /\ DOMAIN u = DOMAIN q
  BY RedirectMain DEF Redirect
<1>2. ASSUME NEW j \in DOMAIN q
      PROVE  u[j].op = q[j].op /\ u[j].item = q[j].item /\ RowOf(u[j]) = RowOf(q[j])
  <2>1. q[j] \in Statement
    OBVIOUS
  <2>2. u[j] \in {q[j], [q[j] EXCEPT !.to = t]}
    BY DEF Redirect
  <2> QED
    BY <2>1, <2>2 DEF Statement, RowOf
<1> HIDE DEF u
<1>3. WritesIn(q, i, k) = WritesIn(u, i, k)
  BY <1>1, <1>2 DEF WritesIn
<1>4. \A j \in WritesIn(q, i, k) : RowOf(u[j]) = RowOf(q[j])
  BY <1>2 DEF WritesIn
<1>5. RowAt(q, r, i, k) = RowAt(u, r, i, k)
  BY <1>1, <1>3, <1>4, RowAtSame
<1> QED
  BY <1>5 DEF u

\* What MySQL will hold in the end is what the whole queue leaves.
LEMMA FutureIsRowAt ==
  ASSUME NEW q \in Seq(Statement), NEW i
  PROVE  {k \in DOMAIN q : q[k].op = "write" /\ q[k].item = i}
           = WritesIn(q, i, Len(q) + 1)
<1>1. \A k \in DOMAIN q : k < Len(q) + 1
  OBVIOUS
<1> QED
  BY <1>1 DEF WritesIn

-----------------------------------------------------------------------------
(* Reads in a queue *)

\* The reads of a queue to which another is appended.
LEMMA ReadsConcat ==
  ASSUME NEW S, NEW q \in Seq(S), NEW w \in Seq(S), NEW p
  PROVE  Reads(q \o w, p) = Reads(q, p) \cup {Len(q) + n : n \in Reads(w, p)}
<1> DEFINE u == q \o w
<1>1. Len(u) = Len(q) + Len(w) /\ Len(q) \in Nat /\ Len(w) \in Nat
      /\ DOMAIN u = 1..(Len(q) + Len(w)) /\ DOMAIN q = 1..Len(q) /\ DOMAIN w = 1..Len(w)
  OBVIOUS
<1>2. /\ \A j \in 1..Len(q) : u[j] = q[j]
      /\ \A n \in 1..Len(w) : u[Len(q) + n] = w[n]
  OBVIOUS
<1> HIDE DEF u
<1>3. \A j \in DOMAIN u : \/ j \in 1..Len(q)
                          \/ j - Len(q) \in 1..Len(w) /\ Len(q) + (j - Len(q)) = j
  BY <1>1
<1>4. /\ \A j \in 1..Len(q) : j \in DOMAIN u
      /\ \A n \in 1..Len(w) : Len(q) + n \in DOMAIN u
  BY <1>1
<1>5. Reads(u, p) = Reads(q, p) \cup {Len(q) + n : n \in Reads(w, p)}
  <2>1. ASSUME NEW k \in Reads(u, p)
        PROVE  k \in Reads(q, p) \/ \E n \in Reads(w, p) : k = Len(q) + n
    <3>1. k \in DOMAIN u /\ u[k].op = "item" /\ u[k].owner = p
      BY DEF Reads
    <3>2. CASE k \in 1..Len(q)
      BY <1>1, <1>2, <3>1, <3>2 DEF Reads
    <3>3. CASE k - Len(q) \in 1..Len(w) /\ Len(q) + (k - Len(q)) = k
      <4>1. w[k - Len(q)] = u[k]
        BY <1>2, <3>3
      <4> QED
        BY <1>1, <3>1, <3>3, <4>1 DEF Reads
    <3> QED
      BY <1>3, <3>1, <3>2, <3>3
  <2>2. \A k \in Reads(q, p) : k \in Reads(u, p)
    BY <1>1, <1>2, <1>4 DEF Reads
  <2>3. \A n \in Reads(w, p) : Len(q) + n \in Reads(u, p)
    BY <1>1, <1>2, <1>4 DEF Reads
  <2> QED
    BY <2>1, <2>2, <2>3
<1> QED
  BY <1>5 DEF u

LEMMA ReadsNone ==
  ASSUME NEW S, NEW q \in Seq(S), NEW w \in Seq(S), NEW p, Reads(w, p) = {}
  PROVE  Reads(q \o w, p) = Reads(q, p)
<1>1. Reads(q \o w, p) = Reads(q, p) \cup {Len(q) + n : n \in Reads(w, p)}
  BY ReadsConcat
<1> QED
  BY <1>1

\* Executing the oldest statement moves the reads up by one.
LEMMA ReadsTail ==
  ASSUME NEW S, NEW q \in Seq(S), q # <<>>, NEW p, NEW k
  PROVE  k \in Reads(Tail(q), p) <=> k \in Nat \ {0} /\ k + 1 \in Reads(q, p)
<1>1. /\ DOMAIN Tail(q) = 1..Len(q) - 1 /\ DOMAIN q = 1..Len(q) /\ Len(q) \in Nat
      /\ \A j \in 1..Len(q) - 1 : Tail(q)[j] = q[j + 1]
  OBVIOUS
<1>2. k \in 1..Len(q) - 1 <=> k \in Nat \ {0} /\ k + 1 \in 1..Len(q)
  BY <1>1
<1> QED
  BY <1>1, <1>2 DEF Reads

\* Redirected answers keep everything but whom they are for.
LEMMA RedirectFields ==
  ASSUME NEW m \in Statement \cup Result, NEW t
  PROVE  LET x == [m EXCEPT !.to = t]
         IN  /\ x.op = m.op /\ x.owner = m.owner /\ x.to = t
             /\ m \in Result => x.rows = m.rows
  BY DEF Statement, Result

\* The writes of a set of entries: each of its dirty ones, once.
WritesOut(w, S) ==
  /\ w \in Seq(Statement)
  /\ \A n \in 1..Len(w) : w[n].op = "write" /\ w[n].item \in Dirty(S)
  /\ \A i \in Dirty(S) : \E n \in 1..Len(w) :
       w[n] = OnFlush(i, entry[i]) /\ WritesLast(w, i, n)

\* Every order a set may be written in is of this kind.
LEMMA FlushOrdersAre ==
  ASSUME CacheInv, NEW S \in SUBSET Item, NEW w \in FlushOrders(S)
  PROVE  WritesOut(w, S)
<1> DEFINE D == Dirty(S)
           c == Cardinality(D)
<1>1. IsFiniteSet(D) /\ D \subseteq Item
  BY CacheAssumption, FS_Subset DEF Dirty
<1>2. c \in Nat
  BY <1>1, FS_CardinalityType
<1>3. PICK q \in [1..c -> D] :
        /\ \A k, l \in 1..c : k # l => q[k] # q[l]
        /\ w = [k \in DOMAIN q |-> OnFlush(q[k], entry[q[k]])]
  BY DEF FlushOrders, SetToSeqs
<1>4. w \in Seq(Statement)
  BY FlushOrdersType
<1>5. DOMAIN w = 1..c /\ Len(w) = c
  <2>1. DOMAIN w = 1..c
    BY <1>3
  <2> QED
    BY <1>2, <1>4, <2>1
<1>6. q \in Surjection(1..c, D)
  <2> HIDE DEF c
  <2>1. q \in Injection(1..c, D)
    BY <1>3 DEF Injection, IsInjective
  <2>2. IsFiniteSet(1..c) /\ Cardinality(1..c) = c
    BY <1>2, FS_Interval
  <2> QED
    BY <1>1, <2>1, <2>2, FS_Injection DEF c
<1> HIDE DEF c, D
<1>7. \A n \in 1..c : w[n] = OnFlush(q[n], entry[q[n]])
  BY <1>3
<1>8. ASSUME NEW i \in D
      PROVE  \E n \in 1..c : /\ w[n] = OnFlush(i, entry[i])
                             /\ \A l \in 1..c : w[l].item = i => l <= n
  <2>1. PICK n \in 1..c : q[n] = i
    BY <1>6 DEF Surjection
  <2>2. \A l \in 1..c : w[l].item = i => l = n
    BY <1>3, <1>7, <2>1 DEF OnFlush
  <2> QED
    BY <1>2, <1>7, <2>1, <2>2
<1>9. \A n \in 1..c : w[n].op = "write" /\ w[n].item \in D
  BY <1>3, <1>7 DEF OnFlush
<1>10. \A i \in D : \E n \in 1..c : w[n] = OnFlush(i, entry[i]) /\ WritesLast(w, i, n)
  BY <1>5, <1>8 DEF WritesLast, OnFlush
<1> QED
  BY <1>4, <1>5, <1>9, <1>10 DEF D, WritesOut

-----------------------------------------------------------------------------
(* The queries that are under way, when cores behave *)

\* What the environment must not do for the last save to win.
Orderly ==
  /\ ~Safebox /\ ~WildDrop /\ ~FlushPacket /\ TimersInOrder
  /\ MaxCrash = 0 /\ MaxRead <= 1

Pending(p) == Reads(main, p) # {} \/ Reads(res, p) # {}

\* A player's items are read once at a time, after the player himself.
OneRead ==
  \A p \in Player :
    /\ \A k, l \in Reads(main, p) : k = l
    /\ \A k, l \in Reads(res, p) : k = l
    /\ Reads(main, p) = {} \/ Reads(res, p) = {}
ItemsFollow ==
  /\ \A k \in 1..Len(main) : main[k].op = "player" =>
        \E l \in Reads(main, main[k].owner) : l > k
  /\ \A k \in 1..Len(res) : res[k].op = "player" =>
        \/ \E l \in Reads(res, res[k].owner) : l > k
        \/ Reads(main, res[k].owner) # {}

\* Who answers are for: to a player who is not leaving, or to nobody's descriptor.
Addressed(m) ==
  m.op \in {"player", "item"} =>
    m.to # "nopeer" /\ (m.to = "desc" => m.owner \notin leaving)
Answered == /\ \A k \in 1..Len(main) : Addressed(main[k])
            /\ \A k \in 1..Len(res) : Addressed(res[k])

QueueInv == OneRead /\ ItemsFollow /\ Answered

\* What is queued may read the items of players who have no read under way.
LEMMA QueuedKeeps ==
  ASSUME TypeInv, QueueInv, NEW w \in Seq(Statement), main' = main \o w, res' = res,
         leaving' \subseteq leaving,
         \A n \in 1..Len(w) :
           /\ w[n].op = "player" => \E l \in Reads(w, w[n].owner) : l > n
           /\ w[n].op \in {"player", "item"} =>
                w[n].to # "nopeer" /\ (w[n].to = "desc" => w[n].owner \notin leaving'),
         \A p \in Player : /\ \A k, l \in Reads(w, p) : k = l
                           /\ Reads(w, p) # {} => ~Pending(p)
  PROVE  QueueInv'
<1>1. /\ main \in Seq(Statement) /\ res \in Seq(Result)
      /\ Len(main) \in Nat /\ Len(w) \in Nat /\ Len(main') = Len(main) + Len(w)
  BY DEF TypeInv, SqlInv
<1>2. /\ \A j \in 1..Len(main) : main'[j] = main[j]
      /\ \A n \in 1..Len(w) : main'[Len(main) + n] = w[n]
  BY <1>1
<1>3. \A j \in 1..Len(main') :
        \/ j \in 1..Len(main)
        \/ j - Len(main) \in 1..Len(w) /\ Len(main) + (j - Len(main)) = j
  BY <1>1
<1>4. \A p : Reads(main', p) = Reads(main, p) \cup {Len(main) + n : n \in Reads(w, p)}
  BY <1>1, ReadsConcat
<1>5. OneRead'
  <2> SUFFICES ASSUME NEW p \in Player
               PROVE  /\ \A k, l \in Reads(main', p) : k = l
                      /\ \A k, l \in Reads(res', p) : k = l
                      /\ Reads(main', p) = {} \/ Reads(res', p) = {}
    BY DEF OneRead
  <2>1. /\ \A k, l \in Reads(main, p) : k = l
        /\ \A k, l \in Reads(res, p) : k = l
        /\ Reads(main, p) = {} \/ Reads(res, p) = {}
    BY DEF QueueInv, OneRead
  <2>2. CASE Reads(w, p) = {}
    <3>1. Reads(main', p) = Reads(main, p)
      BY <1>1, <2>2, ReadsNone
    <3> QED
      BY <2>1, <3>1
  <2>3. CASE Reads(w, p) # {}
    <3>1. Reads(main, p) = {} /\ Reads(res, p) = {}
      BY <2>3 DEF Pending
    <3>2. Reads(main', p) = {Len(main) + n : n \in Reads(w, p)}
      BY <1>4, <3>1
    <3>3. \A k, l \in Reads(w, p) : k = l
      OBVIOUS
    <3> QED
      BY <3>1, <3>2, <3>3
  <2> QED
    BY <2>2, <2>3
<1>6. ItemsFollow'
  <2>1. ASSUME NEW k \in 1..Len(main'), main'[k].op = "player"
        PROVE  \E l \in Reads(main', main'[k].owner) : l > k
    <3>1. CASE k \in 1..Len(main)
      <4>1. PICK l \in Reads(main, main[k].owner) : l > k
        BY <1>2, <2>1, <3>1 DEF QueueInv, ItemsFollow
      <4>2. l \in Reads(main', main'[k].owner)
        BY <1>2, <1>4, <3>1
      <4> QED
        BY <4>1, <4>2
    <3>2. CASE k - Len(main) \in 1..Len(w) /\ Len(main) + (k - Len(main)) = k
      <4> DEFINE n == k - Len(main)
      <4>1. n \in 1..Len(w) /\ main'[k] = w[n] /\ k = Len(main) + n
        BY <1>2, <3>2
      <4> HIDE DEF n
      <4>2. PICK l \in Reads(w, w[n].owner) : l > n
        BY <2>1, <4>1
      <4>3. l \in 1..Len(w)
        BY DEF Reads
      <4>4. Len(main) + l > k
        BY <1>1, <4>1, <4>2, <4>3
      <4>5. Len(main) + l \in Reads(main', main'[k].owner)
        BY <1>4, <4>1, <4>2
      <4> QED
        BY <4>4, <4>5
    <3> QED
      BY <1>3, <3>1, <3>2
  <2>2. \A k \in 1..Len(res) : res[k].op = "player" =>
           \/ \E l \in Reads(res, res[k].owner) : l > k
           \/ Reads(main', res[k].owner) # {}
    <3> SUFFICES ASSUME NEW k \in 1..Len(res), res[k].op = "player"
                 PROVE  \/ \E l \in Reads(res, res[k].owner) : l > k
                        \/ Reads(main', res[k].owner) # {}
      OBVIOUS
    <3>1. \/ \E l \in Reads(res, res[k].owner) : l > k
          \/ Reads(main, res[k].owner) # {}
      BY DEF QueueInv, ItemsFollow
    <3>2. Reads(main, res[k].owner) \subseteq Reads(main', res[k].owner)
      BY <1>4
    <3> QED
      BY <3>1, <3>2
  <2> QED
    BY <2>1, <2>2 DEF ItemsFollow
<1>7. Answered'
  <2>1. \A k \in 1..Len(main) : Addressed(main[k])
    BY DEF QueueInv, Answered
  <2>2. \A k \in 1..Len(res) : Addressed(res[k])
    BY DEF QueueInv, Answered
  <2>3. ASSUME NEW k \in 1..Len(main'), main'[k].op \in {"player", "item"}
        PROVE  /\ main'[k].to # "nopeer"
               /\ main'[k].to = "desc" => main'[k].owner \notin leaving'
    <3>1. CASE k \in 1..Len(main)
      BY <1>2, <2>1, <2>3, <3>1 DEF Addressed
    <3>2. CASE k - Len(main) \in 1..Len(w) /\ Len(main) + (k - Len(main)) = k
      BY <1>2, <2>3, <3>2
    <3> QED
      BY <1>3, <3>1, <3>2
  <2> QED
    BY <2>2, <2>3 DEF Answered, Addressed
<1> QED
  BY <1>5, <1>6, <1>7 DEF QueueInv

\* Writes read nothing.
LEMMA WritesKeep ==
  ASSUME TypeInv, QueueInv, NEW w \in Seq(Statement), main' = main \o w, res' = res,
         leaving' \subseteq leaving, \A n \in 1..Len(w) : w[n].op = "write"
  PROVE  QueueInv' /\ \A p : Reads(main', p) = Reads(main, p)
<1>1. \A p : Reads(w, p) = {}
  BY DEF Reads
<1>2. main \in Seq(Statement)
  BY DEF TypeInv, SqlInv
<1>3. \A p : Reads(main', p) = Reads(main, p)
  BY <1>1, <1>2, ReadsNone
<1>4. QueueInv'
  BY <1>1, QueuedKeeps
<1> QED
  BY <1>3, <1>4

\* Only writes were queued, and no player left.
Wrote ==
  /\ \E w \in Seq(Statement) : /\ main' = main \o w
                               /\ \A n \in 1..Len(w) : w[n].op = "write"
  /\ res' = res /\ leaving' \subseteq leaving

\* Then every read stays where it is.
LEMMA WroteKeeps ==
  ASSUME TypeInv, QueueInv, Wrote
  PROVE  /\ QueueInv'
         /\ \A p : Reads(main', p) = Reads(main, p) /\ Reads(res', p) = Reads(res, p)
         /\ \A p : Pending(p)' <=> Pending(p)
<1>1. PICK w \in Seq(Statement) : main' = main \o w /\ \A n \in 1..Len(w) : w[n].op = "write"
  BY DEF Wrote
<1>2. QueueInv' /\ \A p : Reads(main', p) = Reads(main, p)
  BY <1>1, WritesKeep DEF Wrote
<1>3. res' = res
  BY DEF Wrote
<1> QED
  BY <1>2, <1>3 DEF Pending

\* A write that is queued, or a step that queues nothing, is such a step.
LEMMA WroteOne ==
  ASSUME TypeInv, NEW m \in Statement, m.op = "write",
         main' = main \/ main' = Append(main, m), res' = res, leaving' \subseteq leaving
  PROVE  Wrote
<1>1. main \in Seq(Statement)
  BY DEF TypeInv, SqlInv
<1>2. CASE main' = main
  <2>1. main' = main \o << >> /\ << >> \in Seq(Statement) /\ Len(<< >>) = 0
    BY <1>1, <1>2
  <2>2. \A n \in 1..0 : << >>[n].op = "write"
    OBVIOUS
  <2> QED
    BY <2>1, <2>2 DEF Wrote
<1>3. CASE main' = Append(main, m)
  <2>1. main' = main \o <<m>> /\ <<m>> \in Seq(Statement)
        /\ \A n \in 1..Len(<<m>>) : <<m>>[n].op = "write"
    BY <1>1, <1>3
  <2> QED
    BY <2>1 DEF Wrote
<1> QED
  BY <1>2, <1>3

LEMMA WroteNothing ==
  ASSUME TypeInv, UNCHANGED <<main, res>>, leaving' \subseteq leaving
  PROVE  Wrote
<1>1. main \in Seq(Statement) /\ << >> \in Seq(Statement) /\ Len(<< >>) = 0
  BY DEF TypeInv, SqlInv
<1>2. main' = main \o << >>
  BY <1>1
<1>3. \A n \in 1..0 : << >>[n].op = "write"
  OBVIOUS
<1> QED
  BY <1>1, <1>2, <1>3 DEF Wrote

\* The entry QUERY_ITEM_DESTROY leaves, and the one QUERY_ITEM_SAVE puts.
Deleted(i) == [entry[i] EXCEPT !.ver = 0, !.dirty = FALSE, !.since = {}]
LEMMA DeletedIs ==
  ASSUME CacheInv, NEW i \in Item
  PROVE  /\ Deleted(i) \in Entry
         /\ Deleted(i).ver = 0 /\ Deleted(i).dirty = FALSE
<1>1. entry[i] \in Entry /\ 0 \in 0..MaxVer
  BY CacheAssumption DEF CacheInv
<1>2. /\ Deleted(i).ver = 0 /\ Deleted(i).dirty = FALSE
      /\ Deleted(i) \in [owner : Player \cup {NoOne}, ver : 0..MaxVer,
                         dirty : BOOLEAN, since : SUBSET Player]
  BY <1>1 DEF Entry, Deleted
<1> QED
  BY <1>2 DEF Entry

Saved(i, o, v) ==
  [owner |-> o, ver |-> v, dirty |-> o \in hasSet,
   since |-> IF o \in hasSet /\ i \in cached /\ entry[i].dirty THEN entry[i].since ELSE {}]
LEMMA SavedIs ==
  ASSUME CacheInv, NEW i \in Item, NEW o \in Player, NEW v \in 1..MaxVer,
         PutItemCache(i, o, v)
  PROVE  /\ Saved(i, o, v) \in Entry
         /\ entry' = [entry EXCEPT ![i] = Saved(i, o, v)]
         /\ main' = IF o \in hasSet THEN main
                    ELSE Append(main, OnFlush(i, Saved(i, o, v)))
<1> DEFINE old == IF i \in cached /\ entry[i].dirty THEN entry[i].since ELSE {}
           e == [owner |-> o, ver |-> v, dirty |-> o \in hasSet,
                 since |-> IF o \in hasSet THEN old ELSE {}]
<1>1. e = Saved(i, o, v)
  <2>1. (IF o \in hasSet THEN old ELSE {}) =
          (IF o \in hasSet /\ i \in cached /\ entry[i].dirty THEN entry[i].since ELSE {})
    OBVIOUS
  <2> QED
    BY <2>1 DEF Saved
<1>2. /\ entry' = [entry EXCEPT ![i] = e]
      /\ main' = IF o \in hasSet THEN main ELSE Append(main, OnFlush(i, e))
  BY DEF PutItemCache
<1>3. e \in Entry
  <2>1. old \in SUBSET Player
    BY DEF CacheInv, Entry
  <2>2. v \in 0..MaxVer /\ v # 0
    BY CacheAssumption
  <2>3. (o \in hasSet) \in BOOLEAN
    OBVIOUS
  <2> HIDE DEF old
  <2> QED
    BY <2>1, <2>2, <2>3 DEF Entry
<1> HIDE DEF e
<1> QED
  BY <1>1, <1>2, <1>3

LEMMA FlushWrote ==
  ASSUME TypeInv, NEW S \in SUBSET Item, NEW w \in FlushOrders(S), main' = main \o w,
         res' = res, leaving' \subseteq leaving
  PROVE  Wrote
<1>1. CacheInv
  BY DEF TypeInv
<1>2. w \in Seq(Statement) /\ \A n \in 1..Len(w) : w[n].op = "write"
  BY <1>1, FlushOrdersAre DEF WritesOut
<1> QED
  BY <1>2 DEF Wrote

\* Whatever is neither asked, answered nor executed at most writes.
LEMMA MostlyWrites ==
  ASSUME Orderly, TypeInv, NEW p, NEW i,
         \/ i \in Item /\ ItemStep(i)
         \/ p \in Player /\ i \in Item /\ PlayerItemStep(p, i)
         \/ p \in Player /\ \/ UpdatePlayerCache(p) \/ UpdateLogoutPlayer(p)
                            \/ QUERY_FLUSH_CACHE(p)
                            \/ Login(p) \/ QUERY_PLAYER_SAVE(p) \/ Disconnect(p)
         \/ AsyncExec
         \/ UNCHANGED vars
  PROVE  Wrote
<1>1. CacheInv /\ entry \in [Item -> Entry]
  BY DEF TypeInv, CacheInv
<1>2. ASSUME NEW j \in Item, NEW o \in Player, NEW v \in 1..MaxVer,
             QUERY_ITEM_SAVE(j, o, v), leaving' = leaving
      PROVE  Wrote
  <2>1. /\ Saved(j, o, v) \in Entry
        /\ main' = main \/ main' = Append(main, OnFlush(j, Saved(j, o, v)))
    BY <1>1, <1>2, SavedIs DEF QUERY_ITEM_SAVE
  <2>2. OnFlush(j, Saved(j, o, v)) \in Statement /\ OnFlush(j, Saved(j, o, v)).op = "write"
    BY <2>1, OnFlushType DEF OnFlush
  <2>3. res' = res
    BY <1>2 DEF QUERY_ITEM_SAVE
  <2> QED
    BY <1>2, <2>1, <2>2, <2>3, WroteOne
<1>3. ASSUME NEW j \in Item, NEW last, QUERY_ITEM_DESTROY(j, last), leaving' = leaving
      PROVE  Wrote
  <2>1. /\ main' = main \/ main' = Append(main, OnFlush(j, Deleted(j)))
        /\ res' = res
    BY <1>3 DEF QUERY_ITEM_DESTROY, Deleted
  <2>2. OnFlush(j, Deleted(j)) \in Statement /\ OnFlush(j, Deleted(j)).op = "write"
    BY <1>1, DeletedIs, OnFlushType DEF OnFlush
  <2> QED
    BY <1>3, <2>1, <2>2, WroteOne
<1>4. CASE i \in Item /\ UpdateItemCache(i)
  <2>1. OnFlush(i, entry[i]) \in Statement /\ OnFlush(i, entry[i]).op = "write"
    BY <1>1, <1>4, OnFlushType DEF OnFlush
  <2> QED
    BY <1>4, <2>1, WroteOne DEF UpdateItemCache, loginVars
<1>5. CASE i \in Item /\ (DropNew(i) \/ DestroyItem(i))
  BY <1>3, <1>5 DEF Orderly, DropNew, DestroyItem, loginVars
<1>6. CASE i \in Item /\ SaveSingleItem(i)
  <2>1. leaving' = leaving
    BY <1>6 DEF SaveSingleItem, loginVars
  <2>2. item[i].at \in Player => item[i].ver \in 1..MaxVer
    <3>1. item[i] \in Object
      BY <1>6 DEF TypeInv, GameInv
    <3>2. item[i].at \in Player => item[i].ver \in 0..MaxVer /\ item[i].ver # 0
      BY <3>1 DEF Object
    <3> QED
      BY <3>2, CacheAssumption
  <2> QED
    BY <1>2, <1>3, <1>6, <2>1, <2>2 DEF SaveSingleItem
<1>7. CASE p \in Player /\ i \in Item /\ \E q \in Player : Exchange(p, q, i)
  <2>1. PICK q \in Player : Exchange(p, q, i)
    BY <1>7
  <2>2. item[i].ver + 1 \in 1..MaxVer
    <3>1. item[i] \in Object
      BY <1>7 DEF TypeInv, GameInv
    <3>2. item[i].ver \in 0..MaxVer /\ item[i].ver < MaxVer
      BY <2>1, <3>1 DEF Object, Exchange
    <3> QED
      BY <3>2, CacheAssumption
  <2> QED
    BY <1>2, <1>7, <2>1, <2>2 DEF Exchange, loginVars
<1>8. CASE p \in Player /\ i \in Item /\ DropItem(p, i)
  BY <1>3, <1>8 DEF DropItem, loginVars
<1>9. CASE p \in Player /\ i \in Item /\ (SafeboxCheckin(p, i) \/ SafeboxCheckout(p, i))
  <2>1. CASE SafeboxCheckin(p, i)
    BY <2>1 DEF SafeboxCheckin, Orderly
  <2>2. CASE SafeboxCheckout(p, i)
    <3> DEFINE e == [owner |-> p, ver |-> item[i].ver + 1, dirty |-> FALSE, since |-> {}]
    <3>1. main' = Append(main, OnFlush(i, e)) /\ res' = res /\ leaving' = leaving
      BY <2>2 DEF SafeboxCheckout, loginVars
    <3>2. e \in Entry
      <4>1. item[i] \in Object
        BY <1>9 DEF TypeInv, GameInv
      <4>2. item[i].ver + 1 \in 0..MaxVer /\ item[i].ver + 1 # 0
        <5>1. item[i].ver \in 0..MaxVer /\ item[i].ver < MaxVer
          BY <2>2, <4>1 DEF Object, SafeboxCheckout
        <5> QED
          BY <5>1, CacheAssumption
      <4> QED
        BY <1>9, <4>2 DEF Entry
    <3> HIDE DEF e
    <3>3. OnFlush(i, e) \in Statement /\ OnFlush(i, e).op = "write"
      BY <1>9, <3>2, OnFlushType DEF OnFlush
    <3> QED
      BY <3>1, <3>3, WroteOne
  <2> QED
    BY <1>9, <2>1, <2>2
<1>10. CASE p \in Player /\ (UpdatePlayerCache(p) \/ UpdateLogoutPlayer(p))
  <2>1. set[p] \in SUBSET Item /\ res' = res /\ leaving' \subseteq leaving
    BY <1>10 DEF TypeInv, CacheInv, UpdatePlayerCache, UpdateLogoutPlayer, loginVars
  <2>2. \/ main' = main
        \/ \E w \in FlushOrders(set[p]) : main' = main \o w
    BY <1>10 DEF UpdatePlayerCache, UpdateLogoutPlayer, FlushItemCacheSet
  <2> QED
    BY <2>1, <2>2, FlushWrote, WroteNothing
<1>11. CASE \/ p \in Player /\ \/ QUERY_FLUSH_CACHE(p) \/ Login(p)
                               \/ QUERY_PLAYER_SAVE(p) \/ Disconnect(p)
            \/ p \in Player /\ i \in Item /\ \/ CreateItem(p, i) \/ Change(p, i)
                                             \/ PickupItem(p, i)
            \/ AsyncExec \/ UNCHANGED vars
  <2>1. UNCHANGED <<main, res>> /\ leaving' = leaving
    BY <1>11 DEF QUERY_FLUSH_CACHE, Orderly, Login, QUERY_PLAYER_SAVE, Disconnect,
       CreateItem, Change, PickupItem, AsyncExec, vars, loginVars, sqlVars
  <2> QED
    BY <2>1, WroteNothing
<1> QED
  BY <1>4, <1>5, <1>6, <1>7, <1>8, <1>9, <1>10, <1>11 DEF ItemStep, PlayerItemStep

\* A load is asked for when none of the player's is under way.
LEMMA NoneUnderWay ==
  ASSUME Orderly, TypeInv, NEW p \in Player, QUERY_PLAYER_LOAD(p)
  PROVE  Reads(main, p) = {} /\ Reads(res, p) = {} /\ ~Pending(p)
<1>1. main \in Seq(Statement) /\ res \in Seq(Result)
  BY DEF TypeInv, SqlInv
<1>2. Reads(main, p) \subseteq 1..Len(main) /\ Reads(res, p) \subseteq 1..Len(res)
  BY <1>1 DEF Reads
<1>3. IsFiniteSet(Reads(main, p)) /\ IsFiniteSet(Reads(res, p))
  <2>1. IsFiniteSet(1..Len(main)) /\ IsFiniteSet(1..Len(res))
    BY <1>1, FS_Interval
  <2> QED
    BY <1>2, <2>1, FS_Subset
<1>4. Cardinality(Reads(main, p)) \in Nat /\ Cardinality(Reads(res, p)) \in Nat
  BY <1>3, FS_CardinalityType
<1>5. Cardinality(Reads(main, p)) + Cardinality(Reads(res, p)) < 1
  <2>1. Cardinality(Reads(main, p)) + Cardinality(Reads(res, p)) < MaxRead
    BY DEF QUERY_PLAYER_LOAD
  <2> QED
    BY <1>4, <2>1, CacheAssumption DEF Orderly
<1>6. Cardinality(Reads(main, p)) = 0 /\ Cardinality(Reads(res, p)) = 0
  BY <1>4, <1>5
<1>7. Reads(main, p) = {} /\ Reads(res, p) = {}
  BY <1>3, <1>6, FS_EmptySet
<1> QED
  BY <1>7 DEF Pending

\* What it queues, if anything, reads the items once, after the player.
LEMMA LoadQueues ==
  ASSUME Orderly, TypeInv, QueueInv, NEW p \in Player, QUERY_PLAYER_LOAD(p)
  PROVE  /\ QueueInv'
         /\ res' = res
         /\ \/ main' = main
            \/ \E w \in Seq(Statement) :
                 /\ main' = main \o w
                 /\ \A n \in 1..Len(w) : w[n].op # "write"
                 /\ Reads(w, p) # {}
                 /\ \A x : x # p => Reads(w, x) = {}
<1> DEFINE one == <<Select("item", p)>>
           two == <<Select("player", p), Select("item", p)>>
<1>1. res' = res /\ leaving' = leaving \ {p}
      /\ (main' = main \/ main' = main \o one \/ main' = main \o two)
  <2>1. main \in Seq(Statement)
    BY DEF TypeInv, SqlInv
  <2>2. Append(main, Select("item", p)) = main \o one
    BY <2>1, SelectType
  <2> QED
    BY <2>2 DEF QUERY_PLAYER_LOAD, LoadFromCache, LoadFromTable, LoadRefused
<1>2. /\ Select("item", p).op = "item" /\ Select("item", p).owner = p
      /\ Select("item", p).to = "desc"
      /\ Select("player", p).op = "player" /\ Select("player", p).owner = p
      /\ Select("player", p).to = "desc"
  BY DEF Select
<1>3. /\ one \in Seq(Statement) /\ Len(one) = 1 /\ DOMAIN one = 1..1
      /\ one[1] = Select("item", p)
  BY SelectType
<1>4. /\ two \in Seq(Statement) /\ Len(two) = 2 /\ DOMAIN two = 1..2
      /\ two[1] = Select("player", p) /\ two[2] = Select("item", p)
  BY SelectType
<1> HIDE DEF one, two
<1>5. \A x : Reads(one, x) = IF x = p THEN {1} ELSE {}
  BY <1>2, <1>3 DEF Reads
<1>6. \A x : Reads(two, x) = IF x = p THEN {2} ELSE {}
  <2>1. 1..2 = {1, 2}
    OBVIOUS
  <2> QED
    BY <1>2, <1>4, <2>1 DEF Reads
<1>7. ~Pending(p)
  BY NoneUnderWay
<1>8. CASE main' = main
  BY <1>1, <1>8, WroteNothing, WroteKeeps
<1>9. CASE main' = main \o one
  <2>1. QueueInv'
    <3>1. \A n \in 1..Len(one) :
            /\ one[n].op = "player" => \E l \in Reads(one, one[n].owner) : l > n
            /\ one[n].op \in {"player", "item"} =>
                 one[n].to # "nopeer" /\ (one[n].to = "desc" => one[n].owner \notin leaving')
      BY <1>1, <1>2, <1>3
    <3>2. \A x \in Player : /\ \A k, l \in Reads(one, x) : k = l
                            /\ Reads(one, x) # {} => ~Pending(x)
      BY <1>5, <1>7
    <3> QED
      BY <1>1, <1>3, <1>9, <3>1, <3>2, QueuedKeeps
  <2>2. \A n \in 1..Len(one) : one[n].op # "write"
    BY <1>2, <1>3
  <2>3. Reads(one, p) # {} /\ \A x : x # p => Reads(one, x) = {}
    BY <1>5
  <2> QED
    BY <1>1, <1>3, <1>9, <2>1, <2>2, <2>3
<1>10. CASE main' = main \o two
  <2>1. QueueInv'
    <3>1. \A n \in 1..Len(two) :
            /\ two[n].op = "player" => \E l \in Reads(two, two[n].owner) : l > n
            /\ two[n].op \in {"player", "item"} =>
                 two[n].to # "nopeer" /\ (two[n].to = "desc" => two[n].owner \notin leaving')
      <4>1. ASSUME NEW n \in 1..Len(two) PROVE n = 1 \/ n = 2
        BY <1>4
      <4>2. 2 \in Reads(two, p) /\ 2 > 1
        BY <1>6
      <4> QED
        BY <1>1, <1>2, <1>4, <4>1, <4>2
    <3>2. \A x \in Player : /\ \A k, l \in Reads(two, x) : k = l
                            /\ Reads(two, x) # {} => ~Pending(x)
      BY <1>6, <1>7
    <3> QED
      BY <1>1, <1>4, <1>10, <3>1, <3>2, QueuedKeeps
  <2>2. \A n \in 1..Len(two) : two[n].op # "write"
    <3>1. ASSUME NEW n \in 1..Len(two) PROVE n = 1 \/ n = 2
      BY <1>4
    <3> QED
      BY <1>2, <1>4, <3>1
  <2>3. Reads(two, p) # {} /\ \A x : x # p => Reads(two, x) = {}
    BY <1>6
  <2> QED
    BY <1>1, <1>4, <1>10, <2>1, <2>2, <2>3
<1> QED
  BY <1>1, <1>8, <1>9, <1>10

\* The answers of who leaves go nowhere.
LEMMA LogoutRedirects ==
  ASSUME TypeInv, QueueInv, NEW p \in Player, QUERY_LOGOUT(p)
  PROVE  /\ QueueInv'
         /\ \A x : Reads(main', x) = Reads(main, x) /\ Reads(res', x) = Reads(res, x)
         /\ \A k \in 1..Len(res) : res'[k].op = res[k].op /\ res'[k].owner = res[k].owner
                                   /\ res'[k].rows = res[k].rows
<1>1. main \in Seq(Statement) /\ res \in Seq(Result)
  BY DEF TypeInv, SqlInv
<1>2. /\ main' = Redirect(main, {p}, "nodesc") /\ res' = Redirect(res, {p}, "nodesc")
      /\ leaving' = leaving \cup {p}
  BY DEF QUERY_LOGOUT
<1>3. /\ DOMAIN main' = 1..Len(main) /\ DOMAIN res' = 1..Len(res)
      /\ DOMAIN main = 1..Len(main) /\ DOMAIN res = 1..Len(res)
      /\ Len(main') = Len(main) /\ Len(res') = Len(res)
  <2>1. main' \in Seq(Statement) /\ res' \in Seq(Result)
    BY <1>1, <1>2, RedirectMain, RedirectRes DEF To
  <2>2. DOMAIN main' = DOMAIN main /\ DOMAIN res' = DOMAIN res
    BY <1>2 DEF Redirect
  <2> QED
    BY <1>1, <2>1, <2>2
<1>4. \A k \in 1..Len(main) :
        /\ main'[k].op = main[k].op /\ main'[k].owner = main[k].owner
        /\ main'[k].to \in {main[k].to, "nodesc"}
        /\ main[k].owner = p /\ main[k].to # "nopeer" => main'[k].to = "nodesc"
  <2> SUFFICES ASSUME NEW k \in 1..Len(main)
               PROVE  /\ main'[k].op = main[k].op /\ main'[k].owner = main[k].owner
                      /\ main'[k].to \in {main[k].to, "nodesc"}
                      /\ main[k].owner = p /\ main[k].to # "nopeer" => main'[k].to = "nodesc"
    OBVIOUS
  <2>1. main[k] \in Statement
    BY <1>1
  <2>2. main'[k] = IF main[k].owner = p /\ main[k].to # "nopeer"
                   THEN [main[k] EXCEPT !.to = "nodesc"] ELSE main[k]
    BY <1>2, <1>3 DEF Redirect
  <2> QED
    BY <2>1, <2>2, RedirectFields
<1>5. \A k \in 1..Len(res) :
        /\ res'[k].op = res[k].op /\ res'[k].owner = res[k].owner
        /\ res'[k].rows = res[k].rows
        /\ res'[k].to \in {res[k].to, "nodesc"}
        /\ res[k].owner = p /\ res[k].to # "nopeer" => res'[k].to = "nodesc"
  <2> SUFFICES ASSUME NEW k \in 1..Len(res)
               PROVE  /\ res'[k].op = res[k].op /\ res'[k].owner = res[k].owner
                      /\ res'[k].rows = res[k].rows
                      /\ res'[k].to \in {res[k].to, "nodesc"}
                      /\ res[k].owner = p /\ res[k].to # "nopeer" => res'[k].to = "nodesc"
    OBVIOUS
  <2>1. res[k] \in Result
    BY <1>1
  <2>2. res'[k] = IF res[k].owner = p /\ res[k].to # "nopeer"
                  THEN [res[k] EXCEPT !.to = "nodesc"] ELSE res[k]
    BY <1>2, <1>3 DEF Redirect
  <2> QED
    BY <2>1, <2>2, RedirectFields
<1>6. \A x : Reads(main', x) = Reads(main, x) /\ Reads(res', x) = Reads(res, x)
  BY <1>3, <1>4, <1>5 DEF Reads
<1>7. OneRead' /\ ItemsFollow'
  <2>1. OneRead'
    BY <1>6 DEF QueueInv, OneRead
  <2>2. \A k \in 1..Len(main') : main'[k].op = "player" =>
           \E l \in Reads(main', main'[k].owner) : l > k
    BY <1>3, <1>4, <1>6 DEF QueueInv, ItemsFollow
  <2>3. \A k \in 1..Len(res') : res'[k].op = "player" =>
           \/ \E l \in Reads(res', res'[k].owner) : l > k
           \/ Reads(main', res'[k].owner) # {}
    BY <1>3, <1>5, <1>6 DEF QueueInv, ItemsFollow
  <2> QED
    BY <2>1, <2>2, <2>3 DEF ItemsFollow
<1>8. Answered'
  <2>1. ASSUME NEW k \in 1..Len(main'), main'[k].op \in {"player", "item"}
        PROVE  /\ main'[k].to # "nopeer"
               /\ main'[k].to = "desc" => main'[k].owner \notin leaving'
    BY <1>2, <1>3, <1>4, <2>1 DEF QueueInv, Answered, Addressed
  <2>2. ASSUME NEW k \in 1..Len(res'), res'[k].op \in {"player", "item"}
        PROVE  /\ res'[k].to # "nopeer"
               /\ res'[k].to = "desc" => res'[k].owner \notin leaving'
    BY <1>2, <1>3, <1>5, <2>2 DEF QueueInv, Answered, Addressed
  <2> QED
    BY <2>1, <2>2 DEF Answered, Addressed
<1> QED
  BY <1>5, <1>6, <1>7, <1>8 DEF QueueInv

\* The result of a read takes its place.
LEMMA MainExecReads ==
  ASSUME TypeInv, QueueInv, MainExec
  PROVE  /\ QueueInv'
         /\ \A p \in Player : Pending(p) => Pending(p)'
<1> DEFINE q == Head(main)
           x == [op |-> q.op, owner |-> q.owner, to |-> q.to, rows |-> RowsOf(q.owner)]
<1>1. /\ main \in Seq(Statement) /\ main # << >> /\ res \in Seq(Result)
      /\ main' = Tail(main) /\ q \in Statement /\ leaving' = leaving
  BY DEF TypeInv, SqlInv, MainExec, loginVars
<1>2. res' \in Seq(Result)
  <2>1. TypeInv'
    BY MainExecType
  <2> QED
    BY <2>1 DEF TypeInv, SqlInv
<1>3. /\ q.op \in {"player", "item"} => res' = Append(res, x)
      /\ q.op \notin {"player", "item"} => res' = res
  BY DEF MainExec
<1>4. q = main[1] /\ 1 \in 1..Len(main) /\ Len(main) \in Nat
      /\ Len(main') = Len(main) - 1
      /\ \A k \in 1..Len(main') : k + 1 \in 1..Len(main) /\ main'[k] = main[k + 1]
  BY <1>1
<1>5. ASSUME NEW p
      PROVE  \A k : k \in Reads(main', p) <=> k \in Nat \ {0} /\ k + 1 \in Reads(main, p)
  BY <1>1, ReadsTail
<1>6. ASSUME NEW p, NEW l \in Reads(main, p), l > 1
      PROVE  l - 1 \in Reads(main', p) /\ l - 1 \in Nat
  <2>1. l \in 1..Len(main)
    BY <1>1 DEF Reads
  <2>2. l - 1 \in Nat \ {0} /\ (l - 1) + 1 = l
    BY <1>4, <1>6, <2>1
  <2> QED
    BY <1>5, <2>2
<1>7. x.op = q.op /\ x.owner = q.owner /\ x.to = q.to
  OBVIOUS
<1> HIDE DEF x, q
<1>8. \A p : 1 \in Reads(main, p) <=> q.op = "item" /\ q.owner = p
  <2>1. DOMAIN main = 1..Len(main)
    BY <1>1
  <2> QED
    BY <1>4, <2>1 DEF Reads
<1>9. Len(res) \in Nat /\ Len(res') \in Nat
  BY <1>1, <1>2
<1>10. /\ Len(res) \in Nat /\ Len(res') \in {Len(res), Len(res) + 1}
       /\ \A k \in 1..Len(res) : res'[k] = res[k]
       /\ DOMAIN res = 1..Len(res) /\ DOMAIN res' = 1..Len(res')
  BY <1>1, <1>2, <1>3
<1>11. ASSUME NEW k \in 1..Len(res'), k \notin 1..Len(res)
       PROVE  k = Len(res) + 1 /\ res' = Append(res, x)
  <2>1. res' # res
    BY <1>11
  <2>2. res' = Append(res, x)
    BY <1>3, <2>1
  <2>3. Len(res') = Len(res) + 1
    BY <1>1, <2>2
  <2>4. k = Len(res) + 1
    BY <1>9, <1>11, <2>3
  <2> QED
    BY <2>2, <2>4
<1>12. \A p : Reads(res', p) = IF q.op = "item" /\ q.owner = p
                               THEN Reads(res, p) \cup {Len(res) + 1} ELSE Reads(res, p)
  <2>1. CASE q.op \in {"player", "item"}
    <3>1. Len(res') = Len(res) + 1 /\ res'[Len(res) + 1] = x
      BY <1>1, <1>3, <2>1
    <3>2. 1..Len(res') = (1..Len(res)) \cup {Len(res) + 1}
      BY <1>10, <3>1
    <3> QED
      BY <1>7, <1>10, <3>1, <3>2 DEF Reads
  <2>2. CASE q.op \notin {"player", "item"}
    BY <1>3, <2>2
  <2> QED
    BY <2>1, <2>2
<1>13. ASSUME NEW p, Reads(main, p) # {}
       PROVE  Reads(main', p) # {} \/ Reads(res', p) # {}
  <2>1. PICK l \in Reads(main, p) : TRUE
    BY <1>13
  <2>2. l \in Nat /\ l >= 1
    BY <1>1 DEF Reads
  <2>3. CASE l = 1
    BY <1>8, <1>12, <2>1, <2>3
  <2>4. CASE l > 1
    BY <1>6, <2>4
  <2> QED
    BY <2>2, <2>3, <2>4
<1>14. \A p : Reads(res, p) \subseteq Reads(res', p)
  BY <1>12
<1>15. OneRead'
  <2> SUFFICES ASSUME NEW p \in Player
               PROVE  /\ \A k, l \in Reads(main', p) : k = l
                      /\ \A k, l \in Reads(res', p) : k = l
                      /\ Reads(main', p) = {} \/ Reads(res', p) = {}
    BY DEF OneRead
  <2>1. /\ \A k, l \in Reads(main, p) : k = l
        /\ \A k, l \in Reads(res, p) : k = l
        /\ Reads(main, p) = {} \/ Reads(res, p) = {}
    BY DEF QueueInv, OneRead
  <2>2. \A k, l \in Reads(main', p) : k = l
    <3> SUFFICES ASSUME NEW k \in Reads(main', p), NEW l \in Reads(main', p) PROVE k = l
      OBVIOUS
    <3>1. k + 1 = l + 1 /\ k \in Nat /\ l \in Nat
      BY <1>5, <2>1
    <3> QED
      BY <3>1
  <2>3. CASE q.op = "item" /\ q.owner = p
    <3>1. 1 \in Reads(main, p) /\ Reads(res, p) = {}
      BY <1>8, <2>1, <2>3
    <3>2. Reads(res', p) = {Len(res) + 1}
      BY <1>12, <2>3, <3>1
    <3>3. ASSUME NEW k \in Reads(main', p) PROVE FALSE
      <4>1. k \in Nat \ {0} /\ k + 1 = 1
        BY <1>5, <2>1, <3>1
      <4> QED
        BY <4>1
    <3> QED
      BY <3>2, <3>3
  <2>4. CASE ~(q.op = "item" /\ q.owner = p)
    <3>1. Reads(res', p) = Reads(res, p)
      BY <1>12, <2>4
    <3>2. Reads(main, p) = {} => Reads(main', p) = {}
      BY <1>5
    <3> QED
      BY <2>1, <2>2, <3>1, <3>2
  <2> QED
    BY <2>3, <2>4
<1>16. ItemsFollow'
  <2>1. ASSUME NEW k \in 1..Len(main'), main'[k].op = "player"
        PROVE  \E l \in Reads(main', main'[k].owner) : l > k
    <3>1. PICK l \in Reads(main, main'[k].owner) : l > k + 1
      BY <1>4, <2>1 DEF QueueInv, ItemsFollow
    <3>2. l \in Nat /\ k \in Nat /\ l > 1
      BY <1>1, <3>1 DEF Reads
    <3>3. l - 1 \in Reads(main', main'[k].owner) /\ l - 1 > k
      BY <1>6, <3>1, <3>2
    <3> QED
      BY <3>3
  <2>2. ASSUME NEW k \in 1..Len(res'), res'[k].op = "player"
        PROVE  \/ \E l \in Reads(res', res'[k].owner) : l > k
               \/ Reads(main', res'[k].owner) # {}
    <3>1. CASE k \in 1..Len(res)
      <4>1. res'[k] = res[k]
        BY <1>10, <3>1
      <4>2. CASE \E l \in Reads(res, res[k].owner) : l > k
        BY <1>14, <4>1, <4>2
      <4>3. CASE Reads(main, res[k].owner) # {} /\ ~(q.op = "item" /\ q.owner = res[k].owner)
        <5>1. PICK l \in Reads(main, res[k].owner) : TRUE
          BY <4>3
        <5>2. l \in 1..Len(main)
          BY <1>1 DEF Reads
        <5>5. l # 1
          BY <1>8, <4>3
        <5>3. l > 1
          BY <5>2, <5>5
        <5>4. l - 1 \in Reads(main', res[k].owner)
          BY <1>6, <5>3
        <5> QED
          BY <4>1, <5>4
      <4>4. CASE q.op = "item" /\ q.owner = res[k].owner
        <5>1. Len(res) + 1 \in Reads(res', res[k].owner)
          BY <1>12, <4>4
        <5>2. Len(res) + 1 > k
          BY <1>9, <3>1
        <5> QED
          BY <4>1, <5>1, <5>2
      <4> QED
        BY <2>2, <3>1, <4>1, <4>2, <4>3, <4>4 DEF QueueInv, ItemsFollow
    <3>2. CASE k \notin 1..Len(res)
      <4>1. k = Len(res) + 1 /\ res' = Append(res, x)
        BY <1>11, <3>2
      <4>2. res'[k] = x
        BY <1>1, <4>1
      <4>3. main[1].op = "player" /\ main[1].owner = res'[k].owner
        BY <1>4, <1>7, <2>2, <4>2
      <4>4. PICK l \in Reads(main, res'[k].owner) : l > 1
        BY <1>4, <4>3 DEF QueueInv, ItemsFollow
      <4> QED
        BY <1>6, <4>4
    <3> QED
      BY <3>1, <3>2
  <2> QED
    BY <2>1, <2>2 DEF ItemsFollow
<1>17. Answered'
  <2>1. \A k \in 1..Len(main') : Addressed(main[k + 1])
    BY <1>4 DEF QueueInv, Answered
  <2>2. ASSUME NEW k \in 1..Len(main'), main'[k].op \in {"player", "item"}
        PROVE  /\ main'[k].to # "nopeer"
               /\ main'[k].to = "desc" => main'[k].owner \notin leaving'
    BY <1>1, <1>4, <2>1, <2>2 DEF Addressed
  <2>3. ASSUME NEW k \in 1..Len(res'), res'[k].op \in {"player", "item"}
        PROVE  /\ res'[k].to # "nopeer"
               /\ res'[k].to = "desc" => res'[k].owner \notin leaving'
    <3>1. CASE k \in 1..Len(res)
      BY <1>1, <1>10, <2>3, <3>1 DEF QueueInv, Answered, Addressed
    <3>2. CASE k \notin 1..Len(res)
      <4>1. k = Len(res) + 1 /\ res' = Append(res, x)
        BY <1>11, <3>2
      <4>2. res'[k] = x
        BY <1>1, <4>1
      <4> QED
        BY <1>1, <1>4, <1>7, <2>3, <4>2 DEF QueueInv, Answered, Addressed
    <3> QED
      BY <3>1, <3>2
  <2> QED
    BY <2>2, <2>3 DEF Answered, Addressed
<1> QED
  BY <1>13, <1>14, <1>15, <1>16, <1>17 DEF QueueInv, Pending

\* A result that is taken is gone.
LEMMA ResultReads ==
  ASSUME TypeInv, QueueInv, AnalyzeQueryResult
  PROVE  /\ QueueInv' /\ main' = main
         /\ \A p : /\ Reads(res', p) # {} => Reads(res, p) # {}
                   /\ Reads(res, p) # {} /\ ~(Head(res).op = "item" /\ Head(res).owner = p)
                        => Reads(res', p) # {}
                   /\ Head(res).op = "item" /\ Head(res).owner = p => 1 \in Reads(res, p)
         /\ \A p : Head(res).op = "player" /\ Head(res).owner = p => Pending(p)'
<1> DEFINE m == Head(res)
<1>1. /\ res \in Seq(Result) /\ res # << >> /\ res' = Tail(res)
      /\ main' = main /\ leaving' = leaving
  BY DEF TypeInv, SqlInv, AnalyzeQueryResult
<1>2. /\ m = res[1] /\ 1 \in 1..Len(res) /\ Len(res) \in Nat
      /\ Len(res') = Len(res) - 1 /\ DOMAIN res = 1..Len(res)
      /\ \A k \in 1..Len(res') : k + 1 \in 1..Len(res) /\ res'[k] = res[k + 1]
  BY <1>1
<1>3. ASSUME NEW p
      PROVE  \A k : k \in Reads(res', p) <=> k \in Nat \ {0} /\ k + 1 \in Reads(res, p)
  BY <1>1, ReadsTail
<1> HIDE DEF m
<1>4. ASSUME NEW p, NEW l \in Reads(res, p), l > 1
      PROVE  l - 1 \in Reads(res', p) /\ l - 1 \in Nat
  <2>1. l \in 1..Len(res)
    BY <1>1 DEF Reads
  <2>2. l - 1 \in Nat \ {0} /\ (l - 1) + 1 = l
    BY <1>2, <1>4, <2>1
  <2> QED
    BY <1>3, <2>2
<1>5. \A p : 1 \in Reads(res, p) <=> m.op = "item" /\ m.owner = p
  BY <1>2 DEF Reads
<1>6. ASSUME NEW p, Reads(res, p) # {}, ~(m.op = "item" /\ m.owner = p)
      PROVE  Reads(res', p) # {}
  <2>1. PICK l \in Reads(res, p) : TRUE
    BY <1>6
  <2>2. l \in 1..Len(res)
    BY <1>1 DEF Reads
  <2>4. l # 1
    BY <1>5, <1>6
  <2>3. l > 1
    BY <2>2, <2>4
  <2> QED
    BY <1>4, <2>3
<1>7. OneRead'
  <2> SUFFICES ASSUME NEW p \in Player
               PROVE  /\ \A k, l \in Reads(main', p) : k = l
                      /\ \A k, l \in Reads(res', p) : k = l
                      /\ Reads(main', p) = {} \/ Reads(res', p) = {}
    BY DEF OneRead
  <2>1. /\ \A k, l \in Reads(main, p) : k = l
        /\ \A k, l \in Reads(res, p) : k = l
        /\ Reads(main, p) = {} \/ Reads(res, p) = {}
    BY DEF QueueInv, OneRead
  <2>2. \A k, l \in Reads(res', p) : k = l
    <3> SUFFICES ASSUME NEW k \in Reads(res', p), NEW l \in Reads(res', p) PROVE k = l
      OBVIOUS
    <3>1. k + 1 = l + 1 /\ k \in Nat /\ l \in Nat
      BY <1>3, <2>1
    <3> QED
      BY <3>1
  <2>3. Reads(res, p) = {} => Reads(res', p) = {}
    BY <1>3
  <2> QED
    BY <1>1, <2>1, <2>2, <2>3
<1>8. ItemsFollow'
  <2>1. ASSUME NEW k \in 1..Len(res'), res'[k].op = "player"
        PROVE  \/ \E l \in Reads(res', res'[k].owner) : l > k
               \/ Reads(main', res'[k].owner) # {}
    <3>1. \/ \E l \in Reads(res, res'[k].owner) : l > k + 1
          \/ Reads(main, res'[k].owner) # {}
      BY <1>2, <2>1 DEF QueueInv, ItemsFollow
    <3>2. ASSUME NEW l \in Reads(res, res'[k].owner), l > k + 1
          PROVE  \E h \in Reads(res', res'[k].owner) : h > k
      <4>1. l \in Nat /\ k \in Nat /\ l > 1
        BY <1>1, <3>2 DEF Reads
      <4>2. l - 1 \in Reads(res', res'[k].owner) /\ l - 1 > k
        BY <1>4, <3>2, <4>1
      <4> QED
        BY <4>2
    <3> QED
      BY <1>1, <3>1, <3>2
  <2>2. \A k \in 1..Len(main') : main'[k].op = "player" =>
           \E l \in Reads(main', main'[k].owner) : l > k
    BY <1>1 DEF QueueInv, ItemsFollow
  <2> QED
    BY <2>1, <2>2 DEF ItemsFollow
<1>9. Answered'
  <2>1. ASSUME NEW k \in 1..Len(res'), res'[k].op \in {"player", "item"}
        PROVE  /\ res'[k].to # "nopeer"
               /\ res'[k].to = "desc" => res'[k].owner \notin leaving'
    BY <1>1, <1>2, <2>1 DEF QueueInv, Answered, Addressed
  <2>2. ASSUME NEW k \in 1..Len(main'), main'[k].op \in {"player", "item"}
        PROVE  /\ main'[k].to # "nopeer"
               /\ main'[k].to = "desc" => main'[k].owner \notin leaving'
    BY <1>1, <2>2 DEF QueueInv, Answered, Addressed
  <2> QED
    BY <2>1, <2>2 DEF Answered, Addressed
<1>10. ASSUME m.op = "player" PROVE Reads(main', m.owner) # {} \/ Reads(res', m.owner) # {}
  <2>1. \/ \E l \in Reads(res, m.owner) : l > 1
        \/ Reads(main, m.owner) # {}
    BY <1>2, <1>10 DEF QueueInv, ItemsFollow
  <2> QED
    BY <1>1, <1>4, <2>1
<1>11. \A p : Reads(res', p) # {} => Reads(res, p) # {}
  BY <1>3
<1>12. \A p : m.op = "player" /\ m.owner = p => Pending(p)'
  BY <1>10 DEF Pending
<1>13. QueueInv'
  BY <1>7, <1>8, <1>9 DEF QueueInv
<1> QED
  BY <1>1, <1>5, <1>6, <1>11, <1>12, <1>13 DEF m

\* Together: every step keeps the order of the reads.
LEMMA QueueInvStep ==
  ASSUME Orderly, TypeInv, QueueInv, [Next]_vars
  PROVE  QueueInv'
<1>1. ASSUME NEW i \in Item, ItemStep(i) PROVE QueueInv'
  BY <1>1, MostlyWrites, WroteKeeps
<1>2. ASSUME NEW p \in Player, NEW i \in Item, PlayerItemStep(p, i) PROVE QueueInv'
  BY <1>2, MostlyWrites, WroteKeeps
<1>3. ASSUME NEW p \in Player, PlayerStep(p) PROVE QueueInv'
  BY <1>3, MostlyWrites, WroteKeeps, LoadQueues, LogoutRedirects DEF PlayerStep
<1>4. CASE CoreCrash
  BY <1>4, CacheAssumption DEF CoreCrash, Orderly, TypeInv, SessionInv
<1>5. CASE MainExec \/ AnalyzeQueryResult
  BY <1>5, MainExecReads, ResultReads
<1>6. CASE AsyncExec \/ UNCHANGED vars
  BY <1>6, MostlyWrites, WroteKeeps
<1> QED
  BY <1>1, <1>2, <1>3, <1>4, <1>5, <1>6 DEF Next

LEMMA QueueInvInit == Init => QueueInv
  BY DEF Init, QueueInv, OneRead, ItemsFollow, Answered, Reads

-----------------------------------------------------------------------------
(* Who the daemon finds when he comes back *)

InGame(p) == phase[p] \in {"game", "closing"}

\* Who is in the game has a set or is about to, and is found when he comes back.
Sessions ==
  \A p \in Player :
    /\ InGame(p) => (p \in hasSet \/ Pending(p)) /\ p \notin leaving
    /\ phase[p] = "closing" => p \in ptab
    /\ p \in loaded => InGame(p)

LEMMA SessionsSame ==
  ASSUME Sessions, phase' = phase, loaded' = loaded, hasSet \subseteq hasSet',
         ptab \subseteq ptab', leaving' \subseteq leaving,
         \A p \in Player : Pending(p) => Pending(p)'
  PROVE  Sessions'
  BY DEF Sessions, InGame

LEMMA SessionsStep ==
  ASSUME Orderly, TypeInv, QueueInv, Sessions, [Next]_vars
  PROVE  Sessions'
<1>1. phase \in [Player -> {"off", "select", "game", "closing"}]
  BY DEF TypeInv, SessionInv
<1>2. ASSUME Wrote PROVE \A p \in Player : Pending(p) => Pending(p)'
  BY <1>2, WroteKeeps
<1>3. ASSUME NEW i \in Item, ItemStep(i) PROVE Sessions'
  <2>1. Wrote
    BY <1>3, MostlyWrites
  <2>2. UNCHANGED <<phase, loaded, hasSet, ptab, leaving>>
    BY <1>3 DEF ItemStep, UpdateItemCache, DropNew, DestroyItem, SaveSingleItem,
       QUERY_ITEM_SAVE, PutItemCache, QUERY_ITEM_DESTROY, sessionVars, loginVars, cacheVars
  <2> QED
    BY <1>2, <2>1, <2>2, SessionsSame
<1>4. ASSUME NEW p \in Player, NEW i \in Item, PlayerItemStep(p, i) PROVE Sessions'
  <2>1. Wrote
    BY <1>4, MostlyWrites
  <2>2. UNCHANGED <<phase, loaded, hasSet, ptab, leaving>>
    <3>1. CASE \E q \in Player : Exchange(p, q, i)
      BY <3>1 DEF Exchange, QUERY_ITEM_SAVE, PutItemCache, sessionVars, loginVars
    <3>2. CASE DropItem(p, i)
      BY <3>2 DEF DropItem, QUERY_ITEM_DESTROY, sessionVars, loginVars
    <3>3. CASE SafeboxCheckin(p, i) \/ SafeboxCheckout(p, i)
      BY <3>3 DEF SafeboxCheckin, SafeboxCheckout, QUERY_ITEM_SAVE_Safebox,
         sessionVars, loginVars
    <3>4. CASE CreateItem(p, i) \/ Change(p, i) \/ PickupItem(p, i)
      BY <3>4 DEF CreateItem, Change, PickupItem, sessionVars, loginVars, cacheVars
    <3> QED
      BY <1>4, <3>1, <3>2, <3>3, <3>4 DEF PlayerItemStep
  <2> QED
    BY <1>2, <2>1, <2>2, SessionsSame
<1>5. ASSUME NEW p \in Player, UpdatePlayerCache(p) \/ QUERY_FLUSH_CACHE(p) \/ QUERY_PLAYER_SAVE(p)
      PROVE  Sessions'
  <2>1. Wrote
    BY <1>5, MostlyWrites
  <2>2. UNCHANGED <<phase, loaded, hasSet, leaving>> /\ ptab \subseteq ptab'
    BY <1>5 DEF UpdatePlayerCache, QUERY_FLUSH_CACHE, Orderly, QUERY_PLAYER_SAVE,
       sessionVars, loginVars, cacheVars
  <2> QED
    BY <1>2, <2>1, <2>2, SessionsSame
<1>6. ASSUME NEW p \in Player, UpdateLogoutPlayer(p) PROVE Sessions'
  <2>1. Wrote
    BY <1>6, MostlyWrites
  <2>2. \A x \in Player : Pending(x) => Pending(x)'
    BY <1>2, <2>1
  <2>3. /\ phase' = phase /\ loaded' = loaded /\ ptab' = ptab \ {p}
        /\ leaving' = leaving \ {p} /\ hasSet \subseteq hasSet' \cup {p}
        /\ p \in leaving
    BY <1>6 DEF UpdateLogoutPlayer, FlushItemCacheSet, sessionVars, cacheVars
  <2> QED
    BY <2>2, <2>3 DEF Sessions, InGame
<1>7. ASSUME NEW p \in Player, Login(p) \/ Disconnect(p) PROVE Sessions'
  <2>1. Wrote
    BY <1>7, MostlyWrites
  <2>2. \A x \in Player : Pending(x) => Pending(x)'
    BY <1>2, <2>1
  <2>3. /\ UNCHANGED <<loaded, hasSet, leaving>> /\ ptab \subseteq ptab'
        /\ \/ phase[p] = "off" /\ phase' = [phase EXCEPT ![p] = "select"]
           \/ /\ phase[p] = "game" /\ phase' = [phase EXCEPT ![p] = "closing"]
              /\ p \in ptab'
    BY <1>7 DEF Login, Disconnect, cacheVars
  <2> QED
    BY <1>1, <2>2, <2>3 DEF Sessions, InGame
<1>8. ASSUME NEW p \in Player, QUERY_PLAYER_LOAD(p) PROVE Sessions'
  <2>1. /\ phase[p] = "select" /\ hasSet' = hasSet /\ ptab' = ptab
        /\ leaving' = leaving \ {p}
        /\ \/ phase' = phase /\ loaded' = loaded
           \/ /\ phase' = [phase EXCEPT ![p] = "game"]
              /\ \/ p \in hasSet /\ loaded' = loaded \cup {p}
                 \/ main' = Append(main, Select("item", p)) /\ loaded' = loaded
    BY <1>8 DEF QUERY_PLAYER_LOAD, LoadFromCache, LoadFromTable, LoadRefused, cacheVars
  <2>2. \A x \in Player : Pending(x) => Pending(x)'
    <3>1. res' = res /\ (main' = main \/ \E w \in Seq(Statement) : main' = main \o w)
      BY <1>8, LoadQueues
    <3>2. main \in Seq(Statement)
      BY DEF TypeInv, SqlInv
    <3>3. \A x : Reads(main, x) \subseteq Reads(main', x)
      <4>1. ASSUME NEW w \in Seq(Statement), main' = main \o w, NEW x
            PROVE  Reads(main, x) \subseteq Reads(main', x)
        BY <3>2, <4>1, ReadsConcat
      <4> QED
        BY <3>1, <4>1
    <3> QED
      BY <3>1, <3>3 DEF Pending
  <2>3. main' = Append(main, Select("item", p)) => Pending(p)'
    <3>1. main' # main => Pending(p)'
      <4>1. ASSUME main' # main PROVE Reads(main', p) # {}
        <5>1. PICK w \in Seq(Statement) : main' = main \o w /\ Reads(w, p) # {}
          BY <1>8, <4>1, LoadQueues
        <5>2. main \in Seq(Statement)
          BY DEF TypeInv, SqlInv
        <5>3. Reads(main', p) = Reads(main, p) \cup {Len(main) + n : n \in Reads(w, p)}
          BY <5>1, <5>2, ReadsConcat
        <5> QED
          BY <5>1, <5>3
      <4> QED
        BY <4>1 DEF Pending
    <3>2. Append(main, Select("item", p)) # main
      <4>1. main \in Seq(Statement)
        BY DEF TypeInv, SqlInv
      <4>2. Len(Append(main, Select("item", p))) = Len(main) + 1 /\ Len(main) \in Nat
        BY <4>1, SelectType
      <4> QED
        BY <4>2
    <3> QED
      BY <3>1, <3>2
  <2> QED
    BY <1>1, <2>1, <2>2, <2>3 DEF Sessions, InGame
<1>9. ASSUME NEW p \in Player, QUERY_LOGOUT(p) PROVE Sessions'
  <2>1. \A x \in Player : Pending(x) <=> Pending(x)'
    BY <1>9, LogoutRedirects DEF Pending
  <2>2. /\ phase' = [phase EXCEPT ![p] = "off"] /\ loaded' = loaded \ {p}
        /\ leaving' = leaving \cup {p} /\ hasSet' = hasSet /\ ptab' = ptab
    BY <1>9 DEF QUERY_LOGOUT
  <2> QED
    BY <1>1, <2>1, <2>2 DEF Sessions, InGame
<1>10. CASE CoreCrash
  BY <1>10, CacheAssumption DEF CoreCrash, Orderly, TypeInv, SessionInv
<1>11. CASE MainExec
  <2>1. \A x \in Player : Pending(x) => Pending(x)'
    BY <1>11, MainExecReads
  <2> QED
    BY <1>11, <2>1, SessionsSame DEF MainExec, sessionVars, loginVars, cacheVars
<1>12. CASE AsyncExec \/ UNCHANGED vars
  <2>1. Wrote
    BY <1>12, MostlyWrites
  <2>2. UNCHANGED <<phase, loaded, hasSet, ptab, leaving>>
    BY <1>12 DEF AsyncExec, vars, sessionVars, loginVars, cacheVars
  <2> QED
    BY <1>2, <2>1, <2>2, SessionsSame
<1>13. CASE AnalyzeQueryResult
  <2> DEFINE m == Head(res)
  <2>1. m \in Result /\ Addressed(m)
    <3>1. res \in Seq(Result) /\ res # << >>
      BY <1>13 DEF TypeInv, SqlInv, AnalyzeQueryResult
    <3>2. m = res[1] /\ 1 \in 1..Len(res) /\ m \in Result
      BY <3>1
    <3> HIDE DEF m
    <3> QED
      BY <3>2 DEF QueueInv, Answered
  <2>2. m.owner \in Player /\ m.op \in {"player", "item"} /\ m.to # "nopeer"
        /\ (m.to = "desc" => m.owner \notin leaving)
    BY <2>1 DEF Addressed, Result
  <2>3. /\ main' = main /\ ptab' = ptab /\ leaving' = leaving
        /\ \A x : /\ Reads(res, x) # {} /\ ~(m.op = "item" /\ m.owner = x)
                        => Reads(res', x) # {}
                  /\ m.op = "player" /\ m.owner = x => Pending(x)'
    BY <1>13, ResultReads DEF AnalyzeQueryResult
  <2>4. \/ m.op = "player" /\ RESULT_PLAYER_LOAD(m.owner, m.to)
        \/ m.op = "item" /\ RESULT_ITEM_LOAD(m.owner, m.to, m.rows)
    BY <1>13, <2>2 DEF AnalyzeQueryResult
  <2> HIDE DEF m
  <2>5. \A x \in Player : Pending(x) /\ ~(m.op = "item" /\ m.owner = x) => Pending(x)'
    BY <2>3 DEF Pending
  <2>6. CASE m.op = "player" /\ RESULT_PLAYER_LOAD(m.owner, m.to)
    <3>1. /\ loaded' = loaded /\ hasSet' = hasSet
          /\ \/ phase' = phase
             \/ m.to = "desc" /\ phase' = [phase EXCEPT ![m.owner] = "game"]
      BY <2>6 DEF RESULT_PLAYER_LOAD, cacheVars
    <3>2. \A x \in Player : m.owner = x => Pending(x)'
      BY <2>3, <2>6
    <3>3. \A x \in Player : Pending(x) => Pending(x)'
      BY <2>5, <2>6
    <3> QED
      BY <1>1, <2>2, <2>3, <3>1, <3>2, <3>3 DEF Sessions, InGame
  <2>7. CASE m.op = "item" /\ RESULT_ITEM_LOAD(m.owner, m.to, m.rows)
    <3>1. /\ phase' = phase /\ hasSet' = hasSet \cup {m.owner}
          /\ \/ loaded' = loaded
             \/ loaded' = loaded \cup {m.owner} /\ phase[m.owner] = "game"
      BY <2>7 DEF RESULT_ITEM_LOAD
    <3> QED
      BY <2>3, <2>5, <3>1 DEF Sessions, InGame
  <2> QED
    BY <2>4, <2>6, <2>7
<1> QED
  BY <1>3, <1>4, <1>5, <1>6, <1>7, <1>8, <1>9, <1>10, <1>11, <1>12, <1>13
  DEF Next, PlayerStep

LEMMA SessionsInit == Init => Sessions
  BY DEF Init, Sessions, InGame

-----------------------------------------------------------------------------
(* What the core holds *)

\* No item was ever without an owner in the core, so all deletes are on the main
\* connection; what waits to be saved is held, by a player who is in the game.
OwnedObjects ==
  /\ async = << >>
  /\ \A i \in Item : /\ ~item[i].box
                     /\ item[i].at # NoOne => item[i].last \in Player
                     /\ i \in unsaved => item[i].at \in Player
                     /\ item[i].at \in Player => InGame(item[i].at)

\* Each object is as it was, is new in its player's hands, or is let go.
LEMMA OwnedKept ==
  ASSUME TypeInv, OwnedObjects, async' = async,
         \A p \in Player : InGame(p) => InGame(p)',
         \A i \in Item :
           \/ item'[i] = item[i] /\ (i \in unsaved' => i \in unsaved)
           \/ \E p \in Player, v \in 0..MaxVer :
                item'[i] = AddToCharacter(p, v) /\ InGame(p)'
           \/ /\ item'[i].at \in {NoOne, Ground} /\ item[i].at # NoOne
              /\ item'[i].last = item[i].last /\ item'[i].box = item[i].box
              /\ i \notin unsaved'
  PROVE  OwnedObjects'
<1> SUFFICES ASSUME NEW i \in Item
             PROVE  /\ ~item'[i].box
                    /\ item'[i].at # NoOne => item'[i].last \in Player
                    /\ i \in unsaved' => item'[i].at \in Player
                    /\ item'[i].at \in Player => InGame(item[i].at)'
  BY DEF OwnedObjects
<1>1. /\ ~item[i].box
      /\ item[i].at # NoOne => item[i].last \in Player
      /\ i \in unsaved => item[i].at \in Player
      /\ item[i].at \in Player => InGame(item[i].at)
  BY DEF OwnedObjects
<1>2. CASE item'[i] = item[i] /\ (i \in unsaved' => i \in unsaved)
  BY <1>1, <1>2 DEF InGame
<1>3. CASE \E p \in Player, v \in 0..MaxVer :
             item'[i] = AddToCharacter(p, v) /\ InGame(p)'
  BY <1>3 DEF AddToCharacter, InGame
<1>4. CASE /\ item'[i].at \in {NoOne, Ground} /\ item[i].at # NoOne
           /\ item'[i].last = item[i].last /\ item'[i].box = item[i].box
           /\ i \notin unsaved'
  BY <1>1, <1>4, CacheAssumption
<1> QED
  BY <1>2, <1>3, <1>4

LEMMA OwnedObjectsStep ==
  ASSUME Orderly, TypeInv, SetInv, QueueInv, Sessions, OwnedObjects, [Next]_vars
  PROVE  OwnedObjects'
<1>1. /\ phase \in [Player -> {"off", "select", "game", "closing"}]
      /\ item \in [Item -> Object]
  BY DEF TypeInv, SessionInv, GameInv
<1>2. \A i \in Item : /\ item[i].at \in Holder /\ item[i].ver \in 0..MaxVer
                      /\ item[i] = [at |-> item[i].at, last |-> item[i].last,
                                    box |-> item[i].box, ver |-> item[i].ver]
  BY <1>1 DEF Object
<1>3. ASSUME UNCHANGED <<item, unsaved, async>>,
             \A p \in Player : InGame(p) => InGame(p)'
      PROVE  OwnedObjects'
  BY <1>3, OwnedKept
<1>4. ASSUME NEW i \in Item, NEW o \in Player, NEW v, QUERY_ITEM_SAVE(i, o, v)
      PROVE  async' = async
  BY <1>4 DEF QUERY_ITEM_SAVE
<1>5. ASSUME NEW i \in Item, QUERY_ITEM_DESTROY(i, item[i].last), item[i].at # NoOne
      PROVE  async' = async
  <2>1. item[i].last # NoOne
    BY <1>5, CacheAssumption DEF OwnedObjects
  <2> QED
    BY <1>5, <2>1 DEF QUERY_ITEM_DESTROY
<1>6. ASSUME NEW i \in Item, ItemStep(i) PROVE OwnedObjects'
  <2>1. CASE UpdateItemCache(i)
    BY <1>3, <2>1 DEF UpdateItemCache, gameVars, sessionVars, InGame
  <2>2. CASE DropNew(i)
    BY <2>2 DEF DropNew, Orderly
  <2>3. CASE DestroyItem(i)
    <3>1. item[i].at # NoOne /\ item' = [item EXCEPT ![i].at = NoOne]
          /\ unsaved' = unsaved \ {i} /\ phase' = phase
      BY <2>3, CacheAssumption DEF DestroyItem, sessionVars
    <3>2. async' = async
      BY <1>5, <2>3, <3>1 DEF DestroyItem
    <3>3. /\ item'[i].at = NoOne /\ item'[i].last = item[i].last
          /\ item'[i].box = item[i].box
          /\ \A j \in Item \ {i} : item'[j] = item[j]
      BY <1>1, <1>2, <3>1
    <3> QED
      BY <3>1, <3>2, <3>3, OwnedKept DEF InGame
  <2>4. CASE SaveSingleItem(i)
    <3>1. item[i].at \in Player
      BY <2>4 DEF SaveSingleItem, OwnedObjects
    <3>2. async' = async /\ item' = item /\ unsaved' = unsaved \ {i} /\ phase' = phase
      BY <1>4, <2>4, <3>1 DEF SaveSingleItem, sessionVars
    <3> QED
      BY <3>2, OwnedKept DEF InGame
  <2> QED
    BY <1>6, <2>1, <2>2, <2>3, <2>4 DEF ItemStep
<1>7. ASSUME NEW p \in Player, NEW i \in Item, PlayerItemStep(p, i) PROVE OwnedObjects'
  <2>0. item[i].ver \in 0..MaxVer
    BY <1>2
  <2>1. ASSUME NEW x \in Player, NEW v \in 0..MaxVer, InGame(x), phase' = phase,
               item' = [item EXCEPT ![i] = AddToCharacter(x, v)],
               unsaved' \subseteq unsaved \cup {i}, async' = async
        PROVE  OwnedObjects'
    <3>1. /\ item'[i] = AddToCharacter(x, v) /\ InGame(x)'
          /\ \A j \in Item \ {i} : item'[j] = item[j] /\ (j \in unsaved' => j \in unsaved)
      BY <1>1, <2>1 DEF InGame
    <3>2. \A y \in Player : InGame(y) => InGame(y)'
      BY <2>1 DEF InGame
    <3> QED
      BY <2>1, <3>1, <3>2, OwnedKept
  <2>2. CASE CreateItem(p, i)
    <3>1. 1 \in 0..MaxVer
      BY CacheAssumption
    <3> QED
      BY <2>1, <2>2, <3>1 DEF CreateItem, Active, InGame, sessionVars, sqlVars
  <2>3. CASE Change(p, i)
    <3>1. item' = [item EXCEPT ![i].ver = @ + 1] /\ item[i].at = p
          /\ unsaved' = unsaved \cup {i} /\ phase' = phase /\ async' = async
      BY <2>3 DEF Change, sessionVars, sqlVars
    <3>2. /\ item'[i].at = p /\ item'[i].last = item[i].last /\ item'[i].box = item[i].box
          /\ \A j \in Item \ {i} : item'[j] = item[j] /\ (j \in unsaved' => j \in unsaved)
      BY <1>1, <1>2, <3>1
    <3> QED
      BY <3>1, <3>2, CacheAssumption DEF OwnedObjects, InGame
  <2>4. CASE PickupItem(p, i)
    <3>1. item[i].ver + 1 \in 0..MaxVer
      <4>1. item[i].ver < MaxVer
        BY <2>4 DEF PickupItem
      <4> QED
        BY <2>0, <4>1, CacheAssumption
    <3> QED
      BY <2>1, <2>4, <3>1 DEF PickupItem, Active, InGame, sessionVars, sqlVars
  <2>5. CASE \E q \in Player : Exchange(p, q, i)
    <3>1. PICK q \in Player : Exchange(p, q, i)
      BY <2>5
    <3>2. item[i].ver + 1 \in 0..MaxVer
      <4>1. item[i].ver < MaxVer
        BY <3>1 DEF Exchange
      <4> QED
        BY <2>0, <4>1, CacheAssumption
    <3>3. async' = async
      BY <1>4, <3>1 DEF Exchange
    <3> QED
      BY <2>1, <3>1, <3>2, <3>3 DEF Exchange, Active, InGame, sessionVars
  <2>6. CASE DropItem(p, i)
    <3>1. item[i].at # NoOne /\ item' = [item EXCEPT ![i].at = Ground]
          /\ unsaved' = unsaved \ {i} /\ phase' = phase
      BY <2>6, CacheAssumption DEF DropItem, sessionVars
    <3>2. async' = async
      BY <1>5, <2>6, <3>1 DEF DropItem
    <3>3. /\ item'[i].at = Ground /\ item'[i].last = item[i].last
          /\ item'[i].box = item[i].box
          /\ \A j \in Item \ {i} : item'[j] = item[j]
      BY <1>1, <1>2, <3>1
    <3> QED
      BY <3>1, <3>2, <3>3, OwnedKept DEF InGame
  <2>7. CASE SafeboxCheckin(p, i) \/ SafeboxCheckout(p, i)
    BY <2>7 DEF SafeboxCheckin, SafeboxCheckout, Orderly, OwnedObjects
  <2> QED
    BY <1>7, <2>2, <2>3, <2>4, <2>5, <2>6, <2>7 DEF PlayerItemStep
<1>8. ASSUME NEW p \in Player, NEW S, NEW v, ItemLoad(p, S, v), InGame(p)',
             \A x \in Player : InGame(x) => InGame(x)',
             \A i \in S : v[i] \in 0..MaxVer, unsaved' = unsaved, async' = async
      PROVE  OwnedObjects'
  <2>1. \A i \in Item : \/ item'[i] = item[i]
                        \/ i \in S /\ item'[i] = AddToCharacter(p, v[i])
    BY <1>8 DEF ItemLoad
  <2> QED
    BY <1>8, <2>1, OwnedKept
<1>9. ASSUME NEW p \in Player, PlayerStep(p) PROVE OwnedObjects'
  <2>1. CASE \/ UpdatePlayerCache(p) \/ UpdateLogoutPlayer(p) \/ QUERY_FLUSH_CACHE(p)
             \/ Login(p) \/ QUERY_PLAYER_SAVE(p) \/ Disconnect(p)
    <3>1. UNCHANGED <<item, unsaved, async>>
      BY <2>1 DEF UpdatePlayerCache, UpdateLogoutPlayer, QUERY_FLUSH_CACHE, Login,
         QUERY_PLAYER_SAVE, Disconnect, gameVars, sqlVars
    <3>2. \/ phase' = phase
          \/ phase[p] = "off" /\ phase' = [phase EXCEPT ![p] = "select"]
          \/ phase' = [phase EXCEPT ![p] = "closing"]
      BY <2>1 DEF UpdatePlayerCache, UpdateLogoutPlayer, QUERY_FLUSH_CACHE, Login,
         QUERY_PLAYER_SAVE, Disconnect, sessionVars
    <3>3. \A x \in Player : InGame(x) => InGame(x)'
      BY <1>1, <3>2 DEF InGame
    <3> QED
      BY <1>3, <3>1, <3>3
  <2>2. CASE QUERY_PLAYER_LOAD(p)
    <3> DEFINE S == {i \in set[p] : entry[i].ver # 0}
               v == [i \in S |-> entry[i].ver]
    <3>1. /\ unsaved' = unsaved /\ async' = async
          /\ \/ phase' = phase /\ item' = item
             \/ /\ phase' = [phase EXCEPT ![p] = "game"]
                /\ item' = item \/ ItemLoad(p, S, v)
      BY <2>2 DEF QUERY_PLAYER_LOAD, LoadFromCache, LoadFromTable, LoadRefused
    <3>2. \A i \in S : v[i] \in 0..MaxVer
      BY DEF TypeInv, CacheInv, Entry
    <3> HIDE DEF S, v
    <3>3. /\ \A x \in Player : InGame(x) => InGame(x)'
          /\ phase' = [phase EXCEPT ![p] = "game"] => InGame(p)'
      BY <1>1, <3>1 DEF InGame
    <3> QED
      BY <1>3, <1>8, <3>1, <3>2, <3>3
  <2>3. CASE QUERY_LOGOUT(p)
    <3>1. /\ phase' = [phase EXCEPT ![p] = "off"] /\ unsaved' = unsaved /\ async' = async
          /\ item' = [i \in Item |-> IF item[i].at = p THEN [item[i] EXCEPT !.at = NoOne]
                                     ELSE item[i]]
      BY <2>3 DEF QUERY_LOGOUT
    <3>2. \A i \in Item : item[i].at = p => i \notin unsaved
      <4>1. CASE phase[p] = "select"
        BY <4>1 DEF OwnedObjects, InGame
      <4>2. CASE Held(p) \cap unsaved = {}
        BY <4>2 DEF Held
      <4> QED
        BY <2>3, <4>1, <4>2 DEF QUERY_LOGOUT
    <3> SUFFICES ASSUME NEW i \in Item
                 PROVE  /\ ~item'[i].box
                        /\ item'[i].at # NoOne => item'[i].last \in Player
                        /\ i \in unsaved' => item'[i].at \in Player
                        /\ item'[i].at \in Player => InGame(item[i].at)'
      BY <3>1 DEF OwnedObjects
    <3>3. CASE item[i].at = p
      <4>1. item'[i].at = NoOne /\ item'[i].box = item[i].box
        BY <1>2, <3>1, <3>3
      <4> QED
        BY <3>1, <3>2, <3>3, <4>1, CacheAssumption DEF OwnedObjects
    <3>4. CASE item[i].at # p
      <4>1. item'[i] = item[i]
        BY <3>1, <3>4
      <4>2. \A x \in Player \ {p} : InGame(x) => InGame(x)'
        BY <1>1, <3>1 DEF InGame
      <4>3. /\ ~item[i].box
            /\ item[i].at # NoOne => item[i].last \in Player
            /\ i \in unsaved => item[i].at \in Player
            /\ item[i].at \in Player => InGame(item[i].at)
        BY DEF OwnedObjects
      <4>4. item'[i].at \in Player => phase'[item'[i].at] \in {"game", "closing"}
        BY <3>4, <4>1, <4>2, <4>3 DEF InGame
      <4> QED
        BY <3>1, <4>1, <4>3, <4>4 DEF InGame
    <3> QED
      BY <3>3, <3>4
  <2> QED
    BY <1>9, <2>1, <2>2, <2>3 DEF PlayerStep
<1>10. CASE CoreCrash
  BY <1>10, CacheAssumption DEF CoreCrash, Orderly, TypeInv, SessionInv
<1>11. CASE MainExec \/ UNCHANGED vars
  BY <1>3, <1>11 DEF MainExec, vars, gameVars, sessionVars, sqlVars, InGame
<1>12. CASE AsyncExec
  BY <1>12 DEF AsyncExec, OwnedObjects
<1>13. CASE AnalyzeQueryResult
  <2> DEFINE m == Head(res)
             S == {i \in Item : m.rows[i] # 0}
  <2>1. m \in Result
    BY <1>13 DEF TypeInv, SqlInv, AnalyzeQueryResult
  <2>2. m.owner \in Player /\ m.rows \in [Item -> 0..MaxVer]
    BY <2>1 DEF Result
  <2>3. unsaved' = unsaved /\ async' = async
    BY <1>13 DEF AnalyzeQueryResult
  <2>4. \/ item' = item /\ phase' \in {phase, [phase EXCEPT ![m.owner] = "game"]}
        \/ /\ phase' = phase /\ phase[m.owner] = "game"
           /\ ItemLoad(m.owner, S, m.rows)
    BY <1>13 DEF AnalyzeQueryResult, RESULT_PLAYER_LOAD, RESULT_ITEM_LOAD
  <2>5. \A i \in S : m.rows[i] \in 0..MaxVer
    BY <2>2
  <2> HIDE DEF m, S
  <2>6. /\ \A x \in Player : InGame(x) => InGame(x)'
        /\ \A x \in Player : x = m.owner /\ phase[x] = "game" /\ phase' = phase => InGame(x)'
    BY <1>1, <2>4 DEF InGame
  <2> QED
    BY <1>3, <1>8, <2>2, <2>3, <2>4, <2>5, <2>6
<1> QED
  BY <1>6, <1>7, <1>9, <1>10, <1>11, <1>12, <1>13 DEF Next

LEMMA OwnedObjectsInit == Init => OwnedObjects
  BY CacheAssumption DEF Init, OwnedObjects

-----------------------------------------------------------------------------
(* What the daemon and MySQL have of an item, and who still owns it there *)

Unwritten(i) == i \in cached /\ entry[i].dirty

\* What the core has is known as its holder's, or not at all.
KnownObject(i) ==
  /\ item[i].at \in Player => sent[i] = Gone \/ sent[i].owner = item[i].at
  /\ item[i].at = Ground => sent[i] = Gone
  /\ sent[i] # Gone => item[i].ver # 0

\* The entry is what was sent, and so is what MySQL will hold when nothing is unwritten.
InSync(i) ==
  /\ i \in cached => Content(i) = sent[i]
  /\ Unwritten(i) => entry[i].ver # 0
  /\ Unwritten(i) \/ Future(i) = sent[i]

\* An unwritten change belongs to somebody the daemon finds when he comes back; and
\* whoever still owns the item in MySQL is found too, has a set or is about to, and is
\* not dropped before the change is written.
Known(p) == p \in ptab \/ InGame(p)
Former(i, p) ==
  /\ p \in hasSet \/ Pending(p)
  /\ Known(p)
  /\ p \in leaving => p \in entry[i].since
Owners(i) ==
  Unwritten(i) =>
    /\ Known(entry[i].owner)
    /\ \A p \in Player : Future(i).owner = p /\ entry[i].owner # p => Former(i, p)

\* A read that is under way finds the player's items as they were last sent, and they
\* are in no core.
Fresh ==
  \A p \in Player, i \in Item :
    /\ \A k \in Reads(main, p) :
         RowAt(main, row[i], i, k).owner = p =>
           RowAt(main, row[i], i, k) = sent[i] /\ item[i].at = NoOne
    /\ \A k \in Reads(res, p) :
         res[k].rows[i] # 0 => /\ sent[i] = [owner |-> p, ver |-> res[k].rows[i]]
                               /\ item[i].at = NoOne

SyncInv == Fresh /\ \A i \in Item : KnownObject(i) /\ InSync(i) /\ Owners(i)

\* Where the queue ends, now and in the next state.
LEMMA FutureIs ==
  ASSUME main \in Seq(Statement), main' \in Seq(Statement), NEW i
  PROVE  /\ Future(i) = RowAt(main, row[i], i, Len(main) + 1)
         /\ Future(i)' = RowAt(main', row'[i], i, Len(main') + 1)
  BY FutureIsRowAt DEF Future, Writes, RowAt, RowOf

\* What is appended to the queue, and what MySQL will hold.
LEMMA FutureAppend ==
  ASSUME main \in Seq(Statement), NEW w \in Seq(Statement), main' = main \o w, row' = row
  PROVE  /\ \A i : \A k \in 1..Len(main) + 1 :
              RowAt(main', row'[i], i, k) = RowAt(main, row[i], i, k)
         /\ \A i : (\A n \in 1..Len(w) : w[n].op = "write" => w[n].item # i)
              => Future(i)' = Future(i)
         /\ \A i : \A n \in 1..Len(w) : WritesLast(w, i, n) => Future(i)' = RowOf(w[n])
<1>1. main' \in Seq(Statement) /\ Len(main') = Len(main) + Len(w)
      /\ Len(main) \in Nat /\ Len(w) \in Nat
  OBVIOUS
<1>2. \A i : /\ Future(i) = RowAt(main, row[i], i, Len(main) + 1)
             /\ Future(i)' = RowAt(main', row[i], i, Len(main) + Len(w) + 1)
  BY <1>1, FutureIs
<1>3. ASSUME NEW i, NEW k \in 1..Len(main) + 1
      PROVE  RowAt(main', row'[i], i, k) = RowAt(main, row[i], i, k)
  BY RowAtPrefix
<1>4. ASSUME NEW i, \A n \in 1..Len(w) : w[n].op = "write" => w[n].item # i
      PROVE  Future(i)' = Future(i)
  <2>1. Len(main) + Len(w) + 1 \in Len(main) + 1..Len(main) + Len(w) + 1
    BY <1>1
  <2>2. RowAt(main \o w, row[i], i, Len(main) + Len(w) + 1)
          = RowAt(main, row[i], i, Len(main) + 1)
    BY <1>4, <2>1, RowAtOthers
  <2> QED
    BY <1>2, <2>2
<1>5. ASSUME NEW i, NEW n \in 1..Len(w), WritesLast(w, i, n)
      PROVE  Future(i)' = RowOf(w[n])
  <2>1. RowAt(main \o w, row[i], i, Len(main) + Len(w) + 1) = RowOf(w[n])
    BY <1>5, RowAtWrite
  <2> QED
    BY <1>2, <2>1
<1> QED
  BY <1>3, <1>4, <1>5

\* One write.
LEMMA FutureWrite ==
  ASSUME main \in Seq(Statement), NEW m \in Statement, m.op = "write",
         main' = Append(main, m), row' = row
  PROVE  /\ \A i : \A k \in 1..Len(main) + 1 :
              RowAt(main', row'[i], i, k) = RowAt(main, row[i], i, k)
         /\ \A i : i # m.item => Future(i)' = Future(i)
         /\ \A i : i = m.item => Future(i)' = RowOf(m)
<1> DEFINE w == <<m>>
<1>1. w \in Seq(Statement) /\ main' = main \o w /\ Len(w) = 1 /\ w[1] = m
  OBVIOUS
<1>2. \A n \in 1..1 : n = 1
  OBVIOUS
<1> HIDE DEF w
<1>3. \A i : \A k \in 1..Len(main) + 1 :
        RowAt(main', row'[i], i, k) = RowAt(main, row[i], i, k)
  BY <1>1, FutureAppend
<1>4. ASSUME NEW i, i # m.item PROVE Future(i)' = Future(i)
  <2>1. \A n \in 1..Len(w) : w[n].op = "write" => w[n].item # i
    BY <1>1, <1>2, <1>4
  <2> QED
    BY <1>1, <2>1, FutureAppend
<1>5. ASSUME NEW i, i = m.item PROVE Future(i)' = RowOf(m)
  <2>1. 1 \in 1..Len(w) /\ WritesLast(w, i, 1)
    BY <1>1, <1>2, <1>5 DEF WritesLast
  <2>2. Future(i)' = RowOf(w[1])
    BY <1>1, <2>1, FutureAppend
  <2> QED
    BY <1>1, <2>2
<1> QED
  BY <1>3, <1>4, <1>5

\* Reads stay fresh while what they find is the same, and the items they find are
\* neither sent nor held meanwhile.
LEMMA FreshKept ==
  ASSUME TypeInv, Fresh,
         \A p \in Player : \A k \in Reads(main', p) :
           \/ \E l \in Reads(main, p) : \A i \in Item :
                RowAt(main', row'[i], i, k) = RowAt(main, row[i], i, l)
           \/ \A i \in Item : RowAt(main', row'[i], i, k).owner = p =>
                RowAt(main', row'[i], i, k) = sent'[i] /\ item'[i].at = NoOne,
         \A p \in Player : \A k \in Reads(res', p) :
           \/ \E l \in Reads(res, p) : res'[k].rows = res[l].rows
           \/ \A i \in Item : res'[k].rows[i] # 0 =>
                /\ sent'[i] = [owner |-> p, ver |-> res'[k].rows[i]]
                /\ item'[i].at = NoOne,
         \A i \in Item :
           \/ sent'[i] = sent[i] /\ (item[i].at = NoOne => item'[i].at = NoOne)
           \/ \A p \in Player : sent[i].owner = p => ~Pending(p)'
           \/ item[i].at # NoOne
  PROVE  Fresh'
<1> SUFFICES ASSUME NEW p \in Player, NEW i \in Item
             PROVE  /\ \A k \in Reads(main', p) :
                         RowAt(main', row'[i], i, k).owner = p =>
                           RowAt(main', row'[i], i, k) = sent'[i] /\ item'[i].at = NoOne
                    /\ \A k \in Reads(res', p) :
                         res'[k].rows[i] # 0 =>
                           /\ sent'[i] = [owner |-> p, ver |-> res'[k].rows[i]]
                           /\ item'[i].at = NoOne
  BY DEF Fresh
<1>1. \/ sent'[i] = sent[i] /\ (item[i].at = NoOne => item'[i].at = NoOne)
      \/ sent[i].owner = p => ~Pending(p)'
      \/ item[i].at # NoOne
  OBVIOUS
<1>2. Reads(main', p) # {} \/ Reads(res', p) # {} => Pending(p)'
  BY DEF Pending
<1>3. ASSUME NEW k \in Reads(main', p), RowAt(main', row'[i], i, k).owner = p
      PROVE  RowAt(main', row'[i], i, k) = sent'[i] /\ item'[i].at = NoOne
  <2>1. CASE \E l \in Reads(main, p) : \A j \in Item :
               RowAt(main', row'[j], j, k) = RowAt(main, row[j], j, l)
    <3>1. PICK l \in Reads(main, p) : RowAt(main', row'[i], i, k) = RowAt(main, row[i], i, l)
      BY <2>1
    <3>2. RowAt(main', row'[i], i, k) = sent[i] /\ item[i].at = NoOne
      BY <1>3, <3>1 DEF Fresh
    <3>3. sent[i].owner = p /\ Pending(p)'
      BY <1>2, <1>3, <3>2
    <3> QED
      BY <1>1, <3>2, <3>3
  <2> QED
    BY <1>3, <2>1
<1>4. ASSUME NEW k \in Reads(res', p), res'[k].rows[i] # 0
      PROVE  sent'[i] = [owner |-> p, ver |-> res'[k].rows[i]] /\ item'[i].at = NoOne
  <2>1. CASE \E l \in Reads(res, p) : res'[k].rows = res[l].rows
    <3>1. PICK l \in Reads(res, p) : res'[k].rows = res[l].rows
      BY <2>1
    <3>2. sent[i] = [owner |-> p, ver |-> res'[k].rows[i]] /\ item[i].at = NoOne
      BY <1>4, <3>1 DEF Fresh
    <3>3. sent[i].owner = p /\ Pending(p)'
      BY <1>2, <1>4, <3>2
    <3> QED
      BY <1>1, <3>2, <3>3
  <2> QED
    BY <1>4, <2>1
<1> QED
  BY <1>3, <1>4

\* Most steps queue writes at most, and change nobody's reads.
LEMMA FreshWrote ==
  ASSUME TypeInv, QueueInv, Fresh, Wrote, row' = row,
         \A i \in Item :
           \/ sent'[i] = sent[i] /\ (item[i].at = NoOne => item'[i].at = NoOne)
           \/ \A p \in Player : sent[i].owner = p => ~Pending(p)'
           \/ item[i].at # NoOne
  PROVE  Fresh'
<1>1. PICK w \in Seq(Statement) : main' = main \o w /\ \A n \in 1..Len(w) : w[n].op = "write"
  BY DEF Wrote
<1>2. main \in Seq(Statement)
  BY DEF TypeInv, SqlInv
<1>3. \A i : \A k \in 1..Len(main) + 1 :
        RowAt(main', row'[i], i, k) = RowAt(main, row[i], i, k)
  BY <1>1, <1>2, FutureAppend
<1>4. \A p : Reads(main', p) = Reads(main, p) /\ Reads(res', p) = Reads(res, p)
  BY WroteKeeps
<1>5. res' = res
  BY DEF Wrote
<1>6. \A p : \A k \in Reads(main, p) : k \in 1..Len(main) + 1
  <2>1. DOMAIN main = 1..Len(main) /\ \A k \in 1..Len(main) : k \in 1..Len(main) + 1
    BY <1>2
  <2> QED
    BY <2>1 DEF Reads
<1>7. \A p \in Player : \A k \in Reads(main', p) : \E l \in Reads(main, p) :
        \A i \in Item : RowAt(main', row'[i], i, k) = RowAt(main, row[i], i, l)
  BY <1>3, <1>4, <1>6
<1>8. \A p \in Player : \A k \in Reads(res', p) : \E l \in Reads(res, p) :
        res'[k].rows = res[l].rows
  BY <1>4, <1>5
<1> QED
  BY <1>7, <1>8, FreshKept

\* An unwritten change that nothing touches stays somebody's.
LEMMA OwnersKept ==
  ASSUME NEW i \in Item, Owners(i),
         Unwritten(i)' => /\ Unwritten(i) /\ entry'[i].owner = entry[i].owner
                          /\ entry[i].since \subseteq entry'[i].since
                          /\ Future(i)' = Future(i)
                          /\ Known(entry[i].owner) => Known(entry[i].owner)'
                          /\ \A p \in Player : Future(i).owner = p =>
                               /\ p \in hasSet \/ Pending(p) => p \in hasSet' \/ Pending(p)'
                               /\ Known(p) => Known(p)'
                               /\ p \in leaving' => p \in leaving \/ p \in entry'[i].since
  PROVE  Owners(i)'
<1> SUFFICES ASSUME Unwritten(i)' PROVE Owners(i)'
  BY DEF Owners
<1>1. Known(entry[i].owner)'
  BY DEF Owners
<1>2. ASSUME NEW p \in Player, Future(i)'.owner = p, entry'[i].owner # p
      PROVE  /\ p \in hasSet' \/ Pending(p)'
             /\ Known(p)'
             /\ p \in leaving' => p \in entry'[i].since
  <2>1. Future(i).owner = p /\ entry[i].owner # p
    BY <1>2
  <2>2. /\ p \in hasSet \/ Pending(p)
        /\ Known(p)
        /\ p \in leaving => p \in entry[i].since
    BY <2>1 DEF Owners, Former
  <2> QED
    BY <2>1, <2>2
<1> QED
  BY <1>1, <1>2 DEF Owners, Former

\* An item that nothing touches is known as before.
LEMMA Untouched ==
  ASSUME NEW i \in Item, KnownObject(i), InSync(i),
         item'[i] = item[i], sent'[i] = sent[i], i \in cached' <=> i \in cached,
         entry'[i] = entry[i], Future(i)' = Future(i)
  PROVE  KnownObject(i)' /\ InSync(i)'
  BY DEF KnownObject, InSync, Unwritten, Content

\* What the statement of an entry leaves in MySQL.
LEMMA OnFlushRow ==
  ASSUME NEW i, NEW e
  PROVE  RowOf(OnFlush(i, e)) = IF e.ver = 0 THEN Gone ELSE [owner |-> e.owner, ver |-> e.ver]
  BY DEF RowOf, OnFlush, Gone

\* The core's objects change: nobody is told.
LEMMA ObjectSync ==
  ASSUME TypeInv, QueueInv, SyncInv, NEW i \in Item,
         UNCHANGED <<phase, ptab, leaving, cacheVars, sqlVars, sent>>,
         \A j \in Item \ {i} : item'[j] = item[j],
         item'[i].at \in Player, item'[i].ver # 0,
         sent[i] = Gone \/ sent[i].owner = item'[i].at,
         sent[i] = Gone \/ item[i].at # NoOne
  PROVE  SyncInv'
<1>1. UNCHANGED <<phase, ptab, leaving, cached, entry, hasSet, set, row, main, res, sent>>
  BY DEF cacheVars, sqlVars
<1>2. \A j : Future(j)' = Future(j) /\ Unwritten(j)' = Unwritten(j)
  BY <1>1 DEF Future, Writes, Unwritten
<1>3. \A p : /\ Pending(p)' <=> Pending(p)
             /\ Known(p)' <=> Known(p)
  BY <1>1 DEF Pending, Known, InGame, Reads
<1>4. ASSUME NEW j \in Item PROVE KnownObject(j)' /\ InSync(j)' /\ Owners(j)'
  <2>1. KnownObject(j) /\ InSync(j) /\ Owners(j)
    BY DEF SyncInv
  <2>2. Owners(j)'
    BY <1>1, <1>2, <1>3, <2>1, OwnersKept
  <2>3. CASE j = i
    <3>1. KnownObject(j)'
      BY <1>1, <2>3, CacheAssumption DEF KnownObject
    <3>2. InSync(j)'
      BY <1>1, <1>2, <2>1 DEF InSync, Content
    <3> QED
      BY <2>2, <3>1, <3>2
  <2>4. CASE j # i
    BY <1>1, <1>2, <2>1, <2>2, <2>4, Untouched
  <2> QED
    BY <2>3, <2>4
<1>5. Fresh'
  <2>1. Wrote
    BY <1>1, WroteNothing
  <2>2. \A p \in Player : Gone.owner # p
    BY CacheAssumption DEF Gone
  <2> QED
    BY <1>1, <2>1, <2>2, FreshWrote DEF SyncInv
<1> QED
  BY <1>4, <1>5 DEF SyncInv

\* An item is saved.
LEMMA SaveSync ==
  ASSUME TypeInv, QueueInv, Sessions, SyncInv,
         NEW i \in Item, NEW o \in Player, NEW v \in 1..MaxVer, QUERY_ITEM_SAVE(i, o, v),
         item[i].at \in Player, InGame(item[i].at), InGame(o),
         item'[i].at = o, item'[i].ver = v, \A j \in Item \ {i} : item'[j] = item[j],
         UNCHANGED <<phase, ptab, leaving>>
  PROVE  SyncInv'
<1> DEFINE e == Saved(i, o, v)
<1>1. /\ cached' = cached \cup {i} /\ hasSet' = hasSet /\ row' = row /\ res' = res
      /\ sent' = [sent EXCEPT ![i] = [owner |-> o, ver |-> v]]
      /\ e \in Entry /\ entry' = [entry EXCEPT ![i] = e]
      /\ main' = IF o \in hasSet THEN main ELSE Append(main, OnFlush(i, e))
  <2>1. PutItemCache(i, o, v) /\ CacheInv
    BY DEF QUERY_ITEM_SAVE, TypeInv
  <2>2. /\ Saved(i, o, v) \in Entry /\ entry' = [entry EXCEPT ![i] = Saved(i, o, v)]
        /\ main' = IF o \in hasSet THEN main
                   ELSE Append(main, OnFlush(i, Saved(i, o, v)))
    BY <2>1, SavedIs
  <2>3. cached' = cached \cup {i} /\ hasSet' = hasSet
    BY <2>1 DEF PutItemCache
  <2>4. /\ row' = row /\ res' = res
        /\ sent' = [sent EXCEPT ![i] = [owner |-> o, ver |-> v]]
    BY DEF QUERY_ITEM_SAVE
  <2> QED
    BY <2>2, <2>3, <2>4
<1>2. /\ e.owner = o /\ e.ver = v /\ v # 0 /\ (e.dirty <=> o \in hasSet)
      /\ o \in hasSet /\ i \in cached /\ entry[i].dirty => e.since = entry[i].since
  <2>1. /\ e.owner = o /\ e.ver = v /\ e.dirty = (o \in hasSet)
        /\ e.since = IF o \in hasSet /\ i \in cached /\ entry[i].dirty
                     THEN entry[i].since ELSE {}
    BY DEF Saved
  <2>2. v # 0
    BY CacheAssumption
  <2> HIDE DEF e
  <2> QED
    BY <2>1, <2>2
<1> HIDE DEF e
<1>3. /\ main \in Seq(Statement) /\ sent \in [Item -> Value] /\ entry \in [Item -> Entry]
  BY DEF TypeInv, SqlInv, SentInv, CacheInv
<1>4. /\ OnFlush(i, e) \in Statement /\ OnFlush(i, e).op = "write" /\ OnFlush(i, e).item = i
      /\ RowOf(OnFlush(i, e)) = [owner |-> o, ver |-> v]
  BY <1>1, <1>2, OnFlushType, OnFlushRow DEF OnFlush
<1>5. Wrote
  BY <1>1, <1>4, WroteOne
<1>6. /\ \A j : j # i => Future(j)' = Future(j)
      /\ o \in hasSet => Future(i)' = Future(i)
      /\ o \notin hasSet => Future(i)' = [owner |-> o, ver |-> v]
  <2>1. CASE o \in hasSet
    BY <1>1, <2>1 DEF Future, Writes
  <2>2. CASE o \notin hasSet
    BY <1>1, <1>3, <1>4, <2>2, FutureWrite
  <2> QED
    BY <2>1, <2>2
<1>7. \A p : /\ Pending(p)' <=> Pending(p)
             /\ Known(p)' <=> Known(p)
  BY <1>5, WroteKeeps DEF Known, InGame
<1>8. Fresh'
  <2>1. \A j \in Item \ {i} : sent'[j] = sent[j]
    BY <1>1, <1>3
  <2>2. item[i].at # NoOne
    BY CacheAssumption
  <2> QED
    BY <1>1, <1>5, <2>1, <2>2, FreshWrote DEF SyncInv
<1>9. ASSUME NEW j \in Item \ {i} PROVE KnownObject(j)' /\ InSync(j)' /\ Owners(j)'
  <2>1. KnownObject(j) /\ InSync(j) /\ Owners(j)
    BY DEF SyncInv
  <2>2. entry'[j] = entry[j] /\ sent'[j] = sent[j] /\ (j \in cached' <=> j \in cached)
        /\ Future(j)' = Future(j) /\ (Unwritten(j)' <=> Unwritten(j))
    BY <1>1, <1>3, <1>6 DEF Unwritten
  <2>3. Owners(j)'
    BY <1>1, <1>7, <2>1, <2>2, OwnersKept
  <2> QED
    BY <2>1, <2>2, <2>3, Untouched
<1>10. /\ sent'[i] = [owner |-> o, ver |-> v] /\ entry'[i] = e /\ i \in cached'
       /\ (Unwritten(i)' <=> o \in hasSet)
  BY <1>1, <1>2, <1>3 DEF Unwritten
<1>11. KnownObject(i)'
  BY <1>2, <1>10, CacheAssumption DEF KnownObject
<1>12. InSync(i)'
  BY <1>2, <1>6, <1>10 DEF InSync, Content
<1>13. Owners(i)'
  <2> SUFFICES ASSUME o \in hasSet
               PROVE  /\ Known(o)'
                      /\ \A p \in Player : Future(i).owner = p /\ o # p =>
                           /\ p \in hasSet' \/ Pending(p)'
                           /\ Known(p)'
                           /\ p \in leaving' => p \in e.since
    BY <1>2, <1>6, <1>10 DEF Owners, Former
  <2>1. Known(o)'
    BY <1>7 DEF Known
  <2>2. ASSUME NEW p \in Player, Future(i).owner = p, o # p
        PROVE  /\ p \in hasSet' \/ Pending(p)'
               /\ Known(p)'
               /\ p \in leaving' => p \in e.since
    <3>1. KnownObject(i) /\ InSync(i) /\ Owners(i)
      BY DEF SyncInv
    <3>2. CASE p = item[i].at
      BY <1>1, <1>7, <3>2 DEF Sessions, Known
    <3>3. CASE p # item[i].at
      <4>1. sent[i].owner # p
        BY <3>1, <3>3, CacheAssumption DEF KnownObject, Gone
      <4>2. Unwritten(i)
        BY <2>2, <3>1, <4>1 DEF InSync
      <4>3. entry[i].owner # p
        BY <3>1, <4>1, <4>2 DEF InSync, Content, Unwritten
      <4>4. Former(i, p)
        BY <2>2, <3>1, <4>2, <4>3 DEF Owners
      <4> QED
        BY <1>1, <1>2, <1>7, <4>2, <4>4 DEF Former, Unwritten
    <3> QED
      BY <3>2, <3>3
  <2> QED
    BY <2>1, <2>2
<1> QED
  BY <1>8, <1>9, <1>11, <1>12, <1>13 DEF SyncInv

\* An item is destroyed.
LEMMA DestroySync ==
  ASSUME TypeInv, QueueInv, SyncInv,
         NEW i \in Item, NEW last, last # NoOne, QUERY_ITEM_DESTROY(i, last),
         item[i].at # NoOne, item'[i].at \in {NoOne, Ground},
         \A j \in Item \ {i} : item'[j] = item[j],
         UNCHANGED <<phase, ptab, leaving>>
  PROVE  SyncInv'
<1> DEFINE d == OnFlush(i, Deleted(i))
<1>1. /\ UNCHANGED <<cached, hasSet, row, res>>
      /\ sent' = [sent EXCEPT ![i] = Gone]
      /\ \/ i \in cached /\ entry[i].ver = 0 /\ entry' = entry /\ main' = main
         \/ i \in cached /\ entry' = [entry EXCEPT ![i] = Deleted(i)] /\ main' = Append(main, d)
         \/ i \notin cached /\ entry' = entry /\ main' = Append(main, d)
  BY DEF QUERY_ITEM_DESTROY, Deleted
<1>2. /\ main \in Seq(Statement) /\ sent \in [Item -> Value] /\ entry \in [Item -> Entry]
      /\ Deleted(i) \in Entry /\ Deleted(i).ver = 0 /\ Deleted(i).dirty = FALSE
  BY DeletedIs DEF TypeInv, SqlInv, SentInv, CacheInv
<1>3. /\ d \in Statement /\ d.op = "write" /\ d.item = i /\ RowOf(d) = Gone
  BY <1>2, OnFlushType, OnFlushRow DEF OnFlush
<1> HIDE DEF d
<1>4. Wrote
  BY <1>1, <1>3, WroteOne
<1>5. /\ \A j : j # i => Future(j)' = Future(j)
      /\ main' = Append(main, d) => Future(i)' = Gone
      /\ main' = main => Future(i)' = Future(i)
  <2>1. CASE main' = main
    <3>1. Append(main, d) # main
      <4>1. Len(Append(main, d)) = Len(main) + 1 /\ Len(main) \in Nat
        BY <1>2, <1>3
      <4> QED
        BY <4>1
    <3> QED
      BY <1>1, <2>1, <3>1 DEF Future, Writes
  <2>2. CASE main' = Append(main, d)
    <3>1. Append(main, d) # main
      <4>1. Len(Append(main, d)) = Len(main) + 1 /\ Len(main) \in Nat
        BY <1>2, <1>3
      <4> QED
        BY <4>1
    <3>2. /\ \A j : j # i => Future(j)' = Future(j)
          /\ Future(i)' = Gone
      BY <1>1, <1>2, <1>3, <2>2, FutureWrite
    <3> QED
      BY <2>2, <3>1, <3>2
  <2> QED
    BY <1>1, <2>1, <2>2
<1>6. \A p : /\ Pending(p)' <=> Pending(p)
             /\ Known(p)' <=> Known(p)
  BY <1>4, WroteKeeps DEF Known, InGame
<1>7. Fresh'
  <2>1. \A j \in Item \ {i} : sent'[j] = sent[j]
    BY <1>1, <1>2
  <2> QED
    BY <1>1, <1>4, <2>1, FreshWrote DEF SyncInv
<1>8. ASSUME NEW j \in Item \ {i} PROVE KnownObject(j)' /\ InSync(j)' /\ Owners(j)'
  <2>1. KnownObject(j) /\ InSync(j) /\ Owners(j)
    BY DEF SyncInv
  <2>2. entry'[j] = entry[j] /\ sent'[j] = sent[j] /\ (j \in cached' <=> j \in cached)
        /\ Future(j)' = Future(j) /\ (Unwritten(j)' <=> Unwritten(j))
    BY <1>1, <1>2, <1>5 DEF Unwritten
  <2>3. Owners(j)'
    BY <1>1, <1>6, <2>1, <2>2, OwnersKept
  <2> QED
    BY <2>1, <2>2, <2>3, Untouched
<1>9. KnownObject(i) /\ InSync(i) /\ Owners(i)
  BY DEF SyncInv
<1>10. sent'[i] = Gone
  BY <1>1, <1>2
<1>11. KnownObject(i)'
  BY <1>10, CacheAssumption DEF KnownObject
<1>12. ~Unwritten(i)' /\ (i \in cached => entry'[i].ver = 0)
  BY <1>1, <1>2, <1>9 DEF InSync, Unwritten
<1>13. Future(i)' = Gone
  <2>1. CASE main' = main
    <3>1. i \in cached /\ entry[i].ver = 0
      <4>1. Append(main, d) # main
        <5>1. Len(Append(main, d)) = Len(main) + 1 /\ Len(main) \in Nat
          BY <1>2, <1>3
        <5> QED
          BY <5>1
      <4> QED
        BY <1>1, <2>1, <4>1
    <3>2. Future(i) = Gone
      BY <1>9, <3>1 DEF InSync, Content
    <3> QED
      BY <1>5, <2>1, <3>2
  <2> QED
    BY <1>1, <1>5, <2>1
<1>14. InSync(i)' /\ Owners(i)'
  BY <1>1, <1>10, <1>12, <1>13 DEF InSync, Owners, Content
<1> QED
  BY <1>7, <1>8, <1>11, <1>14 DEF SyncInv

\* Entries are written out, and perhaps dropped: MySQL will hold what they held.
LEMMA FlushSync ==
  ASSUME TypeInv, QueueInv, SyncInv,
         NEW S \in SUBSET Item, S \subseteq cached, NEW w, WritesOut(w, S),
         main' = main \o w, entry' = Clean(S), cached' \in {cached, cached \ S},
         leaving' \subseteq leaving, UNCHANGED <<item, phase, row, res, sent>>
  PROVE  /\ Fresh'
         /\ \A p : Pending(p)' <=> Pending(p)
         /\ \A j \in Item : /\ KnownObject(j)' /\ InSync(j)'
                            /\ j \in S => ~Unwritten(j)'
                            /\ j \notin S => /\ entry'[j] = entry[j]
                                             /\ Future(j)' = Future(j)
                                             /\ Unwritten(j)' <=> Unwritten(j)
<1>1. /\ main \in Seq(Statement) /\ w \in Seq(Statement) /\ entry \in [Item -> Entry]
      /\ \A n \in 1..Len(w) : w[n].op = "write" /\ w[n].item \in Dirty(S)
  BY DEF TypeInv, SqlInv, CacheInv, WritesOut
<1>2. Wrote
  BY <1>1 DEF Wrote
<1>3. \A p : Pending(p)' <=> Pending(p)
  BY <1>2, WroteKeeps
<1>4. Fresh'
  BY <1>2, FreshWrote DEF SyncInv
<1>5. ASSUME NEW j \in Item \ Dirty(S) PROVE Future(j)' = Future(j)
  <2>1. \A n \in 1..Len(w) : w[n].op = "write" => w[n].item # j
    BY <1>1
  <2> QED
    BY <1>1, <2>1, FutureAppend
<1>6. ASSUME NEW j \in Item \ S
      PROVE  /\ KnownObject(j)' /\ InSync(j)' /\ entry'[j] = entry[j]
             /\ Future(j)' = Future(j) /\ (Unwritten(j)' <=> Unwritten(j))
  <2>1. KnownObject(j) /\ InSync(j)
    BY DEF SyncInv
  <2>2. entry'[j] = entry[j] /\ (j \in cached' <=> j \in cached)
    BY DEF Clean
  <2>3. Future(j)' = Future(j)
    BY <1>5 DEF Dirty
  <2> QED
    BY <2>1, <2>2, <2>3, Untouched DEF Unwritten
<1>7. ASSUME NEW j \in S PROVE KnownObject(j)' /\ InSync(j)' /\ ~Unwritten(j)'
  <2>1. KnownObject(j) /\ InSync(j) /\ j \in cached /\ j \in Item
    BY DEF SyncInv
  <2>2. /\ entry'[j].owner = entry[j].owner /\ entry'[j].ver = entry[j].ver
        /\ entry'[j].dirty = FALSE
    <3>1. entry[j] \in Entry /\ entry'[j] = [entry[j] EXCEPT !.dirty = FALSE, !.since = {}]
      BY <1>1, <2>1 DEF Clean
    <3> QED
      BY <3>1 DEF Entry
  <2>3. KnownObject(j)'
    BY <2>1 DEF KnownObject
  <2>4. Content(j)' = sent'[j]
    BY <2>1, <2>2 DEF InSync, Content
  <2>5. Future(j)' = sent'[j]
    <3>1. CASE entry[j].dirty
      <4>1. PICK n \in 1..Len(w) : w[n] = OnFlush(j, entry[j]) /\ WritesLast(w, j, n)
        BY <3>1 DEF WritesOut, Dirty
      <4>2. Future(j)' = RowOf(w[n])
        BY <1>1, <4>1, FutureAppend
      <4>3. RowOf(w[n]) = Content(j)
        BY <4>1, OnFlushRow DEF Content
      <4> QED
        BY <2>1, <4>2, <4>3 DEF InSync
    <3>2. CASE ~entry[j].dirty
      BY <1>5, <2>1, <3>2 DEF InSync, Unwritten, Dirty
    <3> QED
      BY <3>1, <3>2
  <2> QED
    BY <2>2, <2>3, <2>4, <2>5 DEF InSync, Unwritten
<1> QED
  BY <1>3, <1>4, <1>6, <1>7

\* The timers of the daemon, of an entry or a whole set.
LEMMA TimersSync ==
  ASSUME Orderly, TypeInv, SetInv, QueueInv, Sessions, SyncInv, NEW p, NEW i,
         \/ i \in Item /\ UpdateItemCache(i)
         \/ p \in Player /\ (UpdatePlayerCache(p) \/ UpdateLogoutPlayer(p))
  PROVE  SyncInv'
<1>1. CacheInv /\ \A j \in Item : Owners(j)
  BY DEF TypeInv, SyncInv
<1>2. CASE i \in Item /\ UpdateItemCache(i)
  <2> DEFINE m == OnFlush(i, entry[i])
  <2>1. /\ i \in cached /\ entry[i].dirty /\ main' = Append(main, m) /\ entry' = Clean({i})
        /\ UNCHANGED <<item, phase, ptab, leaving, cached, hasSet, row, res, sent>>
    BY <1>2 DEF UpdateItemCache, gameVars, sessionVars, loginVars
  <2>2. main \in Seq(Statement) /\ m \in Statement /\ m.op = "write" /\ m.item = i
    BY <1>1, <1>2, OnFlushType DEF CacheInv, TypeInv, SqlInv, OnFlush
  <2>3. main' = main \o <<m>> /\ <<m>> \in Seq(Statement) /\ Len(<<m>>) = 1 /\ <<m>>[1] = m
    BY <2>1, <2>2
  <2>4. WritesOut(<<m>>, {i})
    <3>1. \A n \in 1..1 : n = 1
      OBVIOUS
    <3>2. WritesLast(<<m>>, i, 1) /\ 1 \in 1..1
      BY <2>2, <2>3, <3>1 DEF WritesLast
    <3> QED
      BY <2>1, <2>2, <2>3, <3>1, <3>2 DEF WritesOut, Dirty
  <2> HIDE DEF m
  <2>5. /\ Fresh'
        /\ \A x : Pending(x)' <=> Pending(x)
        /\ \A j \in Item : /\ KnownObject(j)' /\ InSync(j)'
                           /\ j \in {i} => ~Unwritten(j)'
                           /\ j \notin {i} => /\ entry'[j] = entry[j]
                                              /\ Future(j)' = Future(j)
                                              /\ Unwritten(j)' <=> Unwritten(j)
    BY <1>2, <2>1, <2>3, <2>4, FlushSync
  <2>6. \A x : Known(x)' <=> Known(x)
    BY <2>1 DEF Known, InGame
  <2>7. ASSUME NEW j \in Item PROVE Owners(j)'
    <3>1. CASE j = i
      BY <2>5, <3>1 DEF Owners
    <3>2. CASE j # i
      BY <1>1, <2>1, <2>5, <2>6, <3>2, OwnersKept
    <3> QED
      BY <3>1, <3>2
  <2> QED
    BY <2>5, <2>7 DEF SyncInv
<1>3. CASE p \in Player /\ UpdatePlayerCache(p)
  <2>1. /\ entry' = Clean(set[p])
        /\ UNCHANGED <<item, phase, ptab, leaving, cached, hasSet, row, res, sent>>
    BY <1>3 DEF UpdatePlayerCache, gameVars, sessionVars, loginVars
  <2>2. PICK w \in FlushOrders(set[p]) : main' = main \o w
    BY <1>3 DEF UpdatePlayerCache
  <2>3. set[p] \in SUBSET Item /\ set[p] \subseteq cached
    BY <1>1, <1>3 DEF CacheInv, SetInv, NoDanglingEntry
  <2>4. WritesOut(w, set[p])
    BY <1>1, <2>2, <2>3, FlushOrdersAre
  <2>5. /\ Fresh'
        /\ \A x : Pending(x)' <=> Pending(x)
        /\ \A j \in Item : /\ KnownObject(j)' /\ InSync(j)'
                           /\ j \in set[p] => ~Unwritten(j)'
                           /\ j \notin set[p] => /\ entry'[j] = entry[j]
                                                 /\ Future(j)' = Future(j)
                                                 /\ Unwritten(j)' <=> Unwritten(j)
    BY <2>1, <2>2, <2>3, <2>4, FlushSync
  <2>6. \A x : Known(x)' <=> Known(x)
    BY <2>1 DEF Known, InGame
  <2>7. ASSUME NEW j \in Item PROVE Owners(j)'
    <3>1. CASE j \in set[p]
      BY <2>5, <3>1 DEF Owners
    <3>2. CASE j \notin set[p]
      BY <1>1, <2>1, <2>5, <2>6, <3>2, OwnersKept
    <3> QED
      BY <3>1, <3>2
  <2> QED
    BY <2>5, <2>7 DEF SyncInv
<1>4. CASE p \in Player /\ UpdateLogoutPlayer(p)
  <2>1. /\ p \in leaving /\ ptab' = ptab \ {p} /\ leaving' = leaving \ {p}
        /\ \A j \in cached : entry[j].dirty => p \notin entry[j].since
        /\ UNCHANGED <<item, phase, row, res, sent>>
    BY <1>4 DEF UpdateLogoutPlayer, Orderly, gameVars, sessionVars
  <2>2. \A j \in Item : Unwritten(j) /\ entry[j].owner = p => p \in hasSet /\ j \in set[p]
    BY <1>4 DEF Unwritten, SetInv, DirtyReachable, NoDanglingEntry
  \* Nobody waits for p: an unwritten item that p had is as old as p's logout.
  <2>3. ASSUME NEW j \in Item, Unwritten(j) PROVE Future(j).owner # p \/ entry[j].owner = p
    <3>1. p \notin entry[j].since
      BY <2>1, <2>3 DEF Unwritten
    <3> QED
      BY <1>1, <1>4, <2>1, <2>3, <3>1 DEF Owners, Former
  <2>4. \A x : x # p => (Known(x) => Known(x)')
    BY <2>1 DEF Known, InGame
  <2>5. ASSUME NEW j \in Item, Unwritten(j)' => Unwritten(j) /\ entry[j].owner # p,
               Unwritten(j)' => entry'[j] = entry[j] /\ Future(j)' = Future(j),
               \A x : Pending(x)' <=> Pending(x), \A x : x # p => (x \in hasSet => x \in hasSet')
        PROVE  Owners(j)'
    <3>1. Unwritten(j)' => Future(j).owner # p
      BY <2>3, <2>5
    <3> QED
      BY <1>1, <2>1, <2>4, <2>5, <3>1, OwnersKept
  <2>6. CASE p \notin hasSet
    <3>1. UNCHANGED <<cached, entry, hasSet, main>>
      BY <1>4, <2>6 DEF UpdateLogoutPlayer, FlushItemCacheSet, cacheVars
    <3>2. Wrote
      BY <2>1, <3>1, WroteNothing
    <3>3. Fresh'
      BY <2>1, <3>2, FreshWrote DEF SyncInv
    <3>4. \A x : Pending(x)' <=> Pending(x)
      BY <3>2, WroteKeeps
    <3>5. ASSUME NEW j \in Item PROVE KnownObject(j)' /\ InSync(j)' /\ Owners(j)'
      <4>1. Future(j)' = Future(j) /\ (Unwritten(j)' <=> Unwritten(j))
        BY <2>1, <3>1 DEF Future, Writes, Unwritten
      <4>2. KnownObject(j)' /\ InSync(j)'
        BY <2>1, <3>1, <4>1, Untouched DEF SyncInv
      <4>3. Owners(j)'
        BY <2>2, <2>5, <2>6, <3>1, <3>4, <4>1
      <4> QED
        BY <4>2, <4>3
    <3> QED
      BY <3>3, <3>5 DEF SyncInv
  <2>7. CASE p \in hasSet
    <3>1. /\ cached' = cached \ set[p] /\ entry' = Clean(set[p]) /\ hasSet' = hasSet \ {p}
      BY <1>4, <2>7 DEF UpdateLogoutPlayer, FlushItemCacheSet
    <3>2. PICK w \in FlushOrders(set[p]) : main' = main \o w
      BY <1>4, <2>7 DEF UpdateLogoutPlayer, FlushItemCacheSet
    <3>3. set[p] \in SUBSET Item /\ set[p] \subseteq cached
      BY <1>1, <1>4 DEF CacheInv, SetInv, NoDanglingEntry
    <3>4. WritesOut(w, set[p])
      BY <1>1, <3>2, <3>3, FlushOrdersAre
    <3>5. /\ Fresh'
          /\ \A x : Pending(x)' <=> Pending(x)
          /\ \A j \in Item : /\ KnownObject(j)' /\ InSync(j)'
                             /\ j \in set[p] => ~Unwritten(j)'
                             /\ j \notin set[p] => /\ entry'[j] = entry[j]
                                                   /\ Future(j)' = Future(j)
                                                   /\ Unwritten(j)' <=> Unwritten(j)
      BY <2>1, <3>1, <3>2, <3>3, <3>4, FlushSync
    <3>6. ASSUME NEW j \in Item PROVE Owners(j)'
      BY <2>2, <2>5, <3>1, <3>5
    <3> QED
      BY <3>5, <3>6 DEF SyncInv
  <2> QED
    BY <2>6, <2>7
<1> QED
  BY <1>2, <1>3, <1>4

\* What a core does to its objects.
LEMMA ItemsSync ==
  ASSUME Orderly, TypeInv, QueueInv, Sessions, OwnedObjects, SyncInv, NEW p, NEW i \in Item,
         \/ DropNew(i) \/ DestroyItem(i) \/ SaveSingleItem(i)
         \/ p \in Player /\ PlayerItemStep(p, i)
  PROVE  SyncInv'
<1>1. /\ item \in [Item -> Object] /\ item[i].ver \in 0..MaxVer
      /\ item[i].at \in Player => item[i].ver # 0
      /\ item[i].at # NoOne => item[i].last # NoOne
  BY CacheAssumption DEF TypeInv, GameInv, Object, OwnedObjects
<1>2. /\ KnownObject(i)
      /\ item[i].at \in Player => InGame(item[i].at)
  BY DEF SyncInv, OwnedObjects
<1>3. CASE DropNew(i)
  BY <1>3 DEF DropNew, Orderly
<1>4. CASE DestroyItem(i)
  <2>1. /\ item[i].at # NoOne /\ item' = [item EXCEPT ![i].at = NoOne]
        /\ QUERY_ITEM_DESTROY(i, item[i].last) /\ UNCHANGED <<phase, ptab, leaving>>
    BY <1>4, CacheAssumption DEF DestroyItem, sessionVars, loginVars
  <2>2. item'[i].at = NoOne /\ \A j \in Item \ {i} : item'[j] = item[j]
    BY <1>1, <2>1 DEF Object
  <2> QED
    BY <1>1, <2>1, <2>2, DestroySync
<1>5. CASE SaveSingleItem(i)
  <2>1. item[i].at \in Player /\ i \in unsaved
    BY <1>5 DEF SaveSingleItem, OwnedObjects
  <2>2. item[i].ver \in 1..MaxVer
    BY <1>1, <2>1, CacheAssumption
  <2>3. /\ QUERY_ITEM_SAVE(i, item[i].at, item[i].ver) /\ item' = item
        /\ UNCHANGED <<phase, ptab, leaving>>
    BY <1>5, <2>1 DEF SaveSingleItem, sessionVars, loginVars
  <2> QED
    BY <1>2, <2>1, <2>2, <2>3, SaveSync
<1>6. CASE p \in Player /\ PlayerItemStep(p, i)
  <2>1. CASE CreateItem(p, i)
    <3>1. /\ item' = [item EXCEPT ![i] = AddToCharacter(p, 1)]
          /\ item[i].at = NoOne /\ item[i].ver = 0
          /\ UNCHANGED <<phase, ptab, leaving, cacheVars, sqlVars, sent>>
      BY <2>1 DEF CreateItem, sessionVars, loginVars
    <3>2. item'[i].at = p /\ item'[i].ver # 0 /\ \A j \in Item \ {i} : item'[j] = item[j]
      BY <1>1, <3>1 DEF AddToCharacter
    <3>3. sent[i] = Gone
      BY <1>2, <3>1 DEF KnownObject
    <3> QED
      BY <1>6, <3>1, <3>2, <3>3, ObjectSync
  <2>2. CASE Change(p, i)
    <3>1. /\ item' = [item EXCEPT ![i].ver = @ + 1] /\ item[i].at = p
          /\ UNCHANGED <<phase, ptab, leaving, cacheVars, sqlVars, sent>>
      BY <2>2 DEF Change, sessionVars, loginVars
    <3>2. /\ item'[i].at = p /\ item'[i].ver = item[i].ver + 1
          /\ \A j \in Item \ {i} : item'[j] = item[j]
      BY <1>1, <3>1 DEF Object
    <3>3. item[i].ver + 1 # 0
      BY <1>1
    <3>4. sent[i] = Gone \/ sent[i].owner = p
      BY <1>2, <1>6, <3>1 DEF KnownObject
    <3> QED
      BY <1>6, <3>1, <3>2, <3>3, <3>4, ObjectSync, CacheAssumption
  <2>3. CASE DropItem(p, i)
    <3>1. /\ item[i].at # NoOne /\ item' = [item EXCEPT ![i].at = Ground]
          /\ QUERY_ITEM_DESTROY(i, item[i].last) /\ UNCHANGED <<phase, ptab, leaving>>
      BY <1>6, <2>3, CacheAssumption DEF DropItem, sessionVars, loginVars
    <3>2. item'[i].at = Ground /\ \A j \in Item \ {i} : item'[j] = item[j]
      BY <1>1, <3>1 DEF Object
    <3> QED
      BY <1>1, <3>1, <3>2, DestroySync
  <2>4. CASE PickupItem(p, i)
    <3>1. /\ item' = [item EXCEPT ![i] = AddToCharacter(p, item[i].ver + 1)]
          /\ item[i].at = Ground
          /\ UNCHANGED <<phase, ptab, leaving, cacheVars, sqlVars, sent>>
      BY <2>4 DEF PickupItem, sessionVars, loginVars
    <3>2. /\ item'[i].at = p /\ item'[i].ver = item[i].ver + 1
          /\ \A j \in Item \ {i} : item'[j] = item[j]
      BY <1>1, <3>1 DEF AddToCharacter
    <3>3. item[i].ver + 1 # 0
      BY <1>1
    <3>4. sent[i] = Gone
      BY <1>2, <3>1 DEF KnownObject
    <3> QED
      BY <1>6, <3>1, <3>2, <3>3, <3>4, ObjectSync
  <2>5. CASE SafeboxCheckin(p, i) \/ SafeboxCheckout(p, i)
    BY <2>5 DEF SafeboxCheckin, SafeboxCheckout, Orderly, OwnedObjects
  <2>6. CASE \E q \in Player : Exchange(p, q, i)
    <3>1. PICK q \in Player : Exchange(p, q, i)
      BY <2>6
    <3>2. /\ item' = [item EXCEPT ![i] = AddToCharacter(q, item[i].ver + 1)]
          /\ item[i].at = p /\ item[i].ver < MaxVer
          /\ QUERY_ITEM_SAVE(i, q, item[i].ver + 1)
          /\ InGame(p) /\ InGame(q) /\ UNCHANGED <<phase, ptab, leaving>>
      BY <3>1 DEF Exchange, Active, InGame, sessionVars, loginVars
    <3>3. item[i].ver + 1 \in 1..MaxVer
      BY <1>1, <3>2, CacheAssumption
    <3>4. /\ item'[i].at = q /\ item'[i].ver = item[i].ver + 1
          /\ \A j \in Item \ {i} : item'[j] = item[j]
      BY <1>1, <3>2 DEF AddToCharacter
    <3> QED
      BY <1>6, <3>2, <3>3, <3>4, SaveSync
  <2> QED
    BY <1>6, <2>1, <2>2, <2>3, <2>4, <2>5, <2>6 DEF PlayerItemStep
<1> QED
  BY <1>3, <1>4, <1>5, <1>6

\* No item is touched and who is known stays known.
LEMMA QuietSync ==
  ASSUME TypeInv, QueueInv, SyncInv, UNCHANGED <<item, cacheVars, row, main, res, sent>>,
         leaving' \subseteq leaving, \A x \in Player : Known(x) => Known(x)'
  PROVE  SyncInv'
<1>1. UNCHANGED <<cached, entry, hasSet, set>>
  BY DEF cacheVars
<1>2. Wrote
  BY WroteNothing
<1>3. Fresh'
  BY <1>2, FreshWrote DEF SyncInv
<1>4. \A x : Pending(x)' <=> Pending(x)
  BY <1>2, WroteKeeps
<1>5. \A j : Future(j)' = Future(j) /\ (Unwritten(j)' <=> Unwritten(j))
  BY <1>1 DEF Future, Writes, Unwritten
<1>6. ASSUME NEW j \in Item PROVE KnownObject(j)' /\ InSync(j)' /\ Owners(j)'
  <2>1. KnownObject(j) /\ InSync(j) /\ Owners(j)
    BY DEF SyncInv
  <2>2. KnownObject(j)' /\ InSync(j)'
    BY <1>1, <1>5, <2>1, Untouched
  <2>3. Unwritten(j) => entry[j].owner \in Player
    BY <2>1 DEF InSync, TypeInv, CacheInv, Entry, Unwritten
  <2>4. Owners(j)'
    BY <1>1, <1>4, <1>5, <2>1, <2>3, OwnersKept
  <2> QED
    BY <2>2, <2>4
<1> QED
  BY <1>3, <1>6 DEF SyncInv

\* Logins, and the first steps of a logout.
LEMMA SessionsSync ==
  ASSUME Orderly, TypeInv, QueueInv, SyncInv, NEW p,
         \/ p \in Player /\ (Login(p) \/ QUERY_PLAYER_SAVE(p) \/ Disconnect(p))
         \/ UNCHANGED vars
  PROVE  SyncInv'
<1>1. phase \in [Player -> {"off", "select", "game", "closing"}]
  BY DEF TypeInv, SessionInv
<1>2. /\ UNCHANGED <<item, cacheVars, row, main, res, sent, leaving>> /\ ptab \subseteq ptab'
      /\ \/ phase' = phase
         \/ p \in Player /\ phase[p] = "off" /\ phase' = [phase EXCEPT ![p] = "select"]
         \/ p \in Player /\ phase' = [phase EXCEPT ![p] = "closing"]
  BY DEF Login, QUERY_PLAYER_SAVE, Disconnect, vars, gameVars, sessionVars, loginVars, sqlVars
<1>3. \A x \in Player : Known(x) => Known(x)'
  BY <1>1, <1>2 DEF Known, InGame
<1> QED
  BY <1>2, <1>3, QuietSync

\* The oldest statement is executed: the others read what they were to read, and its
\* own rows, if it reads, are those of this moment.
LEMMA ExecReads ==
  ASSUME TypeInv, QueueInv, MainExec
  PROVE  /\ \A i \in Item : Future(i)' = Future(i)
         /\ \A p \in Player : Pending(p)' <=> Pending(p)
         /\ \A p \in Player : \A k \in Reads(main', p) : \E l \in Reads(main, p) :
              \A i \in Item : RowAt(main', row'[i], i, k) = RowAt(main, row[i], i, l)
         /\ \A p \in Player : \A k \in Reads(res', p) :
              \/ \E l \in Reads(res, p) : res'[k].rows = res[l].rows
              \/ 1 \in Reads(main, p) /\ res'[k].rows = RowsOf(p)
         /\ \A i \in Item : RowAt(main, row[i], i, 1) = row[i]
<1> DEFINE q == Head(main)
           m == [op |-> q.op, owner |-> q.owner, to |-> q.to, rows |-> RowsOf(q.owner)]
<1>1. /\ main \in Seq(Statement) /\ main # << >> /\ main' = Tail(main)
      /\ main' \in Seq(Statement) /\ res \in Seq(Result) /\ Len(main) \in Nat \ {0}
      /\ Len(main') + 1 = Len(main) /\ q \in Statement /\ row \in [Item -> Value]
  BY DEF TypeInv, SqlInv, MainExec
<1>2. /\ q.op = "write" => row' = [row EXCEPT ![q.item] = RowOf(q)] /\ res' = res
      /\ q.op \in {"player", "item"} => row' = row /\ res' = Append(res, m)
      /\ q.op \notin {"write", "player", "item"} => row' = row /\ res' = res
  BY DEF MainExec, Execute, RowOf
<1>3. q = main[1] /\ DOMAIN main = 1..Len(main)
  BY <1>1
<1> HIDE DEF q, m
<1>4. ASSUME NEW i \in Item, NEW k \in 1..Len(main)
      PROVE  RowAt(main', row'[i], i, k) = RowAt(main, row[i], i, k + 1)
  <2>1. row'[i] = IF q.op = "write" /\ q.item = i THEN RowOf(q) ELSE row[i]
    BY <1>1, <1>2 DEF Statement
  <2>2. row'[i] = IF Head(main).op = "write" /\ Head(main).item = i
                  THEN RowOf(Head(main)) ELSE row[i]
    BY <2>1 DEF q
  <2>3. main' = Tail(main) /\ main \in Seq(Statement) /\ main # << >>
    BY <1>1
  <2> HIDE DEF q
  <2> QED
    BY <2>2, <2>3, RowAtTail
<1>5. ASSUME NEW i \in Item PROVE Future(i)' = Future(i)
  <2>1. Len(main) \in 1..Len(main)
    BY <1>1
  <2>2. RowAt(main', row'[i], i, Len(main)) = RowAt(main, row[i], i, Len(main) + 1)
    BY <1>4, <2>1
  <2> QED
    BY <1>1, <2>2, FutureIs
<1>6. ASSUME NEW p \in Player, NEW k \in Reads(main', p)
      PROVE  \E l \in Reads(main, p) : \A i \in Item :
               RowAt(main', row'[i], i, k) = RowAt(main, row[i], i, l)
  <2>1. k \in Nat \ {0} /\ k + 1 \in Reads(main, p)
    BY <1>1, <1>6, ReadsTail
  <2>2. k + 1 \in 1..Len(main)
    BY <1>1, <2>1 DEF Reads
  <2>3. k \in 1..Len(main)
    BY <1>1, <2>1, <2>2
  <2> QED
    BY <1>4, <2>1, <2>3
<1>7. ASSUME NEW p \in Player, NEW k \in Reads(res', p), k \in 1..Len(res)
      PROVE  k \in Reads(res, p) /\ res'[k] = res[k]
  <2>1. k \in DOMAIN res /\ (res' = res \/ res' = Append(res, m))
    BY <1>1, <1>2, <1>7
  <2>2. res'[k] = res[k]
    BY <1>1, <1>7, <2>1
  <2> QED
    BY <1>7, <2>1, <2>2 DEF Reads
<1>8. ASSUME NEW p \in Player, NEW k \in Reads(res', p), k \notin 1..Len(res)
      PROVE  1 \in Reads(main, p) /\ res'[k].rows = RowsOf(p)
  <2>1. k \in DOMAIN res' /\ res'[k].op = "item" /\ res'[k].owner = p
    BY <1>8 DEF Reads
  <2>2. res' = Append(res, m)
    <3>1. res' # res
      BY <1>1, <1>8, <2>1
    <3> QED
      BY <1>2, <3>1
  <2>3. k = Len(res) + 1
    <3>1. DOMAIN res' = 1..Len(res) + 1 /\ Len(res) \in Nat
      BY <1>1, <2>2 DEF m
    <3> QED
      BY <1>8, <2>1, <3>1
  <2>4. res'[k] = m
    BY <1>1, <2>2, <2>3
  <2>5. q.op = "item" /\ q.owner = p /\ m.rows = RowsOf(p)
    BY <2>1, <2>4 DEF m
  <2> QED
    BY <1>1, <1>3, <2>4, <2>5 DEF Reads
<1>9. ASSUME NEW p \in Player PROVE Pending(p)' <=> Pending(p)
  <2>1. Pending(p) => Pending(p)'
    BY MainExecReads
  <2>2. ASSUME NEW k \in Reads(main', p) PROVE Pending(p)
    BY <1>6, <2>2 DEF Pending
  <2>3. ASSUME NEW k \in Reads(res', p) PROVE Pending(p)
    BY <1>7, <1>8, <2>3 DEF Pending
  <2> QED
    BY <2>1, <2>2, <2>3 DEF Pending
<1>10. \A i : WritesIn(main, i, 1) = {}
  BY <1>1, <1>3 DEF WritesIn
<1>11. \A i \in Item : RowAt(main, row[i], i, 1) = row[i]
  BY <1>10, RowAtNone
<1> QED
  BY <1>5, <1>6, <1>7, <1>8, <1>9, <1>11

\* Executing the oldest statement changes nothing that is asked here.
LEMMA MainExecSync ==
  ASSUME TypeInv, QueueInv, SyncInv, MainExec
  PROVE  SyncInv'
<1>1. /\ UNCHANGED <<item, phase, ptab, leaving, cached, entry, hasSet, set, sent>>
      /\ row \in [Item -> Value]
  BY DEF MainExec, gameVars, sessionVars, loginVars, cacheVars, TypeInv, SqlInv
<1>2. /\ \A i \in Item : Future(i)' = Future(i)
      /\ \A p \in Player : Pending(p)' <=> Pending(p)
  BY ExecReads
<1>3. \A x : Known(x)' <=> Known(x)
  BY <1>1 DEF Known, InGame
<1>4. ASSUME NEW j \in Item PROVE KnownObject(j)' /\ InSync(j)' /\ Owners(j)'
  <2>1. KnownObject(j) /\ InSync(j) /\ Owners(j)
    BY DEF SyncInv
  <2>2. KnownObject(j)' /\ InSync(j)'
    BY <1>1, <1>2, <2>1, Untouched
  <2>3. Owners(j)'
    BY <1>1, <1>2, <1>3, <2>1, OwnersKept DEF Unwritten
  <2> QED
    BY <2>2, <2>3
<1>5. ASSUME NEW p \in Player, NEW k \in Reads(res', p)
      PROVE  \/ \E l \in Reads(res, p) : res'[k].rows = res[l].rows
             \/ \A i \in Item : res'[k].rows[i] # 0 =>
                  /\ sent'[i] = [owner |-> p, ver |-> res'[k].rows[i]]
                  /\ item'[i].at = NoOne
  <2>1. CASE 1 \in Reads(main, p) /\ res'[k].rows = RowsOf(p)
    <3>1. ASSUME NEW i \in Item, res'[k].rows[i] # 0
          PROVE  /\ sent'[i] = [owner |-> p, ver |-> res'[k].rows[i]]
                 /\ item'[i].at = NoOne
      <4>1. row[i].owner = p /\ res'[k].rows[i] = row[i].ver
        BY <2>1, <3>1 DEF RowsOf
      <4>2. RowAt(main, row[i], i, 1) = row[i]
        BY ExecReads
      <4>3. row[i] = sent[i] /\ item[i].at = NoOne
        BY <2>1, <4>1, <4>2 DEF SyncInv, Fresh
      <4>4. row[i] = [owner |-> p, ver |-> row[i].ver]
        BY <1>1, <4>1 DEF Value, Gone
      <4> QED
        BY <1>1, <4>1, <4>3, <4>4
    <3> QED
      BY <3>1
  <2> QED
    BY <1>5, <2>1, ExecReads
<1>6. \A p \in Player : \A k \in Reads(main', p) : \E l \in Reads(main, p) :
        \A i \in Item : RowAt(main', row'[i], i, k) = RowAt(main, row[i], i, l)
  BY ExecReads
<1>7. Fresh'
  BY <1>1, <1>5, <1>6, FreshKept DEF SyncInv
<1> QED
  BY <1>4, <1>7 DEF SyncInv

\* Who leaves is known to the daemon, and every unwritten change is dated by it.
LEMMA LogoutSync ==
  ASSUME TypeInv, QueueInv, Sessions, SyncInv, NEW p \in Player, QUERY_LOGOUT(p)
  PROVE  SyncInv'
<1>1. /\ main \in Seq(Statement) /\ res \in Seq(Result) /\ entry \in [Item -> Entry]
      /\ phase \in [Player -> {"off", "select", "game", "closing"}]
      /\ item \in [Item -> Object]
  BY DEF TypeInv, SqlInv, CacheInv, SessionInv, GameInv
<1>2. /\ UNCHANGED <<ptab, cached, hasSet, set, row, sent>>
      /\ phase' = [phase EXCEPT ![p] = "off"] /\ leaving' = leaving \cup {p}
      /\ main' = Redirect(main, {p}, "nodesc")
  BY DEF QUERY_LOGOUT
<1>3. ASSUME NEW i \in Item
      PROVE  /\ entry'[i].owner = entry[i].owner /\ entry'[i].ver = entry[i].ver
             /\ entry'[i].dirty = entry[i].dirty
             /\ entry[i].since \subseteq entry'[i].since
             /\ entry[i].dirty => p \in entry'[i].since
  <2>1. entry'[i] = IF entry[i].dirty THEN [entry[i] EXCEPT !.since = @ \cup {p}] ELSE entry[i]
    BY DEF QUERY_LOGOUT
  <2>2. entry[i] \in Entry
    BY <1>1
  <2> QED
    BY <2>1, <2>2 DEF Entry
<1>4. ASSUME NEW i \in Item
      PROVE  item'[i].ver = item[i].ver /\ (item'[i].at = item[i].at \/ item'[i].at = NoOne)
  <2>1. item'[i] = IF item[i].at = p THEN [item[i] EXCEPT !.at = NoOne] ELSE item[i]
    BY DEF QUERY_LOGOUT
  <2>2. item[i] \in Object
    BY <1>1
  <2> QED
    BY <2>1, <2>2 DEF Object
<1>5. /\ \A x : Reads(main', x) = Reads(main, x) /\ Reads(res', x) = Reads(res, x)
      /\ \A k \in 1..Len(res) : res'[k].rows = res[k].rows
  BY LogoutRedirects
<1>6. \A i : \A k : RowAt(main', row[i], i, k) = RowAt(main, row[i], i, k)
  BY <1>1, <1>2, RowAtRedirect DEF To
<1>7. main' \in Seq(Statement) /\ Len(main') = Len(main)
  <2>1. main' \in Seq(Statement) /\ DOMAIN main' = DOMAIN main
    BY <1>1, <1>2, RedirectMain DEF Redirect, To
  <2> QED
    BY <1>1, <2>1
<1>8. \A i : Future(i)' = Future(i)
  BY <1>1, <1>2, <1>6, <1>7, FutureIs
<1>9. \A x : Pending(x)' <=> Pending(x)
  BY <1>5 DEF Pending
<1>10. \A x \in Player : Known(x) => Known(x)'
  <2>1. Known(p) => p \in ptab
    BY DEF Known, InGame, Sessions, QUERY_LOGOUT
  <2>2. \A x \in Player \ {p} : phase'[x] = phase[x]
    BY <1>1, <1>2
  <2> QED
    BY <1>2, <2>1, <2>2 DEF Known, InGame
<1>11. ASSUME NEW j \in Item PROVE KnownObject(j)' /\ InSync(j)' /\ Owners(j)'
  <2>1. KnownObject(j) /\ InSync(j) /\ Owners(j)
    BY DEF SyncInv
  <2>2. KnownObject(j)'
    BY <1>2, <1>4, <2>1, CacheAssumption DEF KnownObject
  <2>3. Unwritten(j)' <=> Unwritten(j)
    BY <1>2, <1>3 DEF Unwritten
  <2>4. InSync(j)'
    BY <1>2, <1>3, <1>8, <2>1, <2>3 DEF InSync, Content
  <2>5. Unwritten(j) => entry[j].owner \in Player /\ entry[j].dirty
    BY <1>1, <2>1 DEF InSync, Entry, Unwritten
  <2>6. Owners(j)'
    BY <1>2, <1>3, <1>8, <1>9, <1>10, <2>1, <2>3, <2>5, OwnersKept
  <2> QED
    BY <2>2, <2>4, <2>6
<1>12. Fresh'
  <2>1. ASSUME NEW x \in Player, NEW k \in Reads(main', x)
        PROVE  \E l \in Reads(main, x) : \A i \in Item :
                 RowAt(main', row'[i], i, k) = RowAt(main, row[i], i, l)
    BY <1>2, <1>5, <1>6, <2>1
  <2>2. ASSUME NEW x \in Player, NEW k \in Reads(res', x)
        PROVE  \E l \in Reads(res, x) : res'[k].rows = res[l].rows
    <3>1. k \in Reads(res, x)
      BY <1>5, <2>2
    <3>2. k \in 1..Len(res)
      BY <1>1, <3>1 DEF Reads
    <3> QED
      BY <1>5, <3>1, <3>2
  <2>3. \A i \in Item : sent'[i] = sent[i] /\ (item[i].at = NoOne => item'[i].at = NoOne)
    BY <1>2, <1>4
  <2> QED
    BY <2>1, <2>2, <2>3, FreshKept DEF SyncInv
<1> QED
  BY <1>11, <1>12 DEF SyncInv

\* The oldest result is taken: it is a player's, or the only read of his items, which
\* then is under way no more.
LEMMA ResultTaken ==
  ASSUME TypeInv, QueueInv, AnalyzeQueryResult
  PROVE  LET m == Head(res)
         IN  /\ m = res[1] /\ m \in Result
             /\ \/ m.op = "player" /\ RESULT_PLAYER_LOAD(m.owner, m.to)
                \/ m.op = "item" /\ RESULT_ITEM_LOAD(m.owner, m.to, m.rows)
             /\ \A x \in Player : \A k \in Reads(res', x) : \E l \in Reads(res, x) :
                  res'[k].rows = res[l].rows
             /\ \A x : Pending(x)' => Pending(x)
             /\ \A x : Pending(x) /\ ~(m.op = "item" /\ m.owner = x) => Pending(x)'
             /\ \A x \in Player : m.op = "item" /\ m.owner = x =>
                  1 \in Reads(res, x) /\ ~Pending(x)'
<1> DEFINE m == Head(res)
<1>1. /\ m \in Result /\ res \in Seq(Result) /\ res # << >> /\ res' = Tail(res)
      /\ m = res[1] /\ 1 \in 1..Len(res) /\ DOMAIN res = 1..Len(res) /\ main' = main
  BY DEF TypeInv, SqlInv, AnalyzeQueryResult
<1>2. m.op \in {"player", "item"}
  BY <1>1 DEF Result
<1>3. \/ m.op = "player" /\ RESULT_PLAYER_LOAD(m.owner, m.to)
      \/ m.op = "item" /\ RESULT_ITEM_LOAD(m.owner, m.to, m.rows)
  <2>1. m.to # "nopeer"
    <3> HIDE DEF m
    <3> QED
      BY <1>1, <1>2 DEF QueueInv, Answered, Addressed
  <2> QED
    BY <1>2, <2>1 DEF AnalyzeQueryResult
<1> HIDE DEF m
<1>4. ASSUME NEW x, NEW k \in Reads(res', x)
      PROVE  k \in Nat \ {0} /\ k + 1 \in Reads(res, x) /\ res'[k].rows = res[k + 1].rows
  <2>1. k \in Nat \ {0} /\ k + 1 \in Reads(res, x)
    BY <1>1, <1>4, ReadsTail
  <2>2. k \in DOMAIN res'
    BY <1>4 DEF Reads
  <2>3. res'[k] = res[k + 1]
    BY <1>1, <2>2
  <2> QED
    BY <2>1, <2>3
<1>5. /\ \A x : Pending(x)' => Pending(x)
      /\ \A x : Pending(x) /\ ~(m.op = "item" /\ m.owner = x) => Pending(x)'
  BY <1>1, <1>4, ResultReads DEF Pending, m
<1>6. ASSUME NEW x \in Player, m.op = "item" /\ m.owner = x
      PROVE  1 \in Reads(res, x) /\ ~Pending(x)'
  <2>1. 1 \in Reads(res, x)
    BY <1>1, <1>6 DEF Reads
  <2>2. ASSUME NEW k \in Reads(res', x) PROVE FALSE
    <3>1. k \in Nat \ {0} /\ k + 1 = 1
      BY <1>4, <2>1, <2>2 DEF QueueInv, OneRead
    <3> QED
      BY <3>1
  <2>3. Reads(main', x) = {}
    BY <1>1, <2>1 DEF QueueInv, OneRead
  <2> QED
    BY <2>1, <2>2, <2>3 DEF Pending
<1> QED
  BY <1>1, <1>3, <1>4, <1>5, <1>6 DEF m

\* The rows of a read are what was sent: taking them over leaves a cache that agrees.
LEMMA ResultSync ==
  ASSUME TypeInv, QueueInv, SyncInv, AnalyzeQueryResult
  PROVE  SyncInv'
<1> DEFINE m == Head(res)
           S == {i \in Item : m.rows[i] # 0}
<1>1. /\ m \in Result /\ m = res[1] /\ UNCHANGED <<ptab, leaving, row, main, sent>>
      /\ \/ m.op = "player" /\ RESULT_PLAYER_LOAD(m.owner, m.to)
         \/ m.op = "item" /\ RESULT_ITEM_LOAD(m.owner, m.to, m.rows)
  BY ResultTaken DEF AnalyzeQueryResult
<1>2. /\ entry \in [Item -> Entry] /\ item \in [Item -> Object]
      /\ phase \in [Player -> {"off", "select", "game", "closing"}]
  BY DEF TypeInv, CacheInv, GameInv, SessionInv
<1>3. m.owner \in Player /\ m.rows \in [Item -> 0..MaxVer]
  BY <1>1 DEF Result
<1>4. \A x : Pending(x) /\ ~(m.op = "item" /\ m.owner = x) => Pending(x)'
  BY ResultTaken
<1>5. \A p \in Player : \A k \in Reads(res', p) : \E l \in Reads(res, p) :
        res'[k].rows = res[l].rows
  BY ResultTaken
<1> HIDE DEF m
<1>6. \A j : Future(j)' = Future(j)
  BY <1>1 DEF Future, Writes
<1>7. \A p \in Player : \A k \in Reads(main', p) : \E l \in Reads(main, p) :
        \A i \in Item : RowAt(main', row'[i], i, k) = RowAt(main, row[i], i, l)
  BY <1>1
<1>8. CASE m.op = "player" /\ RESULT_PLAYER_LOAD(m.owner, m.to)
  <2>1. /\ UNCHANGED <<item, cached, entry, hasSet, set>>
        /\ phase' = phase \/ phase' = [phase EXCEPT ![m.owner] = "game"]
    BY <1>8 DEF RESULT_PLAYER_LOAD, cacheVars
  <2>2. \A x \in Player : Known(x) => Known(x)'
    BY <1>1, <1>2, <2>1 DEF Known, InGame
  <2>3. ASSUME NEW j \in Item PROVE KnownObject(j)' /\ InSync(j)' /\ Owners(j)'
    <3>1. KnownObject(j) /\ InSync(j) /\ Owners(j)
      BY DEF SyncInv
    <3>2. KnownObject(j)' /\ InSync(j)'
      BY <1>1, <1>6, <2>1, <3>1, Untouched
    <3>3. Unwritten(j) => entry[j].owner \in Player
      BY <1>2, <3>1 DEF InSync, Entry, Unwritten
    <3>4. Owners(j)'
      BY <1>1, <1>6, <1>4, <1>8, <2>1, <2>2, <3>1, <3>3, OwnersKept DEF Unwritten
    <3> QED
      BY <3>2, <3>4
  <2>4. Fresh'
    BY <1>1, <1>5, <1>7, <2>1, FreshKept DEF SyncInv
  <2> QED
    BY <2>3, <2>4 DEF SyncInv
<1>9. CASE m.op = "item" /\ RESULT_ITEM_LOAD(m.owner, m.to, m.rows)
  <2>1. PICK p \in Player : p = m.owner
    BY <1>3
  <2>2. /\ phase' = phase /\ hasSet' = hasSet \cup {p} /\ cached' = cached \cup S
        /\ item' = item \/ ItemLoad(p, S, m.rows)
        /\ \A i \in Item : i \notin S => entry'[i] = entry[i]
        /\ \A i \in S : /\ entry'[i].owner = p /\ entry'[i].ver = m.rows[i]
                        /\ entry'[i].dirty = (i \in cached /\ entry[i].dirty)
                        /\ i \in cached /\ entry[i].dirty => entry'[i].since = entry[i].since
    BY <1>9, <2>1 DEF RESULT_ITEM_LOAD
  <2>3. 1 \in Reads(res, p) /\ ~Pending(p)'
    BY <1>9, <2>1, ResultTaken DEF m
  <2>4. \A i \in S : /\ sent[i] = [owner |-> p, ver |-> m.rows[i]] /\ item[i].at = NoOne
                     /\ m.rows[i] # 0
    BY <1>1, <1>3, <2>3 DEF SyncInv, Fresh
  <2>5. \A x : x # p => (Pending(x) => Pending(x)')
    BY <1>4, <2>1
  <2>6. \A x : Known(x)' <=> Known(x)
    BY <1>1, <2>2 DEF Known, InGame
  <2>7. \A i \in Item \ S : item'[i] = item[i]
    BY <1>2, <2>2 DEF ItemLoad
  <2>8. \A i \in S : item'[i] = item[i] \/ item'[i] = AddToCharacter(p, m.rows[i])
    BY <1>2, <2>2 DEF ItemLoad
  <2> HIDE DEF S
  <2>9. ASSUME NEW i \in Item, i \notin S PROVE KnownObject(i)' /\ InSync(i)' /\ Owners(i)'
    <3>1. KnownObject(i) /\ InSync(i) /\ Owners(i)
      BY DEF SyncInv
    <3>2. item'[i] = item[i] /\ entry'[i] = entry[i] /\ (i \in cached' <=> i \in cached)
      BY <2>2, <2>7, <2>9
    <3>3. KnownObject(i)' /\ InSync(i)'
      BY <1>1, <1>6, <3>1, <3>2, Untouched
    <3>4. Owners(i)'
      <4>1. Unwritten(i)' => Unwritten(i)
        BY <3>2 DEF Unwritten
      <4>2. \A x : x \in hasSet \/ Pending(x) => x \in hasSet' \/ Pending(x)'
        BY <2>2, <2>5
      <4> QED
        BY <1>1, <1>6, <2>6, <3>1, <3>2, <4>1, <4>2, OwnersKept
    <3> QED
      BY <3>3, <3>4
  <2>10. ASSUME NEW i \in Item, i \in S PROVE KnownObject(i)' /\ InSync(i)' /\ Owners(i)'
    <3>1. KnownObject(i) /\ InSync(i) /\ Owners(i)
      BY DEF SyncInv
    <3>2. /\ sent'[i] = [owner |-> p, ver |-> m.rows[i]] /\ item[i].at = NoOne
          /\ m.rows[i] # 0 /\ sent'[i] = sent[i]
      BY <1>1, <2>4, <2>10
    <3>3. sent[i].owner = p /\ sent[i].ver # 0 /\ sent[i].ver = m.rows[i]
      BY <3>2
    <3>4. /\ entry'[i].owner = p /\ entry'[i].ver = m.rows[i] /\ i \in cached'
          /\ Unwritten(i)' <=> Unwritten(i)
          /\ Unwritten(i) => entry'[i].since = entry[i].since
      BY <2>2, <2>10 DEF Unwritten
    <3>5. KnownObject(i)'
      <4>1. CASE item'[i] = item[i]
        BY <3>1, <3>2, <4>1, CacheAssumption DEF KnownObject
      <4>2. CASE item'[i] = AddToCharacter(p, m.rows[i])
        BY <1>3, <2>1, <3>2, <3>3, <4>2, CacheAssumption DEF KnownObject, AddToCharacter
      <4> QED
        BY <2>8, <2>10, <4>1, <4>2
    <3>6. InSync(i)'
      <4>1. Content(i)' = sent'[i]
        BY <3>2, <3>4 DEF Content
      <4>2. Unwritten(i)' \/ Future(i)' = sent'[i]
        BY <1>6, <3>1, <3>2, <3>4 DEF InSync
      <4> QED
        BY <3>2, <3>4, <4>1, <4>2 DEF InSync
    <3>7. Owners(i)'
      <4>1. Unwritten(i) => entry[i].owner = p
        <5>1. Unwritten(i) => Content(i) = sent[i] /\ entry[i].ver # 0
          BY <3>1 DEF InSync, Unwritten
        <5> QED
          BY <3>3, <5>1 DEF Content
      <4>2. \A x : x \in hasSet \/ Pending(x) => x \in hasSet' \/ Pending(x)'
        BY <2>2, <2>5
      <4> QED
        BY <1>1, <1>6, <2>6, <3>1, <3>4, <4>1, <4>2, OwnersKept
    <3> QED
      BY <3>5, <3>6, <3>7
  <2>11. Fresh'
    <3>1. ASSUME NEW i \in Item
          PROVE  \/ sent'[i] = sent[i] /\ (item[i].at = NoOne => item'[i].at = NoOne)
                 \/ \A x \in Player : sent[i].owner = x => ~Pending(x)'
      <4>1. CASE i \in S
        <5>1. sent[i] = [owner |-> p, ver |-> m.rows[i]]
          BY <2>4, <4>1
        <5>2. sent[i].owner = p
          BY <5>1
        <5> QED
          BY <2>3, <5>2
      <4>2. CASE i \notin S
        BY <1>1, <2>7, <4>2
      <4> QED
        BY <4>1, <4>2
    <3> QED
      BY <1>5, <1>7, <3>1, FreshKept DEF SyncInv
  <2> QED
    BY <2>9, <2>10, <2>11 DEF SyncInv
<1> QED
  BY <1>1, <1>8, <1>9

\* Who is not in the game and has not both an entry in the player cache and an item set
\* is nobody an unwritten change waits for: MySQL has the last of what was sent of his.
LEMMA AbsentIsWritten ==
  ASSUME TypeInv, SetInv, OwnedObjects, SyncInv, NEW p \in Player, ~InGame(p), ~Pending(p),
         p \notin ptab \/ p \notin hasSet, NEW i \in Item, Future(i).owner = p
  PROVE  Future(i) = sent[i] /\ item[i].at = NoOne
<1>1. /\ KnownObject(i) /\ InSync(i) /\ Owners(i)
      /\ item[i].at \in Player => InGame(item[i].at)
      /\ item[i].at \in Player \cup {NoOne, Ground}
  BY DEF SyncInv, OwnedObjects, TypeInv, GameInv, Object, Holder
<1>2. ~Unwritten(i)
  <2>1. CASE Unwritten(i) /\ entry[i].owner = p
    <3>1. p \in ptab
      BY <1>1, <2>1 DEF Owners, Known
    <3>2. p \in hasSet
      BY <2>1 DEF SetInv, DirtyReachable, NoDanglingEntry, Unwritten
    <3> QED
      BY <3>1, <3>2
  <2>2. CASE Unwritten(i) /\ entry[i].owner # p
    BY <1>1, <2>2 DEF Owners, Former, Known
  <2> QED
    BY <2>1, <2>2
<1>3. Future(i) = sent[i] /\ sent[i].owner = p
  BY <1>1, <1>2 DEF InSync
<1>4. sent[i] # Gone
  BY <1>3, CacheAssumption DEF Gone
<1>5. item[i].at # p
  BY <1>1
<1>6. item[i].at = NoOne
  BY <1>1, <1>3, <1>4, <1>5 DEF KnownObject
<1> QED
  BY <1>3, <1>6

\* What the cache offers is what was sent.
LEMMA SetIsSent ==
  ASSUME TypeInv, SetInv, SyncInv, NEW p \in Player, NEW i \in set[p], entry[i].ver # 0
  PROVE  /\ i \in Item /\ i \in cached
         /\ sent[i] = [owner |-> p, ver |-> entry[i].ver]
<1>1. i \in Item /\ i \in cached /\ entry[i].owner = p
  BY DEF TypeInv, CacheInv, SetInv, NoDanglingEntry
<1>2. Content(i) = sent[i]
  BY <1>1 DEF SyncInv, InSync
<1> QED
  BY <1>1, <1>2 DEF Content

\* A load asked for changes no other read; its own finds what MySQL will hold.
LEMMA LoadReads ==
  ASSUME Orderly, TypeInv, QueueInv, NEW p \in Player, QUERY_PLAYER_LOAD(p)
  PROVE  /\ ~InGame(p) /\ ~Pending(p)
         /\ \A i : Future(i)' = Future(i)
         /\ \A x : Pending(x) => Pending(x)'
         /\ \A x : x # p => (Pending(x)' => Pending(x))
         /\ \A x \in Player : \A k \in Reads(main', x) :
              \/ \E l \in Reads(main, x) : \A i \in Item :
                   RowAt(main', row'[i], i, k) = RowAt(main, row[i], i, l)
              \/ /\ x = p /\ main' # main
                 /\ \A i \in Item : RowAt(main', row'[i], i, k) = Future(i)
<1>1. /\ main \in Seq(Statement) /\ Len(main) \in Nat
      /\ phase[p] = "select" /\ row' = row /\ res' = res
  BY DEF TypeInv, SqlInv, QUERY_PLAYER_LOAD
<1>2. ~InGame(p) /\ ~Pending(p)
  BY <1>1, NoneUnderWay DEF InGame
<1>3. PICK w \in Seq(Statement) :
        /\ main' = main \o w /\ Len(w) \in Nat
        /\ \A n \in 1..Len(w) : w[n].op # "write"
        /\ \A x : x # p => Reads(w, x) = {}
        /\ main' = main => Len(w) = 0
  <2>1. CASE main' = main
    <3>1. << >> \in Seq(Statement) /\ Len(<< >>) = 0 /\ main' = main \o << >>
          /\ DOMAIN << >> = {}
      BY <1>1, <2>1
    <3>2. \A x : Reads(<< >>, x) = {}
      BY <3>1 DEF Reads
    <3>3. \A n \in 1..0 : << >>[n].op # "write"
      OBVIOUS
    <3> QED
      BY <3>1, <3>2, <3>3
  <2>2. CASE main' # main
    <3>1. PICK w \in Seq(Statement) :
            /\ main' = main \o w
            /\ \A n \in 1..Len(w) : w[n].op # "write"
            /\ \A x : x # p => Reads(w, x) = {}
      BY <2>2, LoadQueues
    <3>2. Len(w) \in Nat
      OBVIOUS
    <3> QED
      BY <2>2, <3>1, <3>2
  <2> QED
    BY <2>1, <2>2
<1>4. \A i : \A n \in 1..Len(w) : w[n].op = "write" => w[n].item # i
  BY <1>3
<1>5. \A i : Future(i)' = Future(i)
  BY <1>1, <1>3, <1>4, FutureAppend
<1>6. \A x : Reads(main', x) = Reads(main, x) \cup {Len(main) + n : n \in Reads(w, x)}
  BY <1>1, <1>3, ReadsConcat
<1>7. /\ \A x : Pending(x) => Pending(x)'
      /\ \A x : x # p => (Pending(x)' => Pending(x))
  <2>1. ASSUME NEW x, x # p PROVE Reads(main', x) = Reads(main, x)
    <3>1. Reads(w, x) = {}
      BY <1>3, <2>1
    <3>2. {Len(main) + n : n \in Reads(w, x)} = {}
      BY <3>1
    <3> QED
      BY <1>6, <3>2
  <2> QED
    BY <1>1, <1>6, <2>1 DEF Pending
<1>8. ASSUME NEW x \in Player, NEW k \in Reads(main', x)
      PROVE  \/ \E l \in Reads(main, x) : \A i \in Item :
                  RowAt(main', row'[i], i, k) = RowAt(main, row[i], i, l)
             \/ /\ x = p /\ main' # main
                /\ \A i \in Item : RowAt(main', row'[i], i, k) = Future(i)
  <2>1. CASE k \in Reads(main, x)
    <3>1. k \in 1..Len(main)
      BY <1>1, <2>1 DEF Reads
    <3>2. k \in 1..Len(main) + 1
      BY <1>1, <3>1
    <3> QED
      BY <1>1, <1>3, <2>1, <3>2, FutureAppend
  <2>2. CASE k \notin Reads(main, x)
    <3>1. PICK n \in Reads(w, x) : k = Len(main) + n
      BY <1>6, <1>8, <2>2
    <3>2. n \in 1..Len(w)
      BY DEF Reads
    <3>3. x = p
      BY <1>3, <3>1
    <3>4. main' # main
      BY <1>3, <3>2
    <3>5. ASSUME NEW i \in Item PROVE RowAt(main', row'[i], i, k) = Future(i)
      <4>1. k \in Len(main) + 1..Len(main) + Len(w) + 1
        BY <1>1, <1>3, <3>1, <3>2
      <4>2. RowAt(main \o w, row[i], i, k) = RowAt(main, row[i], i, Len(main) + 1)
        BY <1>1, <1>4, <4>1, RowAtOthers
      <4>3. Future(i) = RowAt(main, row[i], i, Len(main) + 1)
        BY <1>1, FutureIsRowAt DEF Future, Writes, RowAt, RowOf
      <4> QED
        BY <1>1, <1>3, <4>2, <4>3
    <3> QED
      BY <3>3, <3>4, <3>5
  <2> QED
    BY <2>1, <2>2
<1> QED
  BY <1>2, <1>5, <1>7, <1>8

\* A load from the cache offers what was sent, and one from MySQL reads it.
LEMMA LoadSync ==
  ASSUME Orderly, TypeInv, SetInv, QueueInv, Sessions, OwnedObjects, SyncInv,
         NEW p \in Player, QUERY_PLAYER_LOAD(p)
  PROVE  SyncInv'
<1> DEFINE S == {i \in set[p] : entry[i].ver # 0}
           v == [i \in S |-> entry[i].ver]
<1>1. /\ main \in Seq(Statement) /\ entry \in [Item -> Entry] /\ item \in [Item -> Object]
      /\ phase \in [Player -> {"off", "select", "game", "closing"}]
      /\ Len(main) \in Nat
  BY DEF TypeInv, SqlInv, CacheInv, SessionInv, GameInv
<1>2. /\ phase[p] = "select" /\ leaving' = leaving \ {p}
      /\ UNCHANGED <<ptab, cached, entry, hasSet, set, row, res, sent>>
      /\ phase' = phase \/ phase' = [phase EXCEPT ![p] = "game"]
      /\ \/ item' = item /\ (p \notin ptab \/ p \notin hasSet)
         \/ main' = main /\ (item' = item \/ ItemLoad(p, S, v))
  BY DEF QUERY_PLAYER_LOAD, LoadFromCache, LoadFromTable, LoadRefused, cacheVars
<1> HIDE DEF S
<1>3. ~InGame(p) /\ ~Pending(p)
  BY LoadReads
<1>4. \A i : Future(i)' = Future(i)
  BY LoadReads
<1>5. \A x : Pending(x) => Pending(x)'
  BY LoadReads
<1>6. \A x \in Player : Known(x) => Known(x)'
  BY <1>1, <1>2 DEF Known, InGame
<1>7. \A i \in S : /\ i \in Item /\ sent[i] = [owner |-> p, ver |-> v[i]]
                   /\ v[i] = entry[i].ver /\ v[i] # 0
  BY SetIsSent DEF S
<1>8. \A i \in Item : \/ item'[i] = item[i]
                      \/ i \in S /\ item'[i] = AddToCharacter(p, v[i]) /\ main' = main
  BY <1>2 DEF ItemLoad
<1> HIDE DEF v
<1>9. ASSUME NEW i \in Item PROVE KnownObject(i)' /\ InSync(i)' /\ Owners(i)'
  <2>1. KnownObject(i) /\ InSync(i) /\ Owners(i)
    BY DEF SyncInv
  <2>2. InSync(i)'
    BY <1>2, <1>4, <2>1 DEF InSync, Unwritten, Content
  <2>3. Unwritten(i) => entry[i].owner \in Player
    BY <1>1, <2>1 DEF InSync, Entry, Unwritten
  <2>4. Owners(i)'
    BY <1>2, <1>4, <1>5, <1>6, <2>1, <2>3, OwnersKept DEF Unwritten
  <2>5. CASE item'[i] = item[i]
    BY <1>2, <2>1, <2>2, <2>4, <2>5 DEF KnownObject
  <2>6. CASE i \in S /\ item'[i] = AddToCharacter(p, v[i])
    <3>1. sent'[i] = [owner |-> p, ver |-> v[i]] /\ v[i] # 0
      BY <1>2, <1>7, <2>6
    <3>3. sent'[i].owner = p
      BY <3>1
    <3>2. KnownObject(i)'
      BY <2>6, <3>1, <3>3, CacheAssumption DEF KnownObject, AddToCharacter
    <3> QED
      BY <2>2, <2>4, <3>2
  <2> QED
    BY <1>8, <2>5, <2>6
<1>10. ASSUME NEW x \in Player, NEW k \in Reads(main', x)
       PROVE  \/ \E l \in Reads(main, x) : \A i \in Item :
                   RowAt(main', row'[i], i, k) = RowAt(main, row[i], i, l)
              \/ \A i \in Item : RowAt(main', row'[i], i, k).owner = x =>
                   RowAt(main', row'[i], i, k) = sent'[i] /\ item'[i].at = NoOne
  <2>1. CASE \E l \in Reads(main, x) : \A i \in Item :
               RowAt(main', row'[i], i, k) = RowAt(main, row[i], i, l)
    BY <2>1
  <2>2. CASE /\ x = p /\ main' # main
             /\ \A i \in Item : RowAt(main', row'[i], i, k) = Future(i)
    <3>1. item' = item /\ (p \notin ptab \/ p \notin hasSet)
      BY <1>2, <2>2
    <3> QED
      BY <1>2, <1>3, <2>2, <3>1, AbsentIsWritten
  <2> QED
    BY <1>10, <2>1, <2>2, LoadReads
<1>11. Fresh'
  <2>1. ASSUME NEW i \in Item
        PROVE  \/ sent'[i] = sent[i] /\ (item[i].at = NoOne => item'[i].at = NoOne)
               \/ \A x \in Player : sent[i].owner = x => ~Pending(x)'
    <3>1. CASE item'[i] = item[i]
      BY <1>2, <3>1
    <3>2. CASE i \in S /\ main' = main
      <4>1. sent[i] = [owner |-> p, ver |-> v[i]]
        BY <1>7, <3>2
      <4>2. sent[i].owner = p
        BY <4>1
      <4>3. ~Pending(p)'
        BY <1>2, <1>3, <3>2 DEF Pending
      <4> QED
        BY <4>2, <4>3
    <3> QED
      BY <1>8, <3>1, <3>2
  <2>2. \A x \in Player : \A k \in Reads(res', x) : \E l \in Reads(res, x) :
          res'[k].rows = res[l].rows
    BY <1>2
  <2> QED
    BY <1>10, <2>1, <2>2, FreshKept DEF SyncInv
<1> QED
  BY <1>9, <1>11 DEF SyncInv

-----------------------------------------------------------------------------
(* The last save wins, and nothing is loaded twice *)

LEMMA SyncInvInit == Init => SyncInv
<1> SUFFICES ASSUME Init PROVE SyncInv
  OBVIOUS
<1>1. /\ row \in [Item -> [owner : Player, ver : {1}] \cup {Gone}] /\ sent = row
      /\ main = << >> /\ res = << >> /\ cached = {}
      /\ \A i \in Item : item[i].at = NoOne /\ item[i].ver = row[i].ver
  BY DEF Init
<1>2. \A i : Future(i) = row[i] /\ ~Unwritten(i)
  BY <1>1 DEF Future, Writes, Unwritten
<1>3. \A p : Reads(main, p) = {} /\ Reads(res, p) = {}
  BY <1>1 DEF Reads
<1>4. \A i \in Item : sent[i] # Gone => item[i].ver # 0
  BY <1>1 DEF Gone
<1> QED
  BY <1>1, <1>2, <1>3, <1>4, CacheAssumption
  DEF SyncInv, Fresh, KnownObject, InSync, Owners

LEMMA SyncInvStep ==
  ASSUME Orderly, TypeInv, SetInv, QueueInv, Sessions, OwnedObjects, SyncInv, [Next]_vars
  PROVE  SyncInv'
<1>1. ASSUME NEW i \in Item, ItemStep(i) PROVE SyncInv'
  BY <1>1, TimersSync, ItemsSync DEF ItemStep
<1>2. ASSUME NEW p \in Player, NEW i \in Item, PlayerItemStep(p, i) PROVE SyncInv'
  BY <1>2, ItemsSync
<1>3. ASSUME NEW p \in Player, PlayerStep(p) PROVE SyncInv'
  <2>1. ~QUERY_FLUSH_CACHE(p)
    BY DEF QUERY_FLUSH_CACHE, Orderly
  <2> QED
    BY <1>3, <2>1, TimersSync, SessionsSync, LoadSync, LogoutSync DEF PlayerStep
<1>4. CASE CoreCrash
  BY <1>4, CacheAssumption DEF CoreCrash, Orderly, TypeInv, SessionInv
<1>5. CASE MainExec \/ AnalyzeQueryResult
  BY <1>5, MainExecSync, ResultSync
<1>6. CASE AsyncExec
  BY <1>6 DEF AsyncExec, OwnedObjects
<1>7. CASE UNCHANGED vars
  BY <1>7, SessionsSync
<1> QED
  BY <1>1, <1>2, <1>3, <1>4, <1>5, <1>6, <1>7 DEF Next

\* The invariant of the two theorems.
SaveInv == SetInv /\ QueueInv /\ Sessions /\ OwnedObjects /\ SyncInv

LEMMA SaveInvInit == Init => SaveInv
  BY SetInvInit, QueueInvInit, SessionsInit, OwnedObjectsInit, SyncInvInit DEF SaveInv

LEMMA SaveInvStep == Orderly => (TypeInv /\ SaveInv /\ [Next]_vars => SaveInv')
<1> SUFFICES ASSUME Orderly, TypeInv, SaveInv, [Next]_vars PROVE SaveInv'
  OBVIOUS
<1> QED
  BY SetInvStep, QueueInvStep, SessionsStep, OwnedObjectsStep, SyncInvStep DEF SaveInv

\* The entry of an item, or else its row as the queued statements will leave it, is what
\* a core last saved or destroyed: PutItemCache, the timers that write entries out and
\* drop them, and the logouts and reloads between them lose no save and bring none back.
THEOREM LastSaveWinsHolds ==
  ASSUME Orderly
  PROVE  Spec => []LastSaveWins
<1>1. SaveInv => LastSaveWins
  BY DEF SaveInv, SyncInv, InSync, LastSaveWins, Unwritten
<1>2. TypeInv /\ SaveInv /\ [Next]_vars => SaveInv'
  BY SaveInvStep
<1> QED
  BY <1>1, <1>2, TypeInvInit, TypeInvStep, SaveInvInit, PTL DEF Spec

\* No ITEM_LOAD, from the cache or from MySQL, names an item a core already has: CreateItem
\* never logs "ITEM_ID_DUP" (item_manager.cpp:159).
THEOREM NoItemIdDupHolds ==
  ASSUME Orderly
  PROVE  Spec => []NoItemIdDup
<1>1. TypeInv /\ SaveInv => NoItemIdDup
  <2> SUFFICES ASSUME TypeInv, SaveInv, NEW p \in Player, NEW i \in Offered(p)
               PROVE  item[i].at = NoOne
    BY DEF NoItemIdDup
  <2> USE DEF SaveInv
  <2>1. CASE phase[p] = "select" /\ i \in set[p] /\ entry[i].ver # 0
    <3>1. i \in Item /\ sent[i] = [owner |-> p, ver |-> entry[i].ver]
      BY <2>1, SetIsSent
    <3>2. sent[i].owner = p
      BY <3>1
    <3>3. sent[i] # Gone
      BY <3>2, CacheAssumption DEF Gone
    <3>4. item[i].at \in Player \cup {NoOne, Ground} /\ ~InGame(p)
          /\ (item[i].at \in Player => InGame(item[i].at))
      BY <2>1, <3>1 DEF TypeInv, GameInv, Object, Holder, OwnedObjects, InGame
    <3>5. KnownObject(i)
      BY <3>1 DEF SyncInv
    <3> QED
      BY <3>2, <3>3, <3>4, <3>5 DEF KnownObject
  <2>2. CASE res # << >> /\ Head(res).op = "item" /\ Head(res).owner = p
             /\ i \in Item /\ Head(res).rows[i] # 0
    <3>1. 1 \in Reads(res, p) /\ res[1] = Head(res)
      <4>1. res \in Seq(Result)
        BY DEF TypeInv, SqlInv
      <4>2. 1 \in DOMAIN res /\ res[1] = Head(res)
        BY <2>2, <4>1
      <4> QED
        BY <2>2, <4>2 DEF Reads
    <3>2. i \in Item /\ res[1].rows[i] # 0
      BY <2>2, <3>1
    <3>3. Fresh
      BY DEF SyncInv
    <3> QED
      BY <3>1, <3>2, <3>3 DEF Fresh
  <2> QED
    BY <2>1, <2>2 DEF Offered
<1>2. TypeInv /\ SaveInv /\ [Next]_vars => SaveInv'
  BY SaveInvStep
<1> QED
  BY <1>1, <1>2, TypeInvInit, TypeInvStep, SaveInvInit, PTL DEF Spec

-----------------------------------------------------------------------------
(* A reload brings everything *)

\* When nobody acts before his items came: what is held is loaded, who is read is not
\* loaded yet, and reads and sets have all the items of their player.
Complete ==
  \A p \in Player, i \in Item : sent[i].owner = p =>
    /\ \A k \in Reads(main, p) : RowAt(main, row[i], i, k).owner = p
    /\ \A k \in Reads(res, p) : res[k].rows[i] # 0
    /\ p \in hasSet => i \in set[p]
Whole ==
  /\ \A i \in Item : item[i].at \in Player => item[i].at \in loaded
  /\ \A p \in Player : Pending(p) => p \notin loaded
  /\ Complete

\* What is read, found or grouped stays complete if it was, or is so anew.
LEMMA CompleteKept ==
  ASSUME Complete,
         \A p \in Player : \A k \in Reads(main', p) :
           \/ \E l \in Reads(main, p) : \A i \in Item :
                RowAt(main', row'[i], i, k) = RowAt(main, row[i], i, l)
           \/ \A i \in Item : sent'[i].owner = p => RowAt(main', row'[i], i, k).owner = p,
         \A p \in Player : \A k \in Reads(res', p) :
           \/ \E l \in Reads(res, p) : res'[k].rows = res[l].rows
           \/ \A i \in Item : sent'[i].owner = p => res'[k].rows[i] # 0,
         \A p \in Player, i \in Item : sent'[i].owner = p =>
           /\ sent[i].owner = p \/ ~Pending(p)'
           /\ p \in hasSet' => i \in set'[p]
  PROVE  Complete'
<1> SUFFICES ASSUME NEW p \in Player, NEW i \in Item, sent'[i].owner = p
             PROVE  /\ \A k \in Reads(main', p) : RowAt(main', row'[i], i, k).owner = p
                    /\ \A k \in Reads(res', p) : res'[k].rows[i] # 0
                    /\ p \in hasSet' => i \in set'[p]
  BY DEF Complete
<1>1. Reads(main', p) # {} \/ Reads(res', p) # {} => sent[i].owner = p
  BY DEF Pending
<1>2. ASSUME NEW k \in Reads(main', p) PROVE RowAt(main', row'[i], i, k).owner = p
  <2>1. CASE \E l \in Reads(main, p) : \A j \in Item :
               RowAt(main', row'[j], j, k) = RowAt(main, row[j], j, l)
    <3>1. PICK l \in Reads(main, p) : RowAt(main', row'[i], i, k) = RowAt(main, row[i], i, l)
      BY <2>1
    <3> QED
      BY <1>1, <1>2, <3>1 DEF Complete
  <2> QED
    BY <1>2, <2>1
<1>3. ASSUME NEW k \in Reads(res', p) PROVE res'[k].rows[i] # 0
  <2>1. CASE \E l \in Reads(res, p) : res'[k].rows = res[l].rows
    BY <1>1, <1>3, <2>1 DEF Complete
  <2> QED
    BY <1>3, <2>1
<1> QED
  BY <1>2, <1>3

\* A step that queues writes at most: who is sent an item is in the game.
LEMMA WholeWrote ==
  ASSUME TypeInv, QueueInv, Whole, Wrote, row' = row, loaded' = loaded,
         \A i \in Item : item'[i].at \in Player => item'[i].at \in loaded,
         \A p \in Player, i \in Item : sent'[i].owner = p =>
           /\ sent[i].owner = p \/ p \in loaded
           /\ p \in hasSet' => i \in set'[p]
  PROVE  Whole'
<1>1. PICK w \in Seq(Statement) : main' = main \o w /\ \A n \in 1..Len(w) : w[n].op = "write"
  BY DEF Wrote
<1>2. main \in Seq(Statement)
  BY DEF TypeInv, SqlInv
<1>3. \A i : \A k \in 1..Len(main) + 1 :
        RowAt(main', row'[i], i, k) = RowAt(main, row[i], i, k)
  BY <1>1, <1>2, FutureAppend
<1>4. /\ \A p : Reads(main', p) = Reads(main, p) /\ Reads(res', p) = Reads(res, p)
      /\ \A p : Pending(p)' <=> Pending(p)
  BY WroteKeeps
<1>5. \A p : \A k \in Reads(main, p) : k \in 1..Len(main) + 1
  <2>1. DOMAIN main = 1..Len(main) /\ \A k \in 1..Len(main) : k \in 1..Len(main) + 1
    BY <1>2
  <2> QED
    BY <2>1 DEF Reads
<1>6. res' = res
  BY DEF Wrote
<1>7. \A p \in Player : Pending(p)' => p \notin loaded
  BY <1>4 DEF Whole
<1>8. \A p \in Player : \A k \in Reads(main', p) : \E l \in Reads(main, p) :
        \A i \in Item : RowAt(main', row'[i], i, k) = RowAt(main, row[i], i, l)
  BY <1>3, <1>4, <1>5
<1>9. \A p \in Player : \A k \in Reads(res', p) : \E l \in Reads(res, p) :
        res'[k].rows = res[l].rows
  BY <1>4, <1>6
<1>10. \A p \in Player, i \in Item : sent'[i].owner = p =>
         /\ sent[i].owner = p \/ ~Pending(p)'
         /\ p \in hasSet' => i \in set'[p]
  BY <1>7
<1>11. Complete'
  BY <1>8, <1>9, <1>10, CompleteKept DEF Whole
<1> QED
  BY <1>7, <1>11 DEF Whole

\* Nothing is sent and no set is touched.
LEMMA WholeQuiet ==
  ASSUME TypeInv, QueueInv, Whole, Wrote, UNCHANGED <<row, loaded, sent, hasSet, set>>,
         \A i \in Item : item'[i].at \in Player => item'[i].at \in loaded
  PROVE  Whole'
<1>1. \A p \in Player, i \in Item : sent'[i].owner = p => (p \in hasSet' => i \in set'[p])
  BY DEF Whole, Complete
<1> QED
  BY <1>1, WholeWrote

\* A save puts the item into the set of who it names.
LEMMA WholeSave ==
  ASSUME TypeInv, QueueInv, Whole, Wrote, NEW i \in Item, NEW o \in Player, NEW v,
         QUERY_ITEM_SAVE(i, o, v), o \in loaded, loaded' = loaded,
         \A j \in Item : item'[j].at \in Player => item'[j].at \in loaded
  PROVE  Whole'
<1>1. /\ sent' = [sent EXCEPT ![i] = [owner |-> o, ver |-> v]] /\ row' = row
      /\ set' = Regroup({i}, o, hasSet) /\ hasSet' = hasSet
      /\ sent \in [Item -> Value] /\ set \in [Player -> SUBSET Item]
  BY DEF QUERY_ITEM_SAVE, PutItemCache, TypeInv, SentInv, CacheInv
<1>2. sent'[i].owner = o /\ \A j \in Item \ {i} : sent'[j] = sent[j]
  BY <1>1
<1>3. /\ o \in hasSet => i \in set'[o]
      /\ \A p \in Player \cap hasSet : \A j \in set[p] \ {i} : j \in set'[p]
  BY <1>1 DEF Regroup
<1>4. ASSUME NEW p \in Player, NEW j \in Item, sent'[j].owner = p
      PROVE  /\ sent[j].owner = p \/ p \in loaded
             /\ p \in hasSet' => j \in set'[p]
  <2>1. CASE j = i
    <3>1. p = o
      BY <1>2, <1>4, <2>1
    <3> QED
      BY <1>1, <1>3, <2>1, <3>1
  <2>2. CASE j # i
    <3>1. sent[j].owner = p
      BY <1>2, <1>4, <2>2
    <3>2. p \in hasSet => j \in set[p]
      BY <3>1 DEF Whole, Complete
    <3> QED
      BY <1>1, <1>3, <2>2, <3>1, <3>2
  <2> QED
    BY <2>1, <2>2
<1> QED
  BY <1>1, <1>4, WholeWrote

\* A destroy leaves nobody an item to find.
LEMMA WholeDestroy ==
  ASSUME TypeInv, QueueInv, Whole, Wrote, NEW i \in Item, NEW last,
         QUERY_ITEM_DESTROY(i, last), loaded' = loaded,
         \A j \in Item : item'[j].at \in Player => item'[j].at \in loaded
  PROVE  Whole'
<1>1. /\ sent' = [sent EXCEPT ![i] = Gone] /\ UNCHANGED <<row, set, hasSet>>
      /\ sent \in [Item -> Value]
  BY DEF QUERY_ITEM_DESTROY, TypeInv, SentInv
<1>2. sent'[i].owner \notin Player /\ \A j \in Item \ {i} : sent'[j] = sent[j]
  BY <1>1, CacheAssumption DEF Gone
<1>3. ASSUME NEW p \in Player, NEW j \in Item, sent'[j].owner = p
      PROVE  sent[j].owner = p /\ (p \in hasSet' => j \in set'[p])
  BY <1>1, <1>2, <1>3 DEF Whole, Complete
<1> QED
  BY <1>1, <1>3, WholeWrote

\* The timers, and what a core does to its objects.
LEMMA WholeCore ==
  ASSUME Orderly, ~EarlyEnter, TypeInv, SetInv, QueueInv, OwnedObjects, Whole, NEW p, NEW i,
         \/ i \in Item /\ ItemStep(i)
         \/ p \in Player /\ i \in Item /\ PlayerItemStep(p, i)
  PROVE  Whole'
<1>1. /\ item \in [Item -> Object] /\ Wrote
      /\ \A j \in Item : /\ item[j].at \in Player => item[j].at \in loaded
                         /\ item[j] = [at |-> item[j].at, last |-> item[j].last,
                                       box |-> item[j].box, ver |-> item[j].ver]
  BY MostlyWrites DEF TypeInv, GameInv, Object, Whole
<1>2. /\ i \in Item => item[i].ver \in 0..MaxVer
      /\ \A x \in Player : Active(x) => x \in loaded
  BY <1>1 DEF Object, Active
<1>3. CASE i \in Item /\ ItemStep(i)
  <2>1. CASE UpdateItemCache(i)
    BY <1>1, <2>1, WholeQuiet DEF UpdateItemCache, gameVars, sessionVars
  <2>2. CASE DropNew(i)
    BY <2>2 DEF DropNew, Orderly
  <2>3. CASE DestroyItem(i)
    <3>1. /\ item' = [item EXCEPT ![i].at = NoOne] /\ QUERY_ITEM_DESTROY(i, item[i].last)
          /\ loaded' = loaded
      BY <2>3 DEF DestroyItem, sessionVars
    <3>2. item'[i].at = NoOne /\ \A j \in Item \ {i} : item'[j] = item[j]
      BY <1>1, <1>3, <3>1
    <3>3. \A j \in Item : item'[j].at \in Player => item'[j].at \in loaded
      BY <1>1, <3>2, CacheAssumption
    <3> QED
      BY <1>1, <1>3, <3>1, <3>3, WholeDestroy
  <2>4. CASE SaveSingleItem(i)
    <3>1. item[i].at \in Player
      BY <1>3, <2>4 DEF SaveSingleItem, OwnedObjects
    <3>2. QUERY_ITEM_SAVE(i, item[i].at, item[i].ver) /\ item' = item /\ loaded' = loaded
      BY <2>4, <3>1 DEF SaveSingleItem, sessionVars
    <3> QED
      BY <1>1, <1>3, <3>1, <3>2, WholeSave
  <2> QED
    BY <1>3, <2>1, <2>2, <2>3, <2>4 DEF ItemStep
<1>4. CASE p \in Player /\ i \in Item /\ PlayerItemStep(p, i)
  <2>1. CASE CreateItem(p, i) \/ PickupItem(p, i)
    <3>1. /\ UNCHANGED <<loaded, row, sent, hasSet, set>> /\ Active(p)
          /\ \E v : item' = [item EXCEPT ![i] = AddToCharacter(p, v)]
      BY <2>1 DEF CreateItem, PickupItem, sessionVars, cacheVars, sqlVars
    <3>2. item'[i].at = p /\ \A j \in Item \ {i} : item'[j] = item[j]
      BY <1>1, <1>4, <3>1 DEF AddToCharacter
    <3> QED
      BY <1>1, <1>2, <1>4, <3>1, <3>2, WholeQuiet
  <2>2. CASE Change(p, i)
    <3>1. /\ UNCHANGED <<loaded, row, sent, hasSet, set>>
          /\ item' = [item EXCEPT ![i].ver = @ + 1]
      BY <2>2 DEF Change, sessionVars, cacheVars, sqlVars
    <3>2. item'[i].at = item[i].at /\ \A j \in Item \ {i} : item'[j] = item[j]
      BY <1>1, <1>4, <3>1
    <3> QED
      BY <1>1, <1>4, <3>1, <3>2, WholeQuiet
  <2>3. CASE DropItem(p, i)
    <3>1. /\ item' = [item EXCEPT ![i].at = Ground] /\ QUERY_ITEM_DESTROY(i, item[i].last)
          /\ loaded' = loaded
      BY <2>3 DEF DropItem, sessionVars
    <3>2. item'[i].at = Ground /\ \A j \in Item \ {i} : item'[j] = item[j]
      BY <1>1, <1>4, <3>1
    <3>3. \A j \in Item : item'[j].at \in Player => item'[j].at \in loaded
      BY <1>1, <3>2, CacheAssumption
    <3> QED
      BY <1>1, <1>4, <3>1, <3>3, WholeDestroy
  <2>4. CASE SafeboxCheckin(p, i) \/ SafeboxCheckout(p, i)
    BY <1>4, <2>4 DEF SafeboxCheckin, SafeboxCheckout, Orderly, OwnedObjects
  <2>5. CASE \E q \in Player : Exchange(p, q, i)
    <3>1. PICK q \in Player : Exchange(p, q, i)
      BY <2>5
    <3>2. /\ item' = [item EXCEPT ![i] = AddToCharacter(q, item[i].ver + 1)]
          /\ QUERY_ITEM_SAVE(i, q, item[i].ver + 1) /\ Active(q) /\ loaded' = loaded
      BY <3>1 DEF Exchange, sessionVars
    <3>3. item'[i].at = q /\ \A j \in Item \ {i} : item'[j] = item[j]
      BY <1>1, <1>4, <3>2 DEF AddToCharacter
    <3>4. q \in loaded /\ \A j \in Item : item'[j].at \in Player => item'[j].at \in loaded
      BY <1>1, <1>2, <3>2, <3>3
    <3> QED
      BY <1>1, <1>4, <3>2, <3>4, WholeSave
  <2> QED
    BY <1>4, <2>1, <2>2, <2>3, <2>4, <2>5 DEF PlayerItemStep
<1> QED
  BY <1>3, <1>4

\* The timers of a player, and logins.
LEMMA WholeSessions ==
  ASSUME Orderly, TypeInv, SetInv, QueueInv, Whole, NEW p,
         \/ p \in Player /\ \/ UpdatePlayerCache(p) \/ UpdateLogoutPlayer(p)
                            \/ Login(p) \/ QUERY_PLAYER_SAVE(p) \/ Disconnect(p)
         \/ UNCHANGED vars
  PROVE  Whole'
<1>1. Wrote /\ set \in [Player -> SUBSET Item]
      /\ \A j \in Item : item[j].at \in Player => item[j].at \in loaded
  BY MostlyWrites DEF TypeInv, CacheInv, Whole
<1>2. CASE p \in Player /\ UpdateLogoutPlayer(p)
  <2>1. /\ UNCHANGED <<item, loaded, row, sent>>
        /\ \/ UNCHANGED <<hasSet, set>>
           \/ hasSet' = hasSet \ {p} /\ set' = [set EXCEPT ![p] = {}]
    BY <1>2 DEF UpdateLogoutPlayer, FlushItemCacheSet, gameVars, sessionVars, cacheVars
  <2>2. \A x \in Player : x \in hasSet' => x \in hasSet /\ set'[x] = set[x]
    BY <1>1, <2>1
  <2>3. ASSUME NEW x \in Player, NEW j \in Item, sent'[j].owner = x
        PROVE  sent[j].owner = x /\ (x \in hasSet' => j \in set'[x])
    BY <2>1, <2>2, <2>3 DEF Whole, Complete
  <2> QED
    BY <1>1, <2>1, <2>3, WholeWrote
<1>3. CASE \/ p \in Player /\ \/ UpdatePlayerCache(p) \/ Login(p)
                              \/ QUERY_PLAYER_SAVE(p) \/ Disconnect(p)
           \/ UNCHANGED vars
  <2>1. UNCHANGED <<item, loaded, row, sent, hasSet, set>>
    BY <1>3 DEF UpdatePlayerCache, Login, QUERY_PLAYER_SAVE, Disconnect, vars, gameVars,
       sessionVars, cacheVars, sqlVars
  <2> QED
    BY <1>1, <2>1, WholeQuiet
<1> QED
  BY <1>2, <1>3

\* Who leaves is loaded no more.
LEMMA WholeLogout ==
  ASSUME TypeInv, QueueInv, Whole, NEW p \in Player, QUERY_LOGOUT(p)
  PROVE  Whole'
<1>1. /\ main \in Seq(Statement) /\ res \in Seq(Result) /\ item \in [Item -> Object]
      /\ UNCHANGED <<hasSet, set, row, sent>> /\ loaded' = loaded \ {p}
      /\ main' = Redirect(main, {p}, "nodesc")
  BY DEF TypeInv, SqlInv, GameInv, QUERY_LOGOUT
<1>2. ASSUME NEW i \in Item
      PROVE  item'[i].at = NoOne \/ (item'[i].at = item[i].at /\ item[i].at # p)
  <2>1. item'[i] = IF item[i].at = p THEN [item[i] EXCEPT !.at = NoOne] ELSE item[i]
    BY DEF QUERY_LOGOUT
  <2>2. item[i] \in Object
    BY <1>1
  <2> QED
    BY <2>1, <2>2 DEF Object
<1>3. /\ \A x : Reads(main', x) = Reads(main, x) /\ Reads(res', x) = Reads(res, x)
      /\ \A k \in 1..Len(res) : res'[k].rows = res[k].rows
  BY LogoutRedirects
<1>4. \A i : \A k : RowAt(main', row[i], i, k) = RowAt(main, row[i], i, k)
  BY <1>1, RowAtRedirect DEF To
<1>5. \A x : Pending(x)' <=> Pending(x)
  BY <1>3 DEF Pending
<1>6. \A x \in Player : \A k \in Reads(main', x) : \E l \in Reads(main, x) :
        \A i \in Item : RowAt(main', row'[i], i, k) = RowAt(main, row[i], i, l)
  BY <1>1, <1>3, <1>4
<1>7. ASSUME NEW x \in Player, NEW k \in Reads(res', x)
      PROVE  \E l \in Reads(res, x) : res'[k].rows = res[l].rows
  <2>1. k \in Reads(res, x)
    BY <1>3, <1>7
  <2>2. k \in 1..Len(res)
    BY <1>1, <2>1 DEF Reads
  <2> QED
    BY <1>3, <2>1, <2>2
<1>8. ASSUME NEW x \in Player, NEW j \in Item, sent'[j].owner = x
      PROVE  sent[j].owner = x /\ (x \in hasSet' => j \in set'[x])
  BY <1>1, <1>8 DEF Whole, Complete
<1>9. Complete'
  BY <1>6, <1>7, <1>8, CompleteKept DEF Whole
<1>10. \A i \in Item : item'[i].at \in Player => item'[i].at \in loaded'
  BY <1>1, <1>2, CacheAssumption DEF Whole
<1> QED
  BY <1>1, <1>5, <1>9, <1>10 DEF Whole

\* A read that is executed finds the rows of this moment.
LEMMA WholeExec ==
  ASSUME TypeInv, QueueInv, Whole, MainExec
  PROVE  Whole'
<1>1. UNCHANGED <<item, loaded, hasSet, set, sent>> /\ row \in [Item -> Value]
  BY DEF MainExec, gameVars, sessionVars, cacheVars, TypeInv, SqlInv
<1>2. /\ \A p \in Player : Pending(p)' <=> Pending(p)
      /\ \A p \in Player : \A k \in Reads(main', p) : \E l \in Reads(main, p) :
           \A i \in Item : RowAt(main', row'[i], i, k) = RowAt(main, row[i], i, l)
  BY ExecReads
<1>3. ASSUME NEW p \in Player, NEW k \in Reads(res', p)
      PROVE  \/ \E l \in Reads(res, p) : res'[k].rows = res[l].rows
             \/ \A i \in Item : sent'[i].owner = p => res'[k].rows[i] # 0
  <2>1. CASE 1 \in Reads(main, p) /\ res'[k].rows = RowsOf(p)
    <3>1. \A i \in Item : RowAt(main, row[i], i, 1) = row[i]
      BY ExecReads
    <3>2. \A i \in Item : sent'[i].owner = p => row[i].owner = p
      BY <1>1, <2>1, <3>1 DEF Whole, Complete
    <3>3. \A i \in Item : row[i].owner = p => row[i].ver # 0
      BY <1>1, CacheAssumption DEF Value, Gone
    <3>4. \A i \in Item : row[i].owner = p => RowsOf(p)[i] = row[i].ver
      BY DEF RowsOf
    <3> QED
      BY <2>1, <3>2, <3>3, <3>4
  <2> QED
    BY <1>3, <2>1, ExecReads
<1>4. \A p \in Player, i \in Item : sent'[i].owner = p =>
        sent[i].owner = p /\ (p \in hasSet' => i \in set'[p])
  BY <1>1 DEF Whole, Complete
<1>5. Complete'
  BY <1>2, <1>3, <1>4, CompleteKept DEF Whole
<1> QED
  BY <1>1, <1>2, <1>5 DEF Whole

\* Who is not in the game and has not both an entry in the player cache and an item set
\* finds all his items in MySQL.
LEMMA AbsentIsWhole ==
  ASSUME TypeInv, SetInv, SyncInv, NEW p \in Player, ~InGame(p),
         p \notin ptab \/ p \notin hasSet, NEW i \in Item, sent[i].owner = p
  PROVE  Future(i).owner = p
<1>1. InSync(i) /\ Owners(i)
  BY DEF SyncInv
<1>2. i \in cached => entry[i].owner = p
  BY <1>1, CacheAssumption DEF InSync, Content, Gone
<1>3. CASE Unwritten(i)
  <2>1. p \in ptab
    BY <1>1, <1>2, <1>3 DEF Owners, Known, Unwritten
  <2>2. p \in hasSet
    BY <1>2, <1>3 DEF SetInv, DirtyReachable, NoDanglingEntry, Unwritten
  <2> QED
    BY <2>1, <2>2
<1>4. CASE ~Unwritten(i)
  BY <1>1, <1>4 DEF InSync
<1> QED
  BY <1>3, <1>4

\* A load from the cache brings a whole set; one from MySQL reads all there is.
LEMMA WholeLoad ==
  ASSUME Orderly, TypeInv, SetInv, QueueInv, Sessions, SyncInv, Whole,
         NEW p \in Player, QUERY_PLAYER_LOAD(p)
  PROVE  Whole'
<1> DEFINE S == {i \in set[p] : entry[i].ver # 0}
           v == [i \in S |-> entry[i].ver]
<1>1. /\ UNCHANGED <<ptab, hasSet, set, row, res, sent>>
      /\ \/ item' = item /\ loaded' = loaded
         \/ main' = main /\ loaded' = loaded \cup {p} /\ ItemLoad(p, S, v)
      /\ main' # main => p \notin ptab \/ p \notin hasSet
  BY DEF QUERY_PLAYER_LOAD, LoadFromCache, LoadFromTable, LoadRefused, cacheVars
<1> HIDE DEF S, v
<1>2. ~InGame(p) /\ ~Pending(p) /\ p \notin loaded
  BY LoadReads DEF Sessions
<1>3. \A i \in Item : item'[i].at \in Player => item'[i].at \in loaded'
  BY <1>1 DEF Whole, ItemLoad, AddToCharacter
<1>4. \A x \in Player : Pending(x)' => x \notin loaded'
  <2>1. Pending(p)' => main' # main
    BY <1>1, <1>2 DEF Pending
  <2>2. \A x : x # p => (Pending(x)' => Pending(x))
    BY LoadReads
  <2> QED
    BY <1>1, <1>2, <2>1, <2>2 DEF Whole
<1>5. ASSUME NEW x \in Player, NEW k \in Reads(main', x)
      PROVE  \/ \E l \in Reads(main, x) : \A i \in Item :
                  RowAt(main', row'[i], i, k) = RowAt(main, row[i], i, l)
             \/ \A i \in Item : sent'[i].owner = x => RowAt(main', row'[i], i, k).owner = x
  <2>1. CASE /\ x = p /\ main' # main
             /\ \A i \in Item : RowAt(main', row'[i], i, k) = Future(i)
    BY <1>1, <1>2, <2>1, AbsentIsWhole
  <2> QED
    BY <1>5, <2>1, LoadReads
<1>6. ASSUME NEW x \in Player, NEW i \in Item, sent'[i].owner = x
      PROVE  sent[i].owner = x /\ (x \in hasSet' => i \in set'[x])
  BY <1>1, <1>6 DEF Whole, Complete
<1>7. Complete'
  BY <1>1, <1>5, <1>6, CompleteKept DEF Whole
<1> QED
  BY <1>3, <1>4, <1>7 DEF Whole

\* The result of a read becomes the set and the objects of its player.
LEMMA WholeResult ==
  ASSUME TypeInv, QueueInv, SyncInv, Whole, AnalyzeQueryResult
  PROVE  Whole'
<1> DEFINE m == Head(res)
           S == {i \in Item : m.rows[i] # 0}
<1>1. /\ m \in Result /\ m = res[1] /\ UNCHANGED <<row, main, sent>>
      /\ \/ m.op = "player" /\ RESULT_PLAYER_LOAD(m.owner, m.to)
         \/ m.op = "item" /\ RESULT_ITEM_LOAD(m.owner, m.to, m.rows)
  BY ResultTaken DEF AnalyzeQueryResult
<1>2. /\ \A x \in Player : \A k \in Reads(res', x) : \E l \in Reads(res, x) :
           res'[k].rows = res[l].rows
      /\ \A x : Pending(x)' => Pending(x)
  BY ResultTaken
<1>3. m.owner \in Player
  BY <1>1 DEF Result
<1> HIDE DEF m
<1>4. \A x \in Player : \A k \in Reads(main', x) : \E l \in Reads(main, x) :
        \A i \in Item : RowAt(main', row'[i], i, k) = RowAt(main, row[i], i, l)
  BY <1>1
<1>5. CASE m.op = "player" /\ RESULT_PLAYER_LOAD(m.owner, m.to)
  <2>1. UNCHANGED <<item, loaded, hasSet, set>>
    BY <1>5 DEF RESULT_PLAYER_LOAD, cacheVars
  <2>2. ASSUME NEW x \in Player, NEW i \in Item, sent'[i].owner = x
        PROVE  sent[i].owner = x /\ (x \in hasSet' => i \in set'[x])
    BY <1>1, <2>1, <2>2 DEF Whole, Complete
  <2>3. Complete'
    BY <1>2, <1>4, <2>2, CompleteKept DEF Whole
  <2> QED
    BY <1>2, <2>1, <2>3 DEF Whole
<1>6. CASE m.op = "item" /\ RESULT_ITEM_LOAD(m.owner, m.to, m.rows)
  <2>1. PICK p \in Player : p = m.owner
    BY <1>3
  <2>2. /\ hasSet' = hasSet \cup {p} /\ set' = Regroup(S, p, hasSet \cup {p})
        /\ \/ item' = item /\ loaded' = loaded
           \/ loaded' = loaded \cup {p} /\ ItemLoad(p, S, m.rows)
    BY <1>6, <2>1 DEF RESULT_ITEM_LOAD
  <2>3. 1 \in Reads(res, p) /\ ~Pending(p)'
    BY <1>6, <2>1, ResultTaken DEF m
  <2>4. \A i \in Item : i \in S <=> sent[i].owner = p
    <3>1. ASSUME NEW i \in Item, sent[i].owner = p PROVE i \in S
      BY <1>1, <2>3, <3>1 DEF Whole, Complete
    <3>2. ASSUME NEW i \in S PROVE sent[i].owner = p
      <4>1. sent[i] = [owner |-> p, ver |-> m.rows[i]]
        BY <1>1, <2>3, <3>2 DEF SyncInv, Fresh
      <4> QED
        BY <4>1
    <3> QED
      BY <3>1, <3>2
  <2> HIDE DEF S
  <2>5. ASSUME NEW x \in Player, NEW i \in Item, sent'[i].owner = x
        PROVE  sent[i].owner = x /\ (x \in hasSet' => i \in set'[x])
    <3>1. CASE x = p
      BY <1>1, <2>2, <2>4, <2>5, <3>1 DEF Regroup
    <3>2. CASE x # p
      <4>1. i \notin S /\ (x \in hasSet => i \in set[x])
        BY <1>1, <2>4, <2>5, <3>2 DEF Whole, Complete
      <4> QED
        BY <1>1, <2>2, <2>5, <3>2, <4>1 DEF Regroup
    <3> QED
      BY <3>1, <3>2
  <2>6. Complete'
    BY <1>2, <1>4, <2>5, CompleteKept DEF Whole
  <2>7. \A i \in Item : item'[i].at \in Player => item'[i].at \in loaded'
    BY <2>2 DEF Whole, ItemLoad, AddToCharacter
  <2>8. \A x \in Player : Pending(x)' => x \notin loaded'
    BY <1>2, <2>2, <2>3 DEF Whole
  <2> QED
    BY <2>6, <2>7, <2>8 DEF Whole
<1> QED
  BY <1>1, <1>5, <1>6

LEMMA WholeInit == Init => Whole
<1> SUFFICES ASSUME Init PROVE Whole
  OBVIOUS
<1>1. /\ main = << >> /\ res = << >> /\ hasSet = {} /\ \A i \in Item : item[i].at = NoOne
  BY DEF Init
<1>2. \A p : Reads(main, p) = {} /\ Reads(res, p) = {}
  BY <1>1 DEF Reads
<1> QED
  BY <1>1, <1>2, CacheAssumption DEF Whole, Complete, Pending

LEMMA WholeStep ==
  Orderly /\ ~EarlyEnter => (TypeInv /\ SaveInv /\ Whole /\ [Next]_vars => Whole')
<1> SUFFICES ASSUME Orderly, ~EarlyEnter, TypeInv, SaveInv, Whole, [Next]_vars PROVE Whole'
  OBVIOUS
<1> USE DEF SaveInv
<1>1. ASSUME NEW p \in Player, PlayerStep(p) PROVE Whole'
  <2>1. ~QUERY_FLUSH_CACHE(p)
    BY DEF QUERY_FLUSH_CACHE, Orderly
  <2> QED
    BY <1>1, <2>1, WholeSessions, WholeLoad, WholeLogout DEF PlayerStep
<1>2. CASE CoreCrash
  BY <1>2, CacheAssumption DEF CoreCrash, Orderly, TypeInv, SessionInv
<1>3. CASE MainExec \/ AnalyzeQueryResult
  BY <1>3, WholeExec, WholeResult
<1>4. CASE AsyncExec
  BY <1>4 DEF AsyncExec, OwnedObjects
<1>5. CASE UNCHANGED vars
  BY <1>5, WholeSessions
<1> QED
  BY <1>1, <1>2, <1>3, <1>4, <1>5, WholeCore DEF Next

\* A reload gives the player the items that were last saved as his, each as it was last
\* saved and no other, whether RESULT_ITEM_LOAD read them or the daemon had them cached.
THEOREM LoadFaithfulHolds ==
  ASSUME Orderly, ~EarlyEnter
  PROVE  Spec => LoadFaithful
<1> DEFINE Faithful ==
      \A p \in loaded' \ loaded : \A i \in Item :
        /\ item'[i].at = p <=> sent[i].owner = p
        /\ item'[i].at = p => item'[i].ver = sent[i].ver
<1>1. TypeInv /\ SaveInv /\ Whole /\ [Next]_vars => [Faithful]_vars
  <2> SUFFICES ASSUME TypeInv, SaveInv, Whole, Next,
                      NEW p \in loaded' \ loaded, NEW i \in Item
               PROVE  /\ item'[i].at = p <=> sent[i].owner = p
                      /\ item'[i].at = p => item'[i].ver = sent[i].ver
    BY DEF Faithful
  <2> USE DEF SaveInv
  <2>1. ASSUME NEW S, NEW v, ItemLoad(p, S, v), item[i].at # p,
               i \in S <=> sent[i].owner = p,
               i \in S => sent[i].ver = v[i] /\ item[i].at = NoOne
        PROVE  /\ item'[i].at = p <=> sent[i].owner = p
               /\ item'[i].at = p => item'[i].ver = sent[i].ver
    BY <2>1 DEF ItemLoad, AddToCharacter
  <2>2. CASE \E x \in Player : QUERY_PLAYER_LOAD(x)
    <3> DEFINE S == {j \in set[p] : entry[j].ver # 0}
               v == [j \in S |-> entry[j].ver]
    <3>1. /\ ItemLoad(p, S, v) /\ p \in Player /\ p \in hasSet /\ QUERY_PLAYER_LOAD(p)
      BY <2>2 DEF QUERY_PLAYER_LOAD, LoadFromCache, LoadFromTable, LoadRefused
    <3>2. ~InGame(p)
      BY <3>1, LoadReads
    <3>3. item[i].at \in Player => InGame(item[i].at)
      BY DEF OwnedObjects
    <3>4. item[i].at # p
      BY <3>1, <3>2, <3>3
    <3>5. ASSUME i \in S
          PROVE  sent[i].owner = p /\ sent[i].ver = v[i] /\ item[i].at = NoOne
      <4>1. sent[i] = [owner |-> p, ver |-> v[i]]
        BY <3>1, <3>5, SetIsSent
      <4>2. sent[i].owner = p /\ sent[i].ver = v[i]
        BY <4>1
      <4>3. KnownObject(i) /\ item[i].at \in Player \cup {NoOne, Ground} /\ sent[i] # Gone
        BY <3>1, <4>2, CacheAssumption
        DEF SyncInv, TypeInv, GameInv, Object, Holder, Gone
      <4> QED
        BY <3>4, <4>2, <4>3 DEF KnownObject
    <3>6. ASSUME sent[i].owner = p PROVE i \in S
      <4>1. i \in set[p]
        BY <3>1, <3>6 DEF Whole, Complete
      <4>2. Content(i) = sent[i]
        BY <3>1, <4>1 DEF SyncInv, InSync, SetInv, NoDanglingEntry
      <4> QED
        BY <3>1, <3>6, <4>1, <4>2, CacheAssumption DEF Content, Gone
    <3> HIDE DEF S, v
    <3> QED
      BY <2>1, <3>1, <3>4, <3>5, <3>6
  <2>3. CASE AnalyzeQueryResult
    <3> DEFINE S == {j \in Item : Head(res).rows[j] # 0}
    <3>1. /\ p = Head(res).owner /\ Head(res).op = "item" /\ Head(res) \in Result
          /\ Head(res) = res[1] /\ ItemLoad(p, S, Head(res).rows)
      BY <2>3, ResultTaken DEF RESULT_PLAYER_LOAD, RESULT_ITEM_LOAD
    <3>2. p \in Player /\ 1 \in Reads(res, p)
      BY <2>3, <3>1, ResultTaken DEF Result
    <3>3. item[i].at # p
      BY <3>2 DEF Whole
    <3>4. ASSUME i \in S
          PROVE  sent[i].owner = p /\ sent[i].ver = Head(res).rows[i] /\ item[i].at = NoOne
      <4>1. sent[i] = [owner |-> p, ver |-> Head(res).rows[i]] /\ item[i].at = NoOne
        BY <3>1, <3>2, <3>4 DEF SyncInv, Fresh
      <4> QED
        BY <4>1
    <3>5. ASSUME sent[i].owner = p PROVE i \in S
      BY <3>1, <3>2, <3>5 DEF Whole, Complete
    <3> HIDE DEF S
    <3> QED
      BY <2>1, <3>1, <3>3, <3>4, <3>5
  <2>4. CASE \/ \E j \in Item : ItemStep(j)
             \/ \E x \in Player, j \in Item : PlayerItemStep(x, j)
             \/ \E x \in Player : \/ UpdatePlayerCache(x) \/ UpdateLogoutPlayer(x)
                                  \/ QUERY_FLUSH_CACHE(x) \/ Login(x)
                                  \/ QUERY_PLAYER_SAVE(x) \/ Disconnect(x) \/ QUERY_LOGOUT(x)
             \/ CoreCrash \/ MainExec \/ AsyncExec
    <3>1. ASSUME NEW j, ItemStep(j) PROVE loaded' = loaded
      BY <3>1 DEF ItemStep, UpdateItemCache, DropNew, DestroyItem, SaveSingleItem, sessionVars
    <3>2. ASSUME NEW x, NEW j, PlayerItemStep(x, j) PROVE loaded' = loaded
      BY <3>2 DEF PlayerItemStep, CreateItem, Change, DropItem, PickupItem,
         SafeboxCheckin, SafeboxCheckout, Exchange, sessionVars
    <3>3. ASSUME NEW x, \/ UpdatePlayerCache(x) \/ UpdateLogoutPlayer(x)
                        \/ QUERY_FLUSH_CACHE(x) \/ Login(x)
                        \/ QUERY_PLAYER_SAVE(x) \/ Disconnect(x) \/ QUERY_LOGOUT(x)
          PROVE  loaded' \subseteq loaded
      BY <3>3 DEF UpdatePlayerCache, UpdateLogoutPlayer, QUERY_FLUSH_CACHE, Login,
         QUERY_PLAYER_SAVE, Disconnect, QUERY_LOGOUT, sessionVars
    <3>4. ASSUME CoreCrash \/ MainExec \/ AsyncExec PROVE loaded' \subseteq loaded
      BY <3>4 DEF CoreCrash, MainExec, AsyncExec, sessionVars
    <3>5. loaded' \subseteq loaded
      BY <2>4, <3>1, <3>2, <3>3, <3>4
    <3> QED
      BY <3>5
  <2> QED
    BY <2>2, <2>3, <2>4 DEF Next, PlayerStep
<1>2. TypeInv /\ SaveInv /\ [Next]_vars => SaveInv'
  BY SaveInvStep
<1>3. TypeInv /\ SaveInv /\ Whole /\ [Next]_vars => Whole'
  BY WholeStep
<1> QED
  BY <1>1, <1>2, <1>3, TypeInvInit, TypeInvStep, SaveInvInit, WholeInit, PTL
  DEF Spec, LoadFaithful, Faithful

=============================================================================
