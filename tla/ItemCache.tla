----------------------------- MODULE ItemCache -----------------------------
(***************************************************************************)
(* The write-back item cache of the db daemon (db/src/ClientManager.cpp,   *)
(* ClientManagerPlayer.cpp, Cache.cpp, common/cache.h), with the MySQL     *)
(* connections under it and the item objects of a game core over it.       *)
(*                                                                         *)
(* A core holds every item of the players who are in the game and reports  *)
(* changes late (m_set_pkItemForDelayedSave).  The daemon keeps what it is *)
(* told in m_map_itemCache, groups the entries by owner while that owner   *)
(* is known to it (m_map_pkItemCacheSetPtr) and writes them to MySQL from  *)
(* timers.  Reading a player back takes the cache when it can and MySQL    *)
(* when it cannot, and the answer of MySQL arrives some turns later.       *)
(*                                                                         *)
(* Abstracted: each account has one character; an item's contents are a    *)
(* version number, 0 standing for vnum 0 ("deleted"); the player's own     *)
(* table, quests and affects are left out, except that a PLAYER_SAVE makes *)
(* the player cache hit from then on.  A packet of a core is handled by    *)
(* the daemon in the step that sends it: packets of one core stay in order *)
(* and those of two cores concern different players and items.             *)
(***************************************************************************)
EXTENDS Naturals, Sequences, FiniteSets, SequencesExt

CONSTANTS
  Player,       \* character ids, one per account
  Item,         \* item ids
  NoOne,        \* no character: pid 0
  Ground,       \* the holder of an item that lies on a map
  MaxVer,       \* bound: versions of one item
  MaxLogin,     \* bound: sessions of one player
  MaxCrash,     \* bound: crashes of a core
  MaxRead,      \* bound: reads of one player's items under way at a time
  EarlyEnter,   \* TRUE: a player may handle items before ITEM_LOAD came
  Safebox,      \* TRUE: players use the safebox
  WildDrop,     \* TRUE: items are also created on the ground, owned by nobody
  FlushPacket,  \* TRUE: cores send FLUSH_CACHE (shutdown, change of name, GM)
  TimersInOrder \* TRUE: a change is written within g_iItemCacheFlushSeconds,
                \* before a logout g_iLogoutSeconds old takes effect

ASSUME CacheAssumption ==
  /\ IsFiniteSet(Item)
  /\ NoOne \notin Player
  /\ Ground \notin Player
  /\ NoOne # Ground
  /\ MaxVer \in Nat \ {0}
  /\ MaxLogin \in Nat
  /\ MaxCrash \in Nat
  /\ MaxRead \in Nat
  /\ {EarlyEnter, Safebox, WildDrop, FlushPacket, TimersInOrder} \subseteq BOOLEAN

VARIABLES
  item,      \* the item objects of the core: holder, last owner, window, version
  unsaved,   \* m_set_pkItemForDelayedSave
  phase,     \* the player's connection: off, select, game, closing
  loaded,    \* IsItemLoaded: the players whose ITEM_LOAD has come
  logins,    \* sessions used so far, for the bound
  crashes,   \* crashes so far, for the bound
  play,      \* accounts whose CLoginData has m_bPlay
  ptab,      \* keys of m_map_playerCache
  leaving,   \* keys of m_map_logout
  cached,    \* keys of m_map_itemCache
  entry,     \* its CItemCache objects: owner, version, m_bNeedQuery, and for
             \* m_lastFlushTime the players who left since it was last written
  hasSet,    \* keys of m_map_pkItemCacheSetPtr
  set,       \* its TItemCacheSet objects
  row,       \* the item table of MySQL
  main,      \* statements queued on the main connection
  async,     \* deletes queued on the async connection
  res,       \* results of the main connection waiting for the daemon
  sent       \* history: the last state of each item the daemon was told

gameVars == <<item, unsaved>>
sessionVars == <<phase, loaded, logins, crashes>>
loginVars == <<play, ptab, leaving>>
cacheVars == <<cached, entry, hasSet, set>>
sqlVars == <<row, main, async, res>>
vars == <<gameVars, sessionVars, loginVars, cacheVars, sqlVars, sent>>

-----------------------------------------------------------------------------
(* Statements and rows *)

Gone == [owner |-> NoOne, ver |-> 0]
Value == [owner : Player, ver : 1..MaxVer] \cup {Gone}

\* The write CItemCache::OnFlush queues for entry e of item i: a DELETE when
\* vnum is 0, a REPLACE otherwise.
OnFlush(i, e) ==
  [op |-> "write", item |-> i, to |-> "nopeer",
   owner |-> IF e.ver = 0 THEN NoOne ELSE e.owner, ver |-> e.ver]

Select(kind, p) ==
  [op |-> kind, item |-> NoOne, to |-> "desc", owner |-> p, ver |-> 0]

\* The queries of the players in S are answered to t: "nodesc" when the
\* client has left (the core finds no descriptor), "nopeer" when the core has
\* (AnalyzeQueryResult finds no peer and drops the result).
Redirect(q, S, t) ==
  [k \in DOMAIN q |->
     IF q[k].owner \in S /\ q[k].to # "nopeer" THEN [q[k] EXCEPT !.to = t]
     ELSE q[k]]

\* The reads of p's items in queue q.
Reads(q, p) == {k \in DOMAIN q : q[k].op = "item" /\ q[k].owner = p}

\* What MySQL will hold for i once everything queued now has been executed.
Writes(i) == {k \in DOMAIN main : main[k].op = "write" /\ main[k].item = i}
Future(i) ==
  IF Writes(i) = {} THEN row[i]
  ELSE LET k == Max(Writes(i)) IN [owner |-> main[k].owner, ver |-> main[k].ver]

-----------------------------------------------------------------------------
(* CClientManager: the cache *)

\* mutant: the set of the former owner keeps the entry
KeepFormerOwner(R, o, known) ==
  [q \in Player |-> IF q = o /\ o \in known THEN set[q] \cup R ELSE set[q]]

\* Items of R move into the set of owner o, out of the set of the owner their
\* entry names, as PutItemCache does for each of them.
Regroup(R, o, known) ==
  [q \in Player |->
     IF q = o THEN IF o \in known THEN set[q] \cup R ELSE {}
     ELSE set[q] \ {i \in R \cap cached : entry[i].owner = q}]

\* mutant: no direct save for an owner without a set
PutWithoutDirectSave(i, o, v) ==
  /\ cached' = cached \cup {i}
  /\ entry' = [entry EXCEPT ![i] = [owner |-> o, ver |-> v, dirty |-> TRUE,
                                   since |-> {}]]
  /\ set' = Regroup({i}, o, hasSet)
  /\ UNCHANGED <<hasSet, main>>

\* PutItemCache with bSkipQuery false: the entry is dirty until a flush, or
\* written at once when its owner has no set.
PutItemCache(i, o, v) ==
  LET old == IF i \in cached /\ entry[i].dirty THEN entry[i].since ELSE {}
      e == [owner |-> o, ver |-> v, dirty |-> o \in hasSet,
            since |-> IF o \in hasSet THEN old ELSE {}]
  IN  /\ cached' = cached \cup {i}
      /\ entry' = [entry EXCEPT ![i] = e]
      /\ set' = Regroup({i}, o, hasSet)
      /\ main' = IF o \in hasSet THEN main ELSE Append(main, OnFlush(i, e))
      /\ UNCHANGED hasSet

\* The entries after a Flush of those in S.
Clean(S) == [i \in Item |->
               IF i \in S THEN [entry[i] EXCEPT !.dirty = FALSE, !.since = {}]
               ELSE entry[i]]
Dirty(S) == {i \in S : entry[i].dirty}

\* The writes of the dirty entries of S, in the order of a set of pointers.
FlushOrders(S) == {[k \in DOMAIN q |-> OnFlush(q[k], entry[q[k]])] :
                     q \in SetToSeqs(Dirty(S))}

\* FlushItemCacheSet: flush every entry of the owner's set, then drop the
\* entries and the set; nothing without a set.
FlushItemCacheSet(p) ==
  IF p \notin hasSet THEN UNCHANGED <<cacheVars, main>>
  ELSE /\ \E w \in FlushOrders(set[p]) : main' = main \o w
       /\ cached' = cached \ set[p]
       /\ entry' = Clean(set[p])
       /\ hasSet' = hasSet \ {p}
       /\ set' = [set EXCEPT ![p] = {}]

\* QUERY_ITEM_SAVE for an inventory window.
QUERY_ITEM_SAVE(i, o, v) ==
  /\ PutItemCache(i, o, v)
  /\ sent' = [sent EXCEPT ![i] = [owner |-> o, ver |-> v]]
  /\ UNCHANGED <<row, async, res>>

\* mutant: the owner's set keeps the deleted entry
SafeboxKeepsPointer(i) ==
  /\ cached' = cached \ {i}
  /\ sent' = [sent EXCEPT ![i] = Gone]
  /\ UNCHANGED <<entry, hasSet, set, row, main, async, res>>

\* QUERY_ITEM_SAVE for SAFEBOX or MALL: the entry is dropped unflushed, and the
\* statement that follows lacks its VALUES keyword, so MySQL refuses it.
QUERY_ITEM_SAVE_Safebox(i) ==
  /\ cached' = cached \ {i}
  /\ set' = IF i \in cached /\ entry[i].owner \in hasSet
            THEN [set EXCEPT ![entry[i].owner] = @ \ {i}] ELSE set
  /\ main' = Append(main, [op |-> "refused", item |-> i, to |-> "nopeer",
                           owner |-> NoOne, ver |-> 0])
  /\ sent' = [sent EXCEPT ![i] = Gone]
  /\ UNCHANGED <<entry, hasSet, row, async, res>>

\* QUERY_ITEM_DESTROY from a core that names last as the item's last owner:
\* CItemCache::Delete when there is an entry (nothing when it is deleted
\* already), else a DELETE, on the async connection for pid 0.
QUERY_ITEM_DESTROY(i, last) ==
  LET e == [entry[i] EXCEPT !.ver = 0, !.dirty = FALSE, !.since = {}]
      d == OnFlush(i, e)
  IN  /\ entry' = IF i \in cached /\ entry[i].ver # 0
                  THEN [entry EXCEPT ![i] = e] ELSE entry
      /\ main' = IF i \in cached
                 THEN IF entry[i].ver # 0 THEN Append(main, d) ELSE main
                 ELSE IF last # NoOne THEN Append(main, d) ELSE main
      /\ async' = IF i \notin cached /\ last = NoOne THEN Append(async, i) ELSE async
      /\ sent' = [sent EXCEPT ![i] = Gone]
      /\ UNCHANGED <<cached, hasSet, set, row, res>>

\* mutant: Flush without its OnFlush
FlushUnwritten(i) ==
  /\ i \in cached /\ entry[i].dirty
  /\ entry' = Clean({i})
  /\ UNCHANGED <<gameVars, sessionVars, loginVars, cached, hasSet, set, sqlVars, sent>>

\* UpdateItemCache: CheckFlushTimeout has passed for entry i.
UpdateItemCache(i) ==
  /\ i \in cached /\ entry[i].dirty
  /\ main' = Append(main, OnFlush(i, entry[i]))
  /\ entry' = Clean({i})
  /\ UNCHANGED <<gameVars, sessionVars, loginVars, cached, hasSet, set, row,
                 async, res, sent>>

\* UpdatePlayerCache: CheckTimeout has passed for player p, whose item set is
\* flushed (UpdateItemCacheSet) and kept.
UpdatePlayerCache(p) ==
  /\ p \in ptab \cap hasSet
  /\ Dirty(set[p]) # {}
  /\ \E w \in FlushOrders(set[p]) : main' = main \o w
  /\ entry' = Clean(set[p])
  /\ UNCHANGED <<gameVars, sessionVars, loginVars, cached, hasSet, set, row,
                 async, res, sent>>

\* UpdateLogoutPlayer: g_iLogoutSeconds after the logout of p.
UpdateLogoutPlayer(p) ==
  /\ p \in leaving
  /\ TimersInOrder => \A i \in cached : entry[i].dirty => p \notin entry[i].since
  /\ FlushItemCacheSet(p)
  /\ ptab' = ptab \ {p}
  /\ leaving' = leaving \ {p}
  /\ UNCHANGED <<gameVars, sessionVars, play, row, async, res, sent>>

\* QUERY_FLUSH_CACHE, which a core sends for a player it is about to drop.
QUERY_FLUSH_CACHE(p) ==
  /\ FlushPacket
  /\ phase[p] = "game"
  /\ p \in ptab
  /\ FlushItemCacheSet(p)
  /\ ptab' = ptab \ {p}
  /\ UNCHANGED <<gameVars, sessionVars, play, leaving, row, async, res, sent>>

-----------------------------------------------------------------------------
(* The item objects of a core *)

Held(p) == {i \in Item : item[i].at = p}

\* CItem::AddToCharacter, for version v of an item.
AddToCharacter(p, v) == [at |-> p, last |-> p, box |-> FALSE, ver |-> v]

\* May p's items be handled: p is in the game, and its items are there unless
\* EarlyEnter lets it act before them (no handler of the core asks).
Active(p) == phase[p] = "game" /\ (EarlyEnter \/ p \in loaded)

\* ItemLoad: CreateItem refuses an id that is already in the core's map.
ItemLoad(p, S, v) ==
  item' = [i \in Item |->
             IF i \in S /\ item[i].at = NoOne
             THEN AddToCharacter(p, v[i])
             ELSE item[i]]

\* A new item for p, under an id never used before.
CreateItem(p, i) ==
  /\ Active(p)
  /\ item[i].at = NoOne /\ item[i].ver = 0
  /\ item' = [item EXCEPT ![i] = AddToCharacter(p, 1)]
  /\ unsaved' = unsaved \cup {i}
  /\ UNCHANGED <<sessionVars, loginVars, cacheVars, sqlVars, sent>>

\* A new item on the ground, as monsters leave them: its last owner is 0.
DropNew(i) ==
  /\ WildDrop
  /\ item[i].at = NoOne /\ item[i].ver = 0
  /\ item' = [item EXCEPT ![i] = [at |-> Ground, last |-> NoOne, box |-> FALSE,
                                  ver |-> 1]]
  /\ unsaved' = unsaved \cup {i}
  /\ UNCHANGED <<sessionVars, loginVars, cacheVars, sqlVars, sent>>

\* CItem::Save after a change of an item that p holds.
Change(p, i) ==
  /\ Active(p)
  /\ item[i].at = p /\ ~item[i].box /\ item[i].ver < MaxVer
  /\ item' = [item EXCEPT ![i].ver = @ + 1]
  /\ unsaved' = unsaved \cup {i}
  /\ UNCHANGED <<sessionVars, loginVars, cacheVars, sqlVars, sent>>

\* CExchange::Done: the item changes hands and is saved at once.
Exchange(p, q, i) ==
  /\ p # q /\ Active(p) /\ Active(q)
  /\ item[i].at = p /\ ~item[i].box /\ item[i].ver < MaxVer
  /\ item' = [item EXCEPT ![i] = AddToCharacter(q, item[i].ver + 1)]
  /\ unsaved' = unsaved \ {i}
  /\ QUERY_ITEM_SAVE(i, q, item[i].ver + 1)
  /\ UNCHANGED <<sessionVars, loginVars>>

\* CHARACTER::DropItem: an item without an owner is "saved" by destroying it.
DropItem(p, i) ==
  /\ Active(p)
  /\ item[i].at = p /\ ~item[i].box
  /\ item' = [item EXCEPT ![i].at = Ground]
  /\ unsaved' = unsaved \ {i}
  /\ QUERY_ITEM_DESTROY(i, item[i].last)
  /\ UNCHANGED <<sessionVars, loginVars>>

\* CHARACTER::PickupItem: saved later.
PickupItem(p, i) ==
  /\ Active(p)
  /\ item[i].at = Ground /\ item[i].ver < MaxVer
  /\ item' = [item EXCEPT ![i] = AddToCharacter(p, item[i].ver + 1)]
  /\ unsaved' = unsaved \cup {i}
  /\ UNCHANGED <<sessionVars, loginVars, cacheVars, sqlVars, sent>>

\* DestroyItem: used up, or gone from the ground; a pending save is dropped.
DestroyItem(i) ==
  /\ item[i].at = Ground \/ \E p \in Player : item[i].at = p /\ Active(p)
  /\ ~item[i].box
  /\ item' = [item EXCEPT ![i].at = NoOne]
  /\ unsaved' = unsaved \ {i}
  /\ QUERY_ITEM_DESTROY(i, item[i].last)
  /\ UNCHANGED <<sessionVars, loginVars>>

\* SaveSingleItem for one item of m_set_pkItemForDelayedSave, from Update or
\* from FlushDelayedSave: ITEM_SAVE with an owner, ITEM_DESTROY without.
SaveSingleItem(i) ==
  /\ i \in unsaved
  /\ unsaved' = unsaved \ {i}
  /\ IF item[i].at \in Player THEN QUERY_ITEM_SAVE(i, item[i].at, item[i].ver)
     ELSE QUERY_ITEM_DESTROY(i, item[i].last)
  /\ UNCHANGED <<item, sessionVars, loginVars>>

\* SafeboxCheckin: into the safebox, saved at once with window SAFEBOX.
SafeboxCheckin(p, i) ==
  /\ Safebox /\ Active(p)
  /\ item[i].at = p /\ ~item[i].box
  /\ item' = [item EXCEPT ![i].box = TRUE]
  /\ unsaved' = unsaved \ {i}
  /\ QUERY_ITEM_SAVE_Safebox(i)
  /\ UNCHANGED <<sessionVars, loginVars>>

\* SafeboxCheckout: back into the inventory, saved at once and then flushed
\* (QUERY_ITEM_FLUSH): whether its owner has a set or not, it is written.
SafeboxCheckout(p, i) ==
  LET e == [owner |-> p, ver |-> item[i].ver + 1, dirty |-> FALSE, since |-> {}]
  IN  /\ Active(p)
      /\ item[i].at = p /\ item[i].box /\ item[i].ver < MaxVer
      /\ item' = [item EXCEPT ![i] = AddToCharacter(p, e.ver)]
      /\ unsaved' = unsaved \ {i}
      /\ cached' = cached \cup {i}
      /\ entry' = [entry EXCEPT ![i] = e]
      /\ set' = Regroup({i}, p, hasSet)
      /\ main' = Append(main, OnFlush(i, e))
      /\ sent' = [sent EXCEPT ![i] = [owner |-> p, ver |-> e.ver]]
      /\ UNCHANGED <<sessionVars, loginVars, hasSet, row, async, res>>

-----------------------------------------------------------------------------
(* Sessions *)

\* RESULT_LOGIN: the account is logged on.  A login with a fresh key has a new
\* CLoginData (QUERY_AUTH_LOGIN); one with the key it had finds the old one.
Login(p) ==
  /\ phase[p] = "off" /\ logins[p] < MaxLogin
  /\ phase' = [phase EXCEPT ![p] = "select"]
  /\ logins' = [logins EXCEPT ![p] = @ + 1]
  /\ play' \in {play, play \ {p}}
  /\ UNCHANGED <<gameVars, loaded, crashes, ptab, leaving, cacheVars, sqlVars, sent>>

\* mutant: no test of vnum, so deleted entries are sent to the core
LoadDeletedToo(p) ==
  /\ p \in ptab /\ p \notin play
  /\ play' = play \cup {p}
  /\ phase' = [phase EXCEPT ![p] = "game"]
  /\ IF p \in hasSet
     THEN /\ loaded' = loaded \cup {p}
          /\ ItemLoad(p, set[p], [i \in set[p] |-> entry[i].ver])
          /\ UNCHANGED main
     ELSE /\ main' = Append(main, Select("item", p))
          /\ UNCHANGED <<loaded, item>>

\* QUERY_PLAYER_LOAD when the player is cached and not in the game: answered
\* from the item set, or with a read of the items when there is none.
LoadFromCache(p) ==
  LET S == {i \in set[p] : entry[i].ver # 0}
  IN  /\ p \in ptab /\ p \notin play
      /\ play' = play \cup {p}
      /\ phase' = [phase EXCEPT ![p] = "game"]
      /\ IF p \in hasSet
         THEN /\ loaded' = loaded \cup {p}
              /\ ItemLoad(p, S, [i \in S |-> entry[i].ver])
              /\ UNCHANGED main
         ELSE /\ main' = Append(main, Select("item", p))
              /\ UNCHANGED <<loaded, item>>

\* QUERY_PLAYER_LOAD when the player is not cached: MySQL is asked for the
\* player and for the items.
LoadFromTable(p) ==
  /\ p \notin ptab
  /\ main' = main \o <<Select("player", p), Select("item", p)>>
  /\ UNCHANGED <<play, phase, loaded, item>>

\* PLAYER_LOAD_FAILED: nothing follows, the client stays where it is.
LoadRefused(p) ==
  /\ p \in ptab /\ p \in play
  /\ UNCHANGED <<play, phase, loaded, item, main>>

QUERY_PLAYER_LOAD(p) ==
  /\ phase[p] = "select"
  /\ Cardinality(Reads(main, p)) + Cardinality(Reads(res, p)) < MaxRead
  /\ leaving' = leaving \ {p}
  /\ LoadFromCache(p) \/ LoadFromTable(p) \/ LoadRefused(p)
  /\ UNCHANGED <<unsaved, logins, crashes, ptab, cacheVars, row, async, res, sent>>

\* QUERY_PLAYER_SAVE: from now on the player is found in the cache.
QUERY_PLAYER_SAVE(p) ==
  /\ phase[p] = "game" /\ p \notin ptab
  /\ ptab' = ptab \cup {p}
  /\ UNCHANGED <<gameVars, sessionVars, play, leaving, cacheVars, sqlVars, sent>>

\* CHARACTER::Disconnect: the player is saved, then its items one by one
\* (FlushDelayedSaveItem, here SaveSingleItem) before anything else happens.
Disconnect(p) ==
  /\ phase[p] = "game"
  /\ phase' = [phase EXCEPT ![p] = "closing"]
  /\ ptab' = ptab \cup {p}
  /\ UNCHANGED <<gameVars, loaded, logins, crashes, play, leaving, cacheVars,
                 sqlVars, sent>>

\* QUERY_LOGOUT, after the character's items have left the core's memory, or
\* from a client that never entered the game.
QUERY_LOGOUT(p) ==
  /\ \/ phase[p] = "closing" /\ Held(p) \cap unsaved = {}
     \/ phase[p] = "select"
  /\ phase' = [phase EXCEPT ![p] = "off"]
  /\ loaded' = loaded \ {p}
  /\ item' = [i \in Item |-> IF item[i].at = p THEN [item[i] EXCEPT !.at = NoOne]
                             ELSE item[i]]
  /\ play' = play \ {p}
  /\ leaving' = leaving \cup {p}
  /\ entry' = [i \in Item |-> IF entry[i].dirty
                              THEN [entry[i] EXCEPT !.since = @ \cup {p}]
                              ELSE entry[i]]
  /\ main' = Redirect(main, {p}, "nodesc")
  /\ res' = Redirect(res, {p}, "nodesc")
  /\ UNCHANGED <<unsaved, logins, crashes, ptab, cached, hasSet, set, row, async,
                 sent>>

\* The core dies: RemovePeer logs its accounts out; what it had not sent is
\* lost, and what it had asked for is answered to nobody.
CoreCrash ==
  /\ crashes < MaxCrash
  /\ crashes' = crashes + 1
  /\ phase' = [p \in Player |-> "off"]
  /\ loaded' = {}
  /\ item' = [i \in Item |-> [item[i] EXCEPT !.at = NoOne]]
  /\ unsaved' = {}
  /\ play' = {p \in play : phase[p] = "off"}
  /\ main' = Redirect(main, Player, "nopeer")
  /\ res' = Redirect(res, Player, "nopeer")
  /\ UNCHANGED <<logins, ptab, leaving, cacheVars, row, async, sent>>

-----------------------------------------------------------------------------
(* MySQL and its results *)

Execute(i, v) == row' = [row EXCEPT ![i] = v]

RowsOf(p) == [i \in Item |-> IF row[i].owner = p THEN row[i].ver ELSE 0]

\* The worker of the main connection executes the oldest statement; a read
\* leaves its rows for the daemon.
MainExec ==
  /\ main # <<>>
  /\ main' = Tail(main)
  /\ LET q == Head(main)
     IN  CASE q.op = "write" ->
                /\ Execute(q.item, [owner |-> q.owner, ver |-> q.ver])
                /\ UNCHANGED res
           [] q.op \in {"player", "item"} ->
                /\ res' = Append(res, [op |-> q.op, owner |-> q.owner, to |-> q.to,
                                       rows |-> RowsOf(q.owner)])
                /\ UNCHANGED row
           [] OTHER -> UNCHANGED <<row, res>>
  /\ UNCHANGED <<gameVars, sessionVars, loginVars, cacheVars, async, sent>>

\* The worker of the async connection, in no order with the main one.
AsyncExec ==
  /\ async # <<>>
  /\ async' = Tail(async)
  /\ Execute(Head(async), Gone)
  /\ UNCHANGED <<gameVars, sessionVars, loginVars, cacheVars, main, res, sent>>

\* mutant: no SetPlay(true)
LoadUnmarked(p, to) ==
  /\ phase' = IF to = "desc" THEN [phase EXCEPT ![p] = "game"] ELSE phase
  /\ UNCHANGED <<play, item, loaded, cacheVars>>

\* RESULT_PLAYER_LOAD: refused when the account is in the game by now.
RESULT_PLAYER_LOAD(p, to) ==
  /\ IF p \in play THEN UNCHANGED <<play, phase>>
     ELSE /\ play' = play \cup {p}
          /\ phase' = IF to = "desc" THEN [phase EXCEPT ![p] = "game"] ELSE phase
  /\ UNCHANGED <<item, loaded, cacheVars>>

\* RESULT_ITEM_LOAD: the rows go to the core and into the cache, over whatever
\* the cache holds for them, whether or not the player was let in.
RESULT_ITEM_LOAD(p, to, rows) ==
  LET S == {i \in Item : rows[i] # 0}
  IN  /\ hasSet' = hasSet \cup {p}
      /\ cached' = cached \cup S
      /\ entry' = [i \in Item |->
                     IF i \in S
                     THEN LET d == i \in cached /\ entry[i].dirty
                          IN  [owner |-> p, ver |-> rows[i], dirty |-> d,
                               since |-> IF d THEN entry[i].since ELSE {}]
                     ELSE entry[i]]
      /\ set' = Regroup(S, p, hasSet \cup {p})
      /\ IF to = "desc" /\ phase[p] = "game" /\ p \notin loaded
         THEN loaded' = loaded \cup {p} /\ ItemLoad(p, S, rows)
         ELSE UNCHANGED <<loaded, item>>
      /\ UNCHANGED <<play, phase>>

\* AnalyzeQueryResult for the oldest result.
AnalyzeQueryResult ==
  /\ res # <<>>
  /\ res' = Tail(res)
  /\ LET m == Head(res)
     IN  CASE m.to = "nopeer" -> UNCHANGED <<item, phase, loaded, play, cacheVars>>
           [] m.to # "nopeer" /\ m.op = "player" -> RESULT_PLAYER_LOAD(m.owner, m.to)
           [] OTHER -> RESULT_ITEM_LOAD(m.owner, m.to, m.rows)
  /\ UNCHANGED <<unsaved, logins, crashes, ptab, leaving, row, main, async, sent>>

-----------------------------------------------------------------------------
(* The specification *)

\* Nobody is connected and the caches are empty, as when the daemon starts;
\* MySQL holds any items of any players.
Init ==
  /\ row \in [Item -> [owner : Player, ver : {1}] \cup {Gone}]
  /\ sent = row
  /\ item = [i \in Item |-> [at |-> NoOne, last |-> NoOne, box |-> FALSE,
                             ver |-> row[i].ver]]
  /\ unsaved = {}
  /\ phase = [p \in Player |-> "off"]
  /\ loaded = {}
  /\ logins = [p \in Player |-> 0]
  /\ crashes = 0
  /\ play = {} /\ ptab = {} /\ leaving = {}
  /\ cached = {}
  /\ entry = [i \in Item |-> [owner |-> NoOne, ver |-> 0, dirty |-> FALSE,
                             since |-> {}]]
  /\ hasSet = {}
  /\ set = [p \in Player |-> {}]
  /\ main = <<>> /\ async = <<>> /\ res = <<>>

ItemStep(i) ==
  \/ UpdateItemCache(i) \/ DropNew(i) \/ DestroyItem(i) \/ SaveSingleItem(i)

PlayerItemStep(p, i) ==
  \/ CreateItem(p, i) \/ Change(p, i) \/ DropItem(p, i) \/ PickupItem(p, i)
  \/ SafeboxCheckin(p, i) \/ SafeboxCheckout(p, i)
  \/ \E q \in Player : Exchange(p, q, i)

PlayerStep(p) ==
  \/ UpdatePlayerCache(p) \/ UpdateLogoutPlayer(p) \/ QUERY_FLUSH_CACHE(p)
  \/ Login(p) \/ QUERY_PLAYER_LOAD(p) \/ QUERY_PLAYER_SAVE(p)
  \/ Disconnect(p) \/ QUERY_LOGOUT(p)

Next ==
  \/ \E i \in Item : ItemStep(i)
  \/ \E p \in Player : PlayerStep(p)
  \/ \E p \in Player, i \in Item : PlayerItemStep(p, i)
  \/ CoreCrash \/ MainExec \/ AsyncExec \/ AnalyzeQueryResult

\* The daemon's main loop runs its timers and the workers of its connections
\* never stop; nothing is assumed of players or cores.
Fairness ==
  /\ WF_vars(MainExec) /\ WF_vars(AsyncExec) /\ WF_vars(AnalyzeQueryResult)
  /\ \A i \in Item : WF_vars(UpdateItemCache(i))

Spec == Init /\ [][Next]_vars /\ Fairness
-----------------------------------------------------------------------------
(* Properties *)

Op == {"write", "refused", "player", "item"}
To == {"desc", "nodesc", "nopeer"}
Holder == Player \cup {NoOne, Ground}

\* Types of the variables (CClientManager's maps, the core's item objects and
\* the statements of the two connections).
TypeOK ==
  /\ item \in [Item -> [at : Holder, last : Player \cup {NoOne}, box : BOOLEAN,
                         ver : 0..MaxVer]]
  /\ unsaved \subseteq Item
  /\ phase \in [Player -> {"off", "select", "game", "closing"}]
  /\ logins \in [Player -> 0..MaxLogin]
  /\ crashes \in 0..MaxCrash
  /\ {loaded, play, ptab, leaving, hasSet} \subseteq SUBSET Player
  /\ cached \subseteq Item
  /\ entry \in [Item -> [owner : Player \cup {NoOne}, ver : 0..MaxVer,
                          dirty : BOOLEAN, since : SUBSET Player]]
  /\ set \in [Player -> SUBSET Item]
  /\ row \in [Item -> Value] /\ sent \in [Item -> Value]
  /\ main \in Seq([op : Op, item : Item \cup {NoOne}, to : To,
                    owner : Player \cup {NoOne}, ver : 0..MaxVer])
  /\ async \in Seq(Item)
  /\ res \in Seq([op : {"player", "item"}, owner : Player, to : To,
                   rows : [Item -> 0..MaxVer]])

\* Every pointer in an owner's set is to a live entry of that owner: entries
\* are deleted and change hands in five handlers, and a set that keeps one too
\* long is read, flushed or deleted through a freed CItemCache.
NoDanglingEntry ==
  \A p \in Player : \A i \in set[p] :
    p \in hasSet /\ i \in cached /\ entry[i].owner = p

\* An entry with an unwritten change is in the set of its owner, so the flush at
\* logout and the one for a dropped player reach it, and a reload shows it.
DirtyReachable ==
  \A i \in cached : entry[i].dirty => entry[i].owner \in Player /\ i \in set[entry[i].owner]

Content(i) == IF entry[i].ver = 0 THEN Gone
              ELSE [owner |-> entry[i].owner, ver |-> entry[i].ver]

\* The daemon's view of an item, its entry or else the row as queued statements
\* will leave it, is the last save or destroy a core sent: across flushes,
\* dropped sets, changes of owner and reloads nothing is lost or brought back.
LastSaveWins ==
  \A i \in Item : (IF i \in cached THEN Content(i) ELSE Future(i)) = sent[i]

\* A player's account is marked as playing while the player is in a core's
\* game, so a second load of the player is refused by the cache path and by
\* the result that comes back late.
PlayingIsMarked ==
  \A p \in Player : phase[p] \in {"game", "closing"} => p \in play

\* The items a reload brings into the core are the player's, as last saved.
LoadFaithful ==
  [][\A p \in loaded' \ loaded : \A i \in Item :
       /\ item'[i].at = p <=> sent[i].owner = p
       /\ item'[i].at = p => item'[i].ver = sent[i].ver]_vars

\* The items the next ITEM_LOAD of p will name, if one can be sent now.
Offered(p) ==
  (IF phase[p] = "select" /\ p \in ptab \cap hasSet /\ p \notin play
   THEN {i \in set[p] : entry[i].ver # 0} ELSE {})
  \cup
  (IF res # <<>> /\ Head(res).op = "item" /\ Head(res).owner = p
      /\ Head(res).to = "desc" /\ phase[p] = "game" /\ p \notin loaded
   THEN {i \in Item : Head(res).rows[i] # 0} ELSE {})

\* "ITEM_ID_DUP" (item_manager.cpp:159): CreateItem is never given the id of an
\* item the core already has.
NoItemIdDup ==
  \A p \in Player : \A i \in Offered(p) : item[i].at = NoOne

\* Once cores stop sending, MySQL holds what they last sent and keeps it.
Stored == \A i \in Item : row[i] = sent[i]
Settles == <>[]Stored

=============================================================================
