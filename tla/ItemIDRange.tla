----------------------------- MODULE ItemIDRange -----------------------------
(***************************************************************************)
(* How items get their ids.  The db daemon cuts the id space into blocks   *)
(* (CItemIDRangeManager), lends each game core a current and a spare block *)
(* (CPeer), and takes the current one back when the connection closes; a   *)
(* core numbers new items from its current block and asks for a new spare  *)
(* when it moves on to the spare (ITEM_MANAGER).  A returned block is      *)
(* reopened above the highest id MySQL holds in it.                        *)
(*                                                                         *)
(* The item data is reduced to ids: those with a row in MySQL, and those   *)
(* that exist elsewhere only, in the memory of a core, on the wire, in the *)
(* item cache of the db daemon or in its query queue.                      *)
(***************************************************************************)
EXTENDS Naturals, Sequences, FiniteSets

CONSTANTS
  Core,          \* game cores
  NBlock,        \* blocks Build cuts the id space into
  BlockSize,     \* cs_dwMinimumRange
  MinRemain,     \* cs_dwMinimumRemainCount
  MayCrash,      \* cores may stop while connected
  MayReconnect,  \* the connection of a running core may fail
  MaxGive,       \* bound: ids given out
  MaxBoot,       \* bound: starts of cores
  MaxLoss        \* bound: failures of a running core's connection

ASSUME RangeAssumption ==
  /\ NBlock \in Nat /\ MaxGive \in Nat /\ MaxBoot \in Nat /\ MaxLoss \in Nat
  /\ BlockSize \in Nat \ {0, 1}
  /\ MinRemain \in 1..(BlockSize - 1)
  /\ MayCrash \in BOOLEAN /\ MayReconnect \in BOOLEAN

VARIABLES
  listData,   \* m_listData: free blocks, lent from the front
  peer,       \* db daemon: m_itemRange and m_itemSpareRange of each core's peer
  core,       \* ITEM_MANAGER of each core
  up,         \* the cores whose connection to the db daemon is up
  toDb,       \* packets from each core to the db daemon
  toCore,     \* packets from the db daemon to each core
  mysql,      \* ids with a row in the item table
  unsaved,    \* ids of items that exist, but not yet in the item table
  clash,      \* history: an id was given out that an existing item has
  orphans,    \* history: cores that ran on after their connection failed
  unflushed,  \* history: a block was taken back while it had unsaved ids
  given, boots, losses  \* how often each bounded step was taken

dbVars   == <<listData, peer>>
netVars  == <<up, toDb, toCore>>
itemVars == <<mysql, unsaved, clash, given>>
history  == <<orphans, unflushed, boots, losses>>
vars     == <<dbVars, core, netVars, itemVars, history>>

ItemID == 1..(NBlock * BlockSize)

Range(b, usable) ==
  [min |-> (b - 1) * BlockSize + 1, max |-> b * BlockSize, usable |-> usable]

NoRange == [min |-> 0, max |-> 0, usable |-> 0]

-----------------------------------------------------------------------------
(* The db daemon: CItemIDRangeManager and CPeer. *)

IdsIn(r, ids) == {i \in ids : r.min <= i /\ i <= r.max}

MaxId(ids) == CHOOSE i \in ids : \A j \in ids : j <= i

BuildRangeAsLent(r, ids) ==   \* mutant
  IF r = NoRange THEN <<>> ELSE <<r>>

\* BuildRange: the ids from the first unused one on, or nothing if too few
\* are left.  The second query, COUNT(*) above MAX(id), finds no item.
BuildRange(r, ids) ==
  LET used   == IdsIn(r, ids)
      usable == IF used = {} THEN r.min ELSE MaxId(used) + 1
  IN  IF r = NoRange \/ r.max < usable \/ r.max - usable < MinRemain
      THEN <<>>
      ELSE <<[r EXCEPT !.usable = usable]>>

UpdateRange(r) == listData' = listData \o BuildRange(r, mysql)

GetRangeKeeping(l) ==   \* mutant
  IF l = <<>> THEN [range |-> NoRange, rest |-> l]
              ELSE [range |-> Head(l), rest |-> Append(Tail(l), Head(l))]

\* One GetRange on the list l: the range it answers and the list it leaves.
\* FCheckCollision reaches for_each_peer by value, so its verdict is lost and
\* the front of the list is always taken.
GetRange(l) == IF l = <<>> THEN [range |-> NoRange, rest |-> l]
                           ELSE [range |-> Head(l), rest |-> Tail(l)]

SetIfAny(old, r) == IF r = NoRange THEN old ELSE r

\* QUERY_BOOT lends two blocks.
DbBoot(c) ==
  /\ toDb[c] # <<>> /\ Head(toDb[c]) = "boot"
  /\ LET first  == GetRange(listData)
         second == GetRange(first.rest)
     IN  /\ listData' = second.rest
         /\ peer' = [peer EXCEPT ![c] = [range |-> SetIfAny(@.range, first.range),
                                         spare |-> SetIfAny(@.spare, second.range)]]
         /\ toCore' = [toCore EXCEPT ![c] =
              Append(@, [type |-> "boot", range |-> first.range,
                         spare |-> second.range])]
  /\ toDb' = [toDb EXCEPT ![c] = Tail(@)]
  /\ UNCHANGED <<core, up, itemVars, history>>

DbSpareUnpromoted(c) ==   \* mutant
  /\ toDb[c] # <<>> /\ Head(toDb[c]) = "spare"
  /\ LET got == GetRange(listData) IN
       /\ listData' = got.rest
       /\ peer' = [peer EXCEPT ![c].spare = got.range]
  /\ toCore' = [toCore EXCEPT ![c] =
                  Append(@, [type |-> "spare", spare |-> peer'[c].spare])]
  /\ toDb' = [toDb EXCEPT ![c] = Tail(@)]
  /\ UNCHANGED <<core, up, itemVars, history>>

\* SendSpareItemIDRange: the spare becomes the current block, a new spare is
\* lent; a peer without a spare is told so.
DbSpare(c) ==
  /\ toDb[c] # <<>> /\ Head(toDb[c]) = "spare"
  /\ IF peer[c].spare = NoRange
     THEN UNCHANGED <<listData, peer>>
     ELSE LET got == GetRange(listData) IN
            /\ listData' = got.rest
            /\ peer' = [peer EXCEPT ![c] = [range |-> @.spare, spare |-> got.range]]
  /\ toCore' = [toCore EXCEPT ![c] =
                  Append(@, [type |-> "spare", spare |-> peer'[c].spare])]
  /\ toDb' = [toDb EXCEPT ![c] = Tail(@)]
  /\ UNCHANGED <<core, up, itemVars, history>>

\* CPeer::OnClose gives the current block back; the spare is not given back.
OnClose(c) ==
  /\ UpdateRange(peer[c].range)
  /\ unflushed' = (unflushed \/ IdsIn(peer[c].range, unsaved) # {})
  /\ peer' = [peer EXCEPT ![c] = [range |-> NoRange, spare |-> NoRange]]
  /\ up' = up \ {c}
  /\ toDb' = [toDb EXCEPT ![c] = <<>>]
  /\ toCore' = [toCore EXCEPT ![c] = <<>>]

-----------------------------------------------------------------------------
(* The game core: CLIENT_DESC, ITEM_MANAGER. *)

\* The first time the connection is made the core asks for its boot data.
CoreStart(c) ==
  /\ core[c].st = "off" /\ c \notin up /\ boots < MaxBoot
  /\ boots' = boots + 1
  /\ core' = [core EXCEPT ![c].st = "boot"]
  /\ up' = up \cup {c}
  /\ toDb' = [toDb EXCEPT ![c] = <<"boot">>]
  /\ UNCHANGED <<dbVars, toCore, itemVars, orphans, unflushed, losses>>

\* SetMaxItemID and SetMaxSpareItemID; without two blocks the core stops.
CoreBoot(c) ==
  /\ toCore[c] # <<>> /\ Head(toCore[c]).type = "boot"
  /\ LET p == Head(toCore[c]) IN
       core' = [core EXCEPT ![c] =
         [st    |-> IF p.range = NoRange \/ p.spare = NoRange THEN "stop" ELSE "run",
          range |-> p.range,
          spare |-> p.spare,
          id    |-> p.range.usable]]
  /\ toCore' = [toCore EXCEPT ![c] = Tail(@)]
  /\ UNCHANGED <<dbVars, up, toDb, itemVars, history>>

\* SetMaxSpareItemID on the answer to a request.
CoreSpare(c) ==
  /\ toCore[c] # <<>> /\ Head(toCore[c]).type = "spare"
  /\ core' = [core EXCEPT ![c].spare = SetIfAny(@, Head(toCore[c]).spare)]
  /\ toCore' = [toCore EXCEPT ![c] = Tail(@)]
  /\ UNCHANGED <<dbVars, up, toDb, itemVars, history>>

GiveId(id) ==
  /\ given < MaxGive
  /\ given' = given + 1
  /\ clash' = (clash \/ id \in mysql \cup unsaved)
  /\ unsaved' = unsaved \cup {id}
  /\ UNCHANGED mysql

\* CreateItem with GetNewID while the current block lasts.
CreateItem(c) ==
  /\ core[c].st = "run"
  /\ core[c].id < core[c].range.max
  /\ GiveId(core[c].id)
  /\ core' = [core EXCEPT ![c].id = @ + 1]
  /\ UNCHANGED <<dbVars, netVars, history>>

\* GetNewID at the end of the block: on to the spare, and a request for a new
\* one, which is dropped if the connection is down.
CreateItemOnSpare(c) ==
  /\ core[c].st = "run"
  /\ core[c].id >= core[c].range.max
  /\ core[c].spare # NoRange
  /\ toDb' = [toDb EXCEPT ![c] = IF c \in up THEN Append(@, "spare") ELSE @]
  /\ GiveId(core[c].spare.usable)
  /\ core' = [core EXCEPT ![c].range = core[c].spare,
                          ![c].spare = NoRange,
                          ![c].id    = core[c].spare.usable + 1]
  /\ UNCHANGED <<dbVars, up, toCore, history>>

\* GetNewID with no id left shuts the core down.
OutOfIds(c) ==
  /\ core[c].st = "run"
  /\ core[c].id >= core[c].range.max
  /\ core[c].spare = NoRange
  /\ core' = [core EXCEPT ![c].st = "stop"]
  /\ UNCHANGED <<dbVars, netVars, itemVars, history>>

\* The process of a core ends, by its own shutdown or by a crash.
CoreEnd(c) ==
  /\ \/ core[c].st = "stop"
     \/ MayCrash /\ core[c].st \in {"boot", "run"} /\ c \in up
  /\ core' = [core EXCEPT ![c] = [st |-> "off", range |-> NoRange,
                                  spare |-> NoRange, id |-> 0]]
  /\ IF c \in up THEN OnClose(c) ELSE UNCHANGED <<dbVars, netVars, unflushed>>
  /\ UNCHANGED <<itemVars, orphans, boots, losses>>

\* The connection fails under a running core, which keeps its blocks.
LinkLost(c) ==
  /\ MayReconnect /\ core[c].st = "run" /\ c \in up /\ losses < MaxLoss
  /\ losses' = losses + 1
  /\ orphans' = orphans \cup {c}
  /\ OnClose(c)
  /\ UNCHANGED <<core, itemVars, boots>>

\* CLIENT_DESC connects again: HEADER_GD_SETUP, but no second boot.
Reconnect(c) ==
  /\ core[c].st = "run" /\ c \notin up
  /\ up' = up \cup {c}
  /\ UNCHANGED <<dbVars, toDb, toCore, core, itemVars, history>>

-----------------------------------------------------------------------------
(* What happens to an item once it has its id. *)

\* The save reached the item table: CItemCache::OnFlush and its query.
Persist(id) ==
  /\ id \in unsaved
  /\ unsaved' = unsaved \ {id}
  /\ mysql' = mysql \cup {id}
  /\ UNCHANGED <<dbVars, core, netVars, clash, given, history>>

\* The item is destroyed, or was lost with the memory of a core.
Destroy(id) ==
  /\ id \in mysql \cup unsaved
  /\ mysql' = mysql \ {id} /\ unsaved' = unsaved \ {id}
  /\ UNCHANGED <<dbVars, core, netVars, clash, given, history>>

-----------------------------------------------------------------------------
\* Build on an empty item table.
Init ==
  /\ listData = [b \in 1..NBlock |-> Range(b, (b - 1) * BlockSize + 1)]
  /\ peer = [c \in Core |-> [range |-> NoRange, spare |-> NoRange]]
  /\ core = [c \in Core |-> [st |-> "off", range |-> NoRange,
                             spare |-> NoRange, id |-> 0]]
  /\ up = {}
  /\ toDb = [c \in Core |-> <<>>] /\ toCore = [c \in Core |-> <<>>]
  /\ mysql = {} /\ unsaved = {} /\ clash = FALSE
  /\ orphans = {} /\ unflushed = FALSE /\ given = 0 /\ boots = 0 /\ losses = 0

DbStep(c)   == DbBoot(c) \/ DbSpare(c)
CoreRecv(c) == CoreBoot(c) \/ CoreSpare(c)

Next ==
  \/ \E c \in Core :
       \/ DbStep(c) \/ CoreRecv(c)
       \/ CoreStart(c) \/ CreateItem(c) \/ CreateItemOnSpare(c) \/ OutOfIds(c)
       \/ CoreEnd(c) \/ LinkLost(c) \/ Reconnect(c)
  \/ \E id \in ItemID : Persist(id) \/ Destroy(id)

Spec == Init /\ [][Next]_vars

-----------------------------------------------------------------------------
\* The daemon lends a block once: whatever closes, boots and requests came
\* before, no block is twice in the free list or with two peers, and a block
\* that is lent is not free.
LentOnce ==
  /\ \A i, j \in 1..Len(listData) : i # j => listData[i].min # listData[j].min
  /\ \A c \in Core, i \in 1..Len(listData) :
       listData[i].min \notin {peer[c].range.min, peer[c].spare.min}
  /\ \A c, d \in Core : c # d =>
       {peer[c].range.min, peer[c].spare.min} \cap
       {peer[d].range.min, peer[d].spare.min} \subseteq {0}
  /\ \A c \in Core : peer[c].range.min = peer[c].spare.min => peer[c].range.min = 0

\* Once the packets between them are handled, the daemon and a core that did
\* not lose its connection agree on the blocks the core works with: the block
\* OnClose takes back is the one the core was numbering from.
InStep ==
  \A c \in Core :
    (core[c].st = "run" /\ c \in up /\ c \notin orphans
      /\ toDb[c] = <<>> /\ toCore[c] = <<>>)
    => peer[c] = [range |-> core[c].range, spare |-> core[c].spare]

\* An id is given out while an item still has it only after a core ran on
\* with blocks its daemon had taken back, or after a block was taken back
\* while some of its items had not reached MySQL.
DuplicateExplained == clash => orphans # {} \/ unflushed

\* ITEM_ID_DUP is an error: no item gets the id of an existing item.
NoItemIdDup == ~clash

=============================================================================
