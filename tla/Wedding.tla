------------------------------ MODULE Wedding ------------------------------
(***************************************************************************)
(* Couples and their weddings: the tables and timers of the db daemon       *)
(* (db/src/Marriage.cpp), the copies of the cores (game/src/marriage.cpp),  *)
(* and the private map a wedding is held on (game/src/wedding.cpp).         *)
(*                                                                         *)
(* The rows of table marriage are written by DirectQuery in the step that   *)
(* changes the daemon's map, so the map stands for both.  One core serves   *)
(* the wedding map.  Where the players are is not kept: they may log on     *)
(* anywhere between two packets, so whether both are on a core when ADD      *)
(* comes there is a free choice.  Left out: names, notices, the warps of      *)
(* WEDDING_START, m_setWedding, which only fills a menu, and love points:    *)
(* they are earned and saved by couples the core has as married only, so     *)
(* their UPDATE never takes a marriage back.                                *)
(***************************************************************************)
EXTENDS Integers, FiniteSets, Sequences, SequencesExt

CONSTANTS
    Couple,     \* couples that may form: pairs of player ids, the smaller first (Align)
    Core,
    Host,       \* the core with WEDDING_MAP_INDEX in its map_allow
    Delay,      \* 5 seconds from WEDDING_READY to the start
    Length,     \* WEDDING_LENGTH
    MaxQuest, MaxWedding, MaxFault, MaxMap  \* bounds; a fault uses up a quest and a wedding

ASSUME WeddingAssumption ==
    /\ \A k \in Couple : k \in Nat \X Nat /\ k[1] < k[2]
    /\ Host \in Core
    /\ Delay \in Nat \ {0} /\ Length \in Nat \ {0}
    /\ MaxQuest \in Nat /\ MaxWedding \in Nat /\ MaxFault \in Nat /\ MaxMap \in Nat

Map == 1 .. MaxMap

VARIABLES
    \* the daemon
    couple,     \* m_Marriages, m_MarriageByPID: "none", "engaged" or "married"
    starts,     \* m_pqWeddingStart: [left, map, pair], left = seconds from now
    ends,       \* m_pqWeddingEnd: [left, pair]
    running,    \* m_mapRunningWedding: map of the wedding, 0 for none
    \* the cores
    bond,       \* m_Marriages of the core, likewise
    info,       \* pWeddingInfo->dwMapIndex, 0 for no pWeddingInfo
    hall,       \* m_mapWedding of the host: [pair, ending]; its domain is what exists
    nextMap,    \* next_private_index_map_[WEDDING_MAP_INDEX]
    \* between them
    up,         \* the core is connected
    toDb, toCore,
    \* history
    synced,     \* the core has been told all that happened since it started
    asked,      \* couples whose present engagement has had its WEDDING_REQUEST
    doubled,    \* couples with a request too many
    parted,     \* couples dissolved other than by the end of their own wedding
    quests, weddings, faults

daemon == <<couple, starts, ends, running>>
core == <<bond, info, hall, nextMap>>
net == <<up, toDb, toCore>>
history == <<synced, asked, doubled, parted, quests, weddings, faults>>
vars == <<daemon, core, net, history>>

Nobody == [k \in Couple |-> "none"]
Nowhere == [k \in Couple |-> 0]
Nothing == [c \in Core |-> <<>>]

Init ==
    /\ couple = Nobody /\ starts = {} /\ ends = {} /\ running = Nowhere
    /\ bond = [c \in Core |-> Nobody] /\ info = [c \in Core |-> Nowhere]
    /\ hall = <<>> /\ nextMap = 1
    /\ up = [c \in Core |-> TRUE] /\ toDb = Nothing /\ toCore = Nothing
    /\ synced = [c \in Core |-> TRUE]
    /\ asked = {} /\ doubled = {} /\ parted = {} /\ quests = 0 /\ weddings = 0 /\ faults = 0

\* A packet: what it is, the couple, and a map or a status where it has one.
Packet(op, k) == [op |-> op, pair |-> k]
Ready(k, m) == [op |-> "ready", pair |-> k, map |-> m]
Update(k, s) == [op |-> "update", pair |-> k, status |-> s]

\* IsMarried of the daemon, IsEngagedOrMarried of a core: for either of the two.
Taken(of, k) == \E l \in Couple : of[l] # "none" /\ {l[1], l[2]} \cap {k[1], k[2]} # {}

\* DBPacket: lost without a connection.
Send(queues, c, p) == IF up[c] THEN [queues EXCEPT ![c] = Append(@, p)] ELSE queues
\* ForwardPacket: to every connected core.
Forward(packets) == [c \in Core |-> IF up[c] THEN toCore[c] \o packets ELSE toCore[c]]

-----------------------------------------------------------------------------
(* What the quests of the players on a core ask *)

Quest(c, p) ==
    /\ quests + faults < MaxQuest /\ quests' = quests + 1
    /\ toDb' = Send(toDb, c, p)
    /\ UNCHANGED <<daemon, info, hall, nextMap, up, toCore, synced, asked, doubled, parted,
                   weddings, faults>>

RequestAdd(c, k) == Quest(c, Packet("add", k)) /\ UNCHANGED bond

\* By the quest, or by a game master who breaks off a couple his core knows.
RequestRemove(c, k) ==
    bond[c][k] # "none" /\ Quest(c, Packet("remove", k)) /\ UNCHANGED bond

RequestEndWedding(c, k) ==
    info[c][k] # 0 /\ Quest(c, Packet("end", k)) /\ UNCHANGED bond

\* SetMarried changes the core's own copy at once.
SetMarried(c, k) ==
    /\ bond[c][k] # "none"
    /\ bond' = [bond EXCEPT ![c][k] = "married"]
    /\ Quest(c, Update(k, "married"))

-----------------------------------------------------------------------------
(* The daemon's handlers.  The timer comes first in the loop, and what it    *)
(* finds due is done before the next packet.                                *)

Due == \E e \in starts \cup ends : e.left = 0

Handle(c, op) ==
    /\ toDb[c] # <<>> /\ Head(toDb[c]).op = op /\ ~Due
    /\ toDb' = [toDb EXCEPT ![c] = Tail(@)]
    /\ UNCHANGED <<core, up, synced, quests, weddings, faults>>

MarriageAdd(c) ==
    /\ Handle(c, "add")
    /\ LET k == Head(toDb[c]).pair
       IN IF Taken(couple, k) THEN UNCHANGED <<couple, toCore, asked>>
          ELSE /\ couple' = [couple EXCEPT ![k] = "engaged"]
               /\ toCore' = Forward(<<Packet("add", k)>>)
               /\ asked' = asked \ {k}
    /\ UNCHANGED <<starts, ends, running, doubled, parted>>

\* An UPDATE that changes no row is not forwarded (love points aside).
MarriageUpdate(c) ==
    /\ Handle(c, "update")
    /\ LET p == Head(toDb[c])
       IN IF couple[p.pair] \in {"none", p.status} THEN UNCHANGED <<couple, toCore>>
          ELSE /\ couple' = [couple EXCEPT ![p.pair] = p.status]
               /\ toCore' = Forward(<<p>>)
    /\ UNCHANGED <<starts, ends, running, asked, doubled, parted>>

MarriageRemove(c) ==
    /\ Handle(c, "remove")
    /\ LET p == Head(toDb[c])
       IN IF couple[p.pair] = "none" THEN UNCHANGED <<couple, toCore, parted>>
          ELSE /\ couple' = [couple EXCEPT ![p.pair] = "none"]
               /\ toCore' = Forward(<<p>>)
               /\ parted' = parted \cup {p.pair}
    /\ UNCHANGED <<starts, ends, running, asked, doubled>>

WeddingRequest(c) ==
    /\ Handle(c, "request")
    /\ LET p == Head(toDb[c])
       IN /\ toCore' = Forward(<<p>>)
          /\ asked' = asked \cup {p.pair}
          /\ doubled' = IF p.pair \in asked \/ couple[p.pair] = "none"
                        THEN doubled \cup {p.pair} ELSE doubled
    /\ UNCHANGED <<daemon, parted>>

WeddingReady(c) ==
    /\ Handle(c, "ready")
    /\ LET p == Head(toDb[c])
       IN /\ toCore' = Forward(<<p>>)
          /\ starts' = starts \cup {[left |-> Delay, map |-> p.map, pair |-> p.pair]}
    /\ UNCHANGED <<couple, ends, running, asked, doubled, parted>>

EndWedding(c) ==
    /\ Handle(c, "end")
    /\ LET p == Head(toDb[c])
       IN IF running[p.pair] = 0 THEN UNCHANGED <<running, toCore>>
          ELSE /\ running' = [running EXCEPT ![p.pair] = 0]
               /\ toCore' = Forward(<<p>>)
    /\ UNCHANGED <<couple, starts, ends, asked, doubled, parted>>

DaemonReads(c) ==
    \/ MarriageAdd(c) \/ MarriageUpdate(c) \/ MarriageRemove(c)
    \/ WeddingRequest(c) \/ WeddingReady(c) \/ EndWedding(c)

-----------------------------------------------------------------------------
(* CManager::Update of the daemon: ends before starts *)

\* The couple the first player is in by now, not only the one whose wedding ends.
Engaged(pid) == {k \in Couple : pid \in {k[1], k[2]} /\ couple[k] = "engaged"}

\* mutant: an engagement that ends with its wedding is not announced
EndQuietly(e) ==
    /\ e \in ends /\ e.left = 0 /\ ends' = ends \ {e}
    /\ IF running[e.pair] = 0 THEN UNCHANGED <<couple, running, toCore, parted>>
       ELSE /\ running' = [running EXCEPT ![e.pair] = 0]
            /\ \E gone \in {{}, Engaged(e.pair[1])} :
                  /\ couple' = [k \in Couple |-> IF k \in gone THEN "none" ELSE couple[k]]
                  /\ toCore' = Forward(<<Packet("end", e.pair)>>)
                  /\ parted' = parted \cup (gone \ {e.pair})
    /\ UNCHANGED <<starts, core, up, toDb, synced, asked, doubled, quests, weddings, faults>>

\* The first id is read from the entry just erased: freed memory that may or may not
\* still hold it.
EndDue(e) ==
    /\ e \in ends /\ e.left = 0 /\ ends' = ends \ {e}
    /\ IF running[e.pair] = 0 THEN UNCHANGED <<couple, running, toCore, parted>>
       ELSE /\ running' = [running EXCEPT ![e.pair] = 0]
            /\ \E gone \in {{}, Engaged(e.pair[1])} :
                  /\ couple' = [k \in Couple |-> IF k \in gone THEN "none" ELSE couple[k]]
                  /\ toCore' = Forward(<<Packet("end", e.pair)>>
                                       \o SetToSeq({Packet("remove", k) : k \in gone}))
                  /\ parted' = parted \cup (gone \ {e.pair})
    /\ UNCHANGED <<starts, core, up, toDb, synced, asked, doubled, quests, weddings, faults>>

\* insert does not replace the wedding of a couple that has one.
StartDue(s) ==
    /\ s \in starts /\ s.left = 0 /\ \A e \in ends : e.left # 0
    /\ starts' = starts \ {s}
    /\ ends' = ends \cup {[left |-> Length, pair |-> s.pair]}
    /\ running' = IF running[s.pair] = 0 THEN [running EXCEPT ![s.pair] = s.map] ELSE running
    /\ UNCHANGED <<couple, core, net, history>>

Timer == (\E e \in ends : EndDue(e)) \/ (\E s \in starts : StartDue(s))

Tick ==
    /\ ~Due /\ starts \cup ends # {}
    /\ starts' = {[s EXCEPT !.left = @ - 1] : s \in starts}
    /\ ends' = {[e EXCEPT !.left = @ - 1] : e \in ends}
    /\ UNCHANGED <<couple, running, core, net, history>>

-----------------------------------------------------------------------------
(* The cores' handlers *)

Receive(c, op) ==
    /\ toCore[c] # <<>> /\ Head(toCore[c]).op = op
    /\ toCore' = [toCore EXCEPT ![c] = Tail(@)]
    /\ UNCHANGED <<daemon, up, synced, asked, doubled, parted, quests, faults>>

\* A core that has both players asks for their wedding.
CoreAdd(c) ==
    /\ Receive(c, "add")
    /\ LET k == Head(toCore[c]).pair
       IN IF Taken(bond[c], k) THEN UNCHANGED <<bond, toDb, weddings>>
          ELSE /\ bond' = [bond EXCEPT ![c][k] = "engaged"]
               /\ \/ UNCHANGED <<toDb, weddings>>
                  \/ /\ weddings + faults < MaxWedding /\ weddings' = weddings + 1
                     /\ toDb' = Send(toDb, c, Packet("request", k))
    /\ UNCHANGED <<info, hall, nextMap>>

CoreUpdate(c) ==
    /\ Receive(c, "update")
    /\ LET p == Head(toCore[c])
       IN bond' = IF bond[c][p.pair] = "none" THEN bond
                  ELSE [bond EXCEPT ![c][p.pair] = p.status]
    /\ UNCHANGED <<info, hall, nextMap, toDb, weddings>>

\* mutant: pWeddingInfo outlives the couple
RemoveBond(c) ==
    /\ Receive(c, "remove")
    /\ bond' = [bond EXCEPT ![c][Head(toCore[c]).pair] = "none"]
    /\ UNCHANGED <<info, hall, nextMap, toDb, weddings>>

\* pWeddingInfo goes with the couple; the wedding map does not.
CoreRemove(c) ==
    /\ Receive(c, "remove")
    /\ LET k == Head(toCore[c]).pair
       IN bond' = [bond EXCEPT ![c][k] = "none"] /\ info' = [info EXCEPT ![c][k] = 0]
    /\ UNCHANGED <<hall, nextMap, toDb, weddings>>

CoreRequest(c) ==
    /\ Receive(c, "request")
    /\ IF c # Host THEN UNCHANGED <<hall, nextMap, toDb>>
       ELSE LET k == Head(toCore[c]).pair
            IN /\ hall' = [m \in DOMAIN hall \cup {nextMap} |->
                              IF m = nextMap THEN [pair |-> k, ending |-> FALSE] ELSE hall[m]]
               /\ nextMap' = nextMap + 1
               /\ toDb' = Send(toDb, c, Ready(k, nextMap))
    /\ UNCHANGED <<bond, info, weddings>>

CoreReady(c) ==
    /\ Receive(c, "ready")
    /\ LET p == Head(toCore[c])
       IN info' = IF bond[c][p.pair] = "none" THEN info
                  ELSE [info EXCEPT ![c][p.pair] = p.map]
    /\ UNCHANGED <<bond, hall, nextMap, toDb, weddings>>

\* mutant: the host forgets the map before it is told to end
ForgetWedding(c) ==
    /\ Receive(c, "end")
    /\ info' = [info EXCEPT ![c][Head(toCore[c]).pair] = 0]
    /\ UNCHANGED <<bond, hall, nextMap, toDb, weddings>>

\* On the host the map is told to end first; without it pWeddingInfo stays.
CoreEnd(c) ==
    /\ Receive(c, "end")
    /\ LET k == Head(toCore[c]).pair
           m == info[c][k]
       IN IF bond[c][k] = "none" \/ m = 0 \/ (c = Host /\ m \notin DOMAIN hall)
          THEN UNCHANGED <<info, hall>>
          ELSE /\ info' = [info EXCEPT ![c][k] = 0]
               /\ hall' = IF c = Host THEN [hall EXCEPT ![m].ending = TRUE] ELSE hall
    /\ UNCHANGED <<bond, nextMap, toDb, weddings>>

CoreReads(c) ==
    \/ CoreAdd(c) \/ CoreUpdate(c) \/ CoreRemove(c)
    \/ CoreRequest(c) \/ CoreReady(c) \/ CoreEnd(c)

\* wedding_end_event, after everybody was sent home.
DestroyWeddingMap(m) ==
    /\ m \in DOMAIN hall /\ hall[m].ending
    /\ hall' = [n \in DOMAIN hall \ {m} |-> hall[n]]
    /\ UNCHANGED <<daemon, bond, info, nextMap, net, history>>

-----------------------------------------------------------------------------
(* Lost connections and restarts *)

Fault ==
    /\ faults < MaxFault /\ quests + faults < MaxQuest /\ faults' = faults + 1
    /\ UNCHANGED <<asked, doubled, parted, quests, weddings>>

Cut(c) ==
    /\ up' = [up EXCEPT ![c] = FALSE]
    /\ toDb' = [toDb EXCEPT ![c] = <<>>] /\ toCore' = [toCore EXCEPT ![c] = <<>>]

LinkDrops(c) ==
    /\ Fault /\ up[c] /\ Cut(c)
    /\ synced' = [synced EXCEPT ![c] = FALSE]
    /\ UNCHANGED <<daemon, core>>

CoreCrash(c) ==
    /\ Fault /\ Cut(c)
    /\ synced' = [synced EXCEPT ![c] = TRUE]
    /\ bond' = [bond EXCEPT ![c] = Nobody] /\ info' = [info EXCEPT ![c] = Nowhere]
    /\ IF c = Host THEN hall' = <<>> /\ nextMap' = 1 ELSE UNCHANGED <<hall, nextMap>>
    /\ UNCHANGED daemon

\* Initialize deletes the couples that were not married yet.
DaemonRestart ==
    /\ Fault
    /\ couple' = [k \in Couple |-> IF couple[k] = "engaged" THEN "none" ELSE couple[k]]
    /\ starts' = {} /\ ends' = {} /\ running' = Nowhere
    /\ up' = [c \in Core |-> FALSE] /\ toDb' = Nothing /\ toCore' = Nothing
    /\ synced' = [c \in Core |-> FALSE]
    /\ UNCHANGED core

\* OnSetup: the couples, then the weddings that have started.
Setup ==
    LET known == SetToSeq({k \in Couple : couple[k] # "none"})
        begun == SetToSeq({k \in Couple : running[k] # 0})
    IN [i \in 1 .. 2 * Len(known) |->
           LET k == known[(i + 1) \div 2]
           IN IF i % 2 = 1 THEN Packet("add", k) ELSE Update(k, couple[k])]
       \o [i \in 1 .. Len(begun) |-> Ready(begun[i], running[begun[i]])]

Reconnect(c) ==
    /\ ~up[c] /\ up' = [up EXCEPT ![c] = TRUE]
    /\ toCore' = [toCore EXCEPT ![c] = Setup]
    /\ UNCHANGED <<daemon, core, toDb, history>>

-----------------------------------------------------------------------------
Next ==
    \/ \E c \in Core, k \in Couple :
          \/ RequestAdd(c, k) \/ RequestRemove(c, k)
          \/ RequestEndWedding(c, k) \/ SetMarried(c, k)
    \/ \E c \in Core : DaemonReads(c) \/ CoreReads(c)
    \/ Timer \/ Tick
    \/ \E m \in Map : DestroyWeddingMap(m)
    \/ \E c \in Core : LinkDrops(c) \/ CoreCrash(c) \/ Reconnect(c)
    \/ DaemonRestart

Spec == Init /\ [][Next]_vars

-----------------------------------------------------------------------------
(* Properties *)

On(queue, op, k) == \E i \in 1 .. Len(queue) : queue[i].op = op /\ queue[i].pair = k

\* The copies agree: a core that missed nothing, and has no packet about a couple
\* waiting in either direction, has the couple as the daemon has it, through every
\* order of engagements, weddings and divorces asked for on different cores.
Agree ==
    \A c \in Core, k \in Couple :
        \/ bond[c][k] = couple[k]
        \/ ~up[c] \/ ~synced[c]
        \/ \E op \in {"add", "update", "remove"} : On(toCore[c], op, k)
        \/ On(toDb[c], "update", k)

\* A core that shows a wedding will be told of its end: the daemon has it waiting or
\* running, or the packet that takes it away is on its way.  (A host that crashed keeps
\* pWeddingInfo of a map it no longer has, since the end of it is an error there.)
WeddingIsReal ==
    \A c \in Core, k \in Couple :
        /\ info[c][k] # 0 /\ up[c] /\ synced[c]
        /\ c = Host => faults = 0
        => \/ running[k] # 0
           \/ \E s \in starts : s.pair = k
           \/ On(toCore[c], "end", k) \/ On(toCore[c], "remove", k)

\* No wedding map stays open for good unless its couple was parted other than by the
\* end of the wedding, was asked for twice, or something failed: in these cases nobody
\* may be left who ends it.  Otherwise the READY, the start, the end or the END that
\* leads there is waiting, and the host will know the map when END comes.
Excused(k) == faults > 0 \/ k \in parted \/ k \in doubled
WillKnow(k, m) ==
    \/ info[Host][k] = m
    \/ \E i \in 1 .. Len(toCore[Host]) : toCore[Host][i] = Ready(k, m)
HallWillClose ==
    \A m \in DOMAIN hall :
        LET k == hall[m].pair
        IN \/ hall[m].ending \/ Excused(k)
           \/ \E i \in 1 .. Len(toDb[Host]) : toDb[Host][i] = Ready(k, m)
           \/ /\ WillKnow(k, m)
              /\ \/ \E s \in starts : s.pair = k /\ s.map = m
                 \/ running[k] = m /\ \E e \in ends : e.pair = k
                 \/ On(toCore[Host], "end", k)
=============================================================================
