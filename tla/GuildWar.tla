------------------------------ MODULE GuildWar ------------------------------
(***************************************************************************)
(* Wars between guilds: the reservations, bets and wars of CGuildManager   *)
(* and CGuildWarReserve (db/src/GuildManager.cpp), the packets a core and   *)
(* the daemon exchange about them, and what a core makes of them           *)
(* (game/src/guild_war.cpp, guild_manager.cpp).                            *)
(*                                                                         *)
(* A war is named by its pair of guilds.  Both guilds of a pair are kept   *)
(* as one entry, since every packet changes both; a pair always fights the *)
(* same kind of war, and no guild is in two pairs, so UnderAnyWar is only   *)
(* about the pair.  Every core gets the same packets, so one is kept.      *)
(* The price of a war is 0 in every row of KOR_aGuildWarInfo, so no gold   *)
(* is taken for it; scores, ladder points and notices are left out.  One   *)
(* player bets on each reservation.                                        *)
(***************************************************************************)
EXTENDS Integers, FiniteSets, Sequences, SequencesExt

CONSTANTS
    War,            \* pairs of guilds, numbered as their ids compare
    Kind,           \* "field", "battle" or "flag"
    Reservation,    \* ids of guild_war_reservation
    NoReservation, NoRow,
    ReserveTime,    \* GetGuildWarReserveSeconds
    WaitTime,       \* GetGuildWarWaitStartDuration
    FieldTime,      \* GUILD_WAR_DURATION
    MapTime,        \* 172800 seconds
    MaxTime, MaxRequest, MaxFault, MaxStart    \* bounds

\* A row of guild_war_reservation.
Row == [war : War, at : Nat, started : BOOLEAN, winner : BOOLEAN]

ASSUME GuildWarAssumption ==
    /\ War \subseteq Nat /\ IsFiniteSet(War)
    /\ Kind \in [War -> {"field", "battle", "flag"}]
    /\ Reservation \subseteq Nat \ {0} /\ IsFiniteSet(Reservation)
    /\ NoReservation \notin Reservation /\ NoRow \notin Row
    /\ ReserveTime \in Nat /\ WaitTime \in Nat /\ FieldTime \in Nat /\ MapTime \in Nat
    /\ MaxTime \in Nat /\ MaxRequest \in Nat /\ MaxFault \in Nat /\ MaxStart \in Nat

VARIABLES
    now,
    \* the database
    row,        \* guild_war_reservation, by id; NoRow before the INSERT
    staked,     \* reservations with a row in guild_war_bet
    paid,       \* INSERTs into item_award for the stake of a reservation
    \* the daemon
    declared,   \* m_DeclareMap
    reserve,    \* m_map_kWarReserve, with bStarted of each
    waiting,    \* m_pqWaitStart: [at, res]
    fight,      \* m_WarMap: [clock, res] of each war
    onWar,      \* elements of m_pqOnWar that are not ended: [id, war, at]
    sql,        \* jobs of the async connection: statements one function gave it
    \* the core
    enemy,      \* state in m_EnemyGuild
    listed,     \* m_GuildWar
    \* between them
    up,         \* the connection stands
    gd, dg,     \* packets to the daemon, to the core
    \* history
    begun,      \* how often the war of a reservation was started
    crowded,    \* two wars waited for their start when one was due
    starts, requests, faults

db == <<row, staked, paid>>
daemon == <<declared, reserve, waiting, fight, onWar, sql>>
core == <<enemy, listed>>
net == <<up, gd, dg>>
history == <<begun, crowded, starts, requests, faults>>
vars == <<now, db, daemon, core, net, history>>

State == {"none", "declared", "reserved", "on"}
FromCore == {"declare", "refuse", "accept", "over", "draw", "end", "cancel"}
ToCore == {"declare", "refuse", "reserve", "wait", "on", "end", "over", "cancel"}
\* What stands for a war without an entry in m_WarMap.
NoWar == [clock |-> <<>>, res |-> NoReservation]

Statement == [op : {"start", "settle", "pay"}, res : Reservation]
Clock == (Reservation \X {0}) \cup ({0} \X (0 .. MaxStart))

TypeOK ==
    /\ now \in 0 .. MaxTime
    /\ row \in [Reservation -> Row \cup {NoRow}]
    /\ staked \subseteq Reservation
    /\ paid \in [Reservation -> Nat]
    /\ declared \subseteq War
    /\ reserve \in [Reservation -> {"no", "waits", "started"}]
    /\ waiting \subseteq [at : Nat, res : Reservation]
    /\ fight \in [War -> [clock : Clock, res : Reservation \cup {NoReservation}] \cup {NoWar}]
    /\ onWar \subseteq [id : Clock, war : War, at : Nat]
    /\ sql \in Seq(Seq(Statement))
    /\ enemy \in [War -> State]
    /\ listed \subseteq War
    /\ up \in BOOLEAN
    /\ gd \in Seq([op : FromCore, war : War])
    /\ dg \in Seq([op : ToCore, war : War])
    /\ begun \in [Reservation -> Nat]
    /\ crowded \in BOOLEAN
    /\ starts \in 0 .. MaxStart /\ requests \in 0 .. MaxRequest /\ faults \in 0 .. MaxFault

Init ==
    /\ now = 0
    /\ row = [r \in Reservation |-> NoRow] /\ staked = {} /\ paid = [r \in Reservation |-> 0]
    /\ declared = {} /\ reserve = [r \in Reservation |-> "no"] /\ waiting = {}
    /\ fight = [w \in War |-> NoWar] /\ onWar = {} /\ sql = <<>>
    /\ enemy = [w \in War |-> "none"] /\ listed = {}
    /\ up = TRUE /\ gd = <<>> /\ dg = <<>>
    /\ begun = [r \in Reservation |-> 0] /\ crowded = FALSE
    /\ starts = 0 /\ requests = 0 /\ faults = 0

Msg(op, w) == [op |-> op, war |-> w]

\* One packet per war, in any order: packets about different wars commute.
Msgs(op, ws) == SetToSeq({Msg(op, w) : w \in ws})

\* ForwardPacket and for_each_peer: only to a core that is connected.
Forward(packets) == dg' = IF up THEN dg \o packets ELSE dg

-----------------------------------------------------------------------------
(* The core asks *)

Request(op, w) ==
    /\ requests < MaxRequest /\ requests' = requests + 1
    /\ gd' = IF up THEN Append(gd, Msg(op, w)) ELSE gd
    /\ UNCHANGED <<now, db, daemon, core, up, dg, begun, crowded, starts, faults>>

\* do_war and RequestDeclareWar; the other guild accepts with the same command.
RequestDeclareWar(w) == enemy[w] = "none" /\ Request("declare", w)
AcceptWar(w) == enemy[w] = "declared" /\ Request("accept", w)

RequestRefuseWar(w) == enemy[w] = "declared" /\ Request("refuse", w)

\* The war map asks: somebody won, or nobody was left.
RequestWarOver(w, op) ==
    /\ op \in {"over", "draw"}
    /\ enemy[w] = "on" /\ Kind[w] # "field"
    /\ Request(op, w)

\* A game master stops a war or calls it off; also a war map that cannot be made.
RequestEndWar(w) == Request("end", w)
RequestCancelWar(w) == Request("cancel", w)

-----------------------------------------------------------------------------
(* The daemon answers *)

Do(ops, r) == [i \in 1 .. Len(ops) |-> [op |-> ops[i], res |-> r]]

\* mutant: the award is written before the result
DrawPaidFirst(r) == IF r \in staked THEN Do(<<"pay", "settle">>, r) ELSE Do(<<"settle">>, r)

\* CGuildWarReserve::Draw: the result, then the stakes back.
Draw(r) == IF r \in staked THEN Do(<<"settle", "pay">>, r) ELSE Do(<<"settle">>, r)

\* CGuildWarReserve::End: the player may have bet on the other guild.
End(r, won) == IF won THEN Draw(r) ELSE Do(<<"settle">>, r)

\* RemoveWar marks the element of the war as ended, so its time does not count.
RemoveWar(w) ==
    /\ fight' = [fight EXCEPT ![w] = NoWar]
    /\ onWar' = {e \in onWar : fight[w] = NoWar \/ e.id # fight[w].clock}

Receive(w, op) ==
    /\ gd # <<>> /\ Head(gd) = Msg(op, w)
    /\ gd' = Tail(gd)
    /\ UNCHANGED <<now, row, staked, paid, core, up, crowded, requests>>

AddDeclare(w) ==
    /\ Receive(w, "declare")
    /\ declared' = declared \cup {w}
    /\ Forward(<<Msg("declare", w)>>)
    /\ UNCHANGED <<reserve, waiting, fight, onWar, sql, begun, starts, faults>>

RemoveDeclare(w) ==
    /\ Receive(w, "refuse")
    /\ declared' = declared \ {w}
    /\ Forward(<<Msg("refuse", w)>>)
    /\ UNCHANGED <<reserve, waiting, fight, onWar, sql, begun, starts, faults>>

\* GUILD_WAR_ON_WAR of a war in the field, without a reservation.
StartFieldWar(w) ==
    /\ Kind[w] = "field" /\ Receive(w, "accept")
    /\ starts < MaxStart /\ starts' = starts + 1
    /\ declared' = declared \ {w}
    /\ fight' = [fight EXCEPT ![w] = [clock |-> <<0, starts>>, res |-> NoReservation]]
    /\ onWar' = onWar \cup {[id |-> <<0, starts>>, war |-> w, at |-> now + FieldTime]}
    /\ Forward(<<Msg("on", w)>>)
    /\ UNCHANGED <<reserve, waiting, sql, begun, faults>>

ReserveWar(w, r) ==
    /\ Kind[w] # "field"
    /\ gd # <<>> /\ Head(gd) = Msg("accept", w) /\ gd' = Tail(gd)
    /\ row[r] = NoRow /\ \A s \in Reservation : s < r => row[s] # NoRow
    /\ declared' = declared \ {w}
    /\ row' = [row EXCEPT ![r] = [war |-> w, at |-> now + ReserveTime,
                                  started |-> FALSE, winner |-> FALSE]]
    /\ reserve' = [reserve EXCEPT ![r] = "waits"]
    /\ Forward(<<Msg("reserve", w)>>)
    /\ UNCHANGED <<now, staked, paid, waiting, fight, onWar, sql, core, up, history>>

\* The row cannot be inserted: the core is told to call the war off.
ReserveWarFails(w) ==
    /\ Kind[w] # "field"
    /\ Receive(w, "accept")
    /\ faults < MaxFault /\ faults' = faults + 1
    /\ declared' = declared \ {w}
    /\ Forward(<<Msg("cancel", w)>>)
    /\ UNCHANGED <<reserve, waiting, fight, onWar, sql, begun, starts>>

\* What RecvWarOver does with the bets of the war.
Settlement(w, op, won) ==
    IF fight[w] = NoWar \/ fight[w].res = NoReservation THEN <<>>
    ELSE IF op = "draw" THEN <<Draw(fight[w].res)>>
    ELSE IF Kind[w] = "battle" THEN <<End(fight[w].res, won)>>
    ELSE <<>>

RecvWarOver(w, op, won) ==
    /\ op \in {"over", "draw"} /\ Receive(w, op)
    /\ sql' = sql \o Settlement(w, op, won)
    /\ RemoveWar(w)
    /\ Forward(<<Msg("over", w)>>)
    /\ UNCHANGED <<declared, reserve, waiting, begun, starts, faults>>

\* mutant: END is not sent back, as it came from a core
WarEndSilent(w) == Forward(<<>>)

\* The daemon's own END goes to every core, if there was a war.
WarEnd(w) == Forward(IF fight[w] = NoWar THEN <<>> ELSE <<Msg("end", w)>>)

RecvWarEnd(w) ==
    /\ Receive(w, "end")
    /\ RemoveWar(w)
    /\ WarEnd(w)
    /\ UNCHANGED <<declared, reserve, waiting, sql, begun, starts, faults>>

CancelWar(w) ==
    /\ Receive(w, "cancel")
    /\ declared' = declared \ {w}
    /\ RemoveWar(w)
    /\ Forward(<<Msg("cancel", w)>>)
    /\ UNCHANGED <<reserve, waiting, sql, begun, starts, faults>>

\* CGuildWarReserve::Bet: the bet is in the database before anything else.
Bet(r) ==
    /\ reserve[r] = "waits" /\ r \notin staked
    /\ staked' = staked \cup {r}
    /\ UNCHANGED <<now, row, paid, daemon, core, net, history>>

-----------------------------------------------------------------------------
(* Once a second: CGuildManager::Update *)

\* mutant: the reservation is not marked as started
MarkedNot(due) == reserve

\* ProcessReserveWar: bStarted
Marked(due) == [r \in Reservation |-> IF r \in due THEN "started" ELSE reserve[r]]

\* The order of the priority queue.
Before(d, e) ==
    \/ d.at < e.at
    \/ d.at = e.at /\ row[d.res].war < row[e.res].war
    \/ d.at = e.at /\ row[d.res].war = row[e.res].war /\ d.res < e.res

\* d is started when e is popped from the queue.  ws refers to the top of the
\* queue and is read after the pop, when the next entry is the top; only the
\* last entry is still found where it was.
Popped(queue, e, d) ==
    IF \E c \in queue : Before(e, c)
    THEN Before(e, d) /\ \A c \in queue : Before(e, c) => ~Before(c, d)
    ELSE d = e

\* Reservations whose time has come, the wars that wait for their start, those among
\* them that start now, and the wars whose time is over.
Due == {r \in Reservation : reserve[r] = "waits" /\ row[r].at <= now + 1}
Queue == waiting \cup {[at |-> now + 1 + WaitTime, res |-> r] : r \in Due}
Ready == {e \in Queue : e.at <= now + 1}
Ended == {e.war : e \in {x \in onWar : x.at <= now + 1}} \cap {w \in War : fight[w] # NoWar}

WarOf(d) == row[d.res].war
Begins(top) == {WarOf(top[e]) : e \in Ready}

\* top: what each pop starts; last: which pop starts a war last.
Update(top, last) ==
    /\ \A e \in Ready : Popped(Queue, e, top[e])
    /\ \A w \in Begins(top) : /\ WarOf(top[last[w]]) = w
                              /\ \A e \in Ready : WarOf(top[e]) = w =>
                                     e = last[w] \/ Before(e, last[w])
    /\ reserve' = Marked(Due)
    /\ sql' = sql \o SetToSeq({Do(<<"start">>, r) : r \in Due})
    /\ waiting' = Queue \ Ready
    /\ fight' = [w \in War |->
                   IF w \in Begins(top) THEN [clock |-> <<last[w].res, 0>>, res |-> top[last[w]].res]
                   ELSE IF w \in Ended THEN NoWar ELSE fight[w]]
    /\ onWar' = {e \in onWar : e.at > now + 1 /\ (e.war \in Ended => e.id # fight[e.war].clock)}
                \cup {[id |-> <<e.res, 0>>, war |-> WarOf(top[e]), at |-> now + 1 + MapTime] :
                         e \in Ready}
    /\ Forward(Msgs("wait", {row[r].war : r \in Due}) \o Msgs("end", Ended)
               \o Msgs("on", Begins(top)))
    /\ begun' = [r \in Reservation |-> begun[r] + Cardinality({e \in Ready : top[e].res = r})]
    /\ crowded' = (crowded \/ (Ready # {} /\ Cardinality({e.res : e \in Queue}) > 1))

Heartbeat ==
    /\ now < MaxTime
    /\ now' = now + 1
    /\ \E top \in [Ready -> Queue] : \E last \in [Begins(top) -> Ready] : Update(top, last)
    /\ UNCHANGED <<db, declared, core, up, gd, starts, requests, faults>>

\* The async connection executes the next statement.
ExecuteQuery ==
    /\ sql # <<>>
    /\ sql' = IF Len(Head(sql)) = 1 THEN Tail(sql) ELSE [sql EXCEPT ![1] = Tail(@)]
    /\ LET s == Head(Head(sql))
       IN  \/ s.op = "start" /\ row' = [row EXCEPT ![s.res].started = TRUE] /\ UNCHANGED paid
           \/ /\ s.op = "settle" /\ UNCHANGED paid
              /\ row' = [row EXCEPT ![s.res].started = TRUE, ![s.res].winner = TRUE]
           \/ s.op = "pay" /\ paid' = [paid EXCEPT ![s.res] = @ + 1] /\ UNCHANGED row
    /\ UNCHANGED <<now, staked, declared, reserve, waiting, fight, onWar, core, net, history>>

-----------------------------------------------------------------------------
(* The core follows *)

Handle(w, op) ==
    /\ up /\ dg # <<>> /\ Head(dg) = Msg(op, w)
    /\ dg' = Tail(dg)
    /\ UNCHANGED <<now, db, daemon, up, gd, history>>

\* EndWar does nothing for a war that is not in the list.
EndWar(w) ==
    /\ enemy' = [enemy EXCEPT ![w] = IF w \in listed THEN "none" ELSE @]
    /\ listed' = listed \ {w}

DeclareWar(w) ==
    /\ Handle(w, "declare")
    /\ enemy' = [enemy EXCEPT ![w] = IF @ = "none" THEN "declared" ELSE @]
    /\ UNCHANGED listed

RefuseWar(w) ==
    /\ Handle(w, "refuse")
    /\ enemy' = [enemy EXCEPT ![w] = IF @ = "declared" THEN "none" ELSE @]
    /\ UNCHANGED listed

\* ReserveWar takes over whatever state there was.
CoreReserveWar(w) ==
    /\ Handle(w, "reserve")
    /\ enemy' = [enemy EXCEPT ![w] = "reserved"]
    /\ UNCHANGED listed

\* GUILD_WAR_WAIT_START counts as reserved: nothing tells them apart.
WaitStartWar(w) ==
    /\ Handle(w, "wait")
    /\ enemy' = [enemy EXCEPT ![w] = IF @ = "none" THEN @ ELSE "reserved"]
    /\ UNCHANGED listed

\* A war no guild has an entry of is not started.
StartWar(w) ==
    /\ Handle(w, "on")
    /\ enemy' = [enemy EXCEPT ![w] = IF @ = "none" THEN @ ELSE "on"]
    /\ listed' = IF enemy[w] \in {"none", "on"} THEN listed ELSE listed \cup {w}

RecvEndWar(w) ==
    /\ \E op \in {"end", "over", "cancel"} : Handle(w, op)
    /\ EndWar(w)

-----------------------------------------------------------------------------
(* Faults *)

Fault == faults < MaxFault /\ faults' = faults + 1

\* CLIENT_DESC::Destroy of the connection to the daemon: StopAllGuildWar.
StopAllGuildWar ==
    /\ enemy' = [w \in War |-> IF w \in listed THEN "none" ELSE enemy[w]]
    /\ listed' = {}

Disconnect ==
    /\ Fault /\ up
    /\ up' = FALSE /\ gd' = <<>> /\ dg' = <<>>
    /\ StopAllGuildWar
    /\ UNCHANGED <<now, db, daemon, begun, crowded, starts, requests>>

\* SETUP: OnSetup sends what the daemon has.
Reconnect ==
    /\ ~up /\ up' = TRUE
    /\ dg' = Msgs("on", {w \in War : fight[w] # NoWar}) \o Msgs("declare", declared)
             \o Msgs("reserve", {row[r].war : r \in {s \in Reservation : reserve[s] = "waits"}})
    /\ UNCHANGED <<now, db, daemon, core, gd, history>>

\* mutant: only those whose war never started
StaleStarted(r) == ~row[r].started /\ row[r].at < now

\* BootReserveWar: the war was running when the daemon died, or its time is past.
Stale(r) ==
    IF row[r].started THEN ~row[r].winner ELSE row[r].at < now

\* The daemon dies and boots; what was given to the async connection is lost.
Restart ==
    /\ Fault
    /\ up' = FALSE /\ gd' = <<>> /\ dg' = <<>>
    /\ StopAllGuildWar
    /\ LET rows == {r \in Reservation : row[r] # NoRow}
           stale == {r \in rows : Stale(r)}
       IN  /\ sql' = SetToSeq({Draw(r) : r \in stale})
           /\ reserve' = [r \in Reservation |->
                            IF r \in rows /\ ~row[r].started /\ r \notin stale THEN "waits" ELSE "no"]
    /\ declared' = {} /\ waiting' = {} /\ onWar' = {}
    /\ fight' = [w \in War |-> NoWar]
    /\ begun' = [r \in Reservation |-> 0]
    /\ UNCHANGED <<now, db, crowded, starts, requests>>

Next ==
    \/ Heartbeat \/ ExecuteQuery \/ Disconnect \/ Reconnect \/ Restart
    \/ \E w \in War :
          \/ RequestDeclareWar(w) \/ AcceptWar(w) \/ RequestRefuseWar(w)
          \/ \E op \in {"over", "draw"} : RequestWarOver(w, op)
          \/ RequestEndWar(w) \/ RequestCancelWar(w)
          \/ AddDeclare(w) \/ RemoveDeclare(w) \/ StartFieldWar(w)
          \/ \E r \in Reservation : ReserveWar(w, r)
          \/ ReserveWarFails(w)
          \/ \E op \in {"over", "draw"}, won \in BOOLEAN : RecvWarOver(w, op, won)
          \/ RecvWarEnd(w) \/ CancelWar(w)
          \/ DeclareWar(w) \/ RefuseWar(w) \/ CoreReserveWar(w) \/ WaitStartWar(w)
          \/ StartWar(w) \/ RecvEndWar(w)
    \/ \E r \in Reservation : Bet(r)

Spec == Init /\ [][Next]_vars

-----------------------------------------------------------------------------
(* Properties *)

\* A stake is paid out at most once, whatever crashes come between the result
\* and the award, unless the war of the reservation was started twice.
PaidOnce == \A r \in Reservation : paid[r] > 1 => crowded

\* A reservation that was marked as started gets its war started, and only once,
\* unless two wars waited for their start at the same time.
StartedOnce ==
    \A r \in Reservation :
        \/ crowded
        \/ begun[r] = 0 /\ (reserve[r] = "started" => \E e \in waiting : e.res = r)
        \/ begun[r] = 1 /\ \A e \in waiting : e.res # r

\* A war that is on for the core is one the daemon has, or the packet that ends
\* it is on its way, whichever of the two ended it and whatever was lost.
CoreWarIsReal ==
    \A w \in listed :
        \/ fight[w] # NoWar
        \/ \E i \in 1 .. Len(dg) : dg[i] \in {Msg(op, w) : op \in {"end", "over", "cancel"}}

\* The stake of a reservation that has no result yet is not forgotten: the
\* reservation is in memory or its result is on its way to the database,
\* however the war ended and wherever the daemon died.
StakeIsKept ==
    \A r \in staked :
        \/ row[r].winner
        \/ reserve[r] # "no"
        \/ \E i \in 1 .. Len(sql) : [op |-> "settle", res |-> r] \in ToSet(sql[i])
=============================================================================
