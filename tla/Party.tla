------------------------------- MODULE Party -------------------------------
(***************************************************************************)
(* The parties of one channel: the table of the db daemon                   *)
(* (db/src/ClientManagerParty.cpp), the copy each core of the channel keeps  *)
(* (game/src/party.cpp), and the pointers of the characters into it.         *)
(*                                                                         *)
(* A core changes its own copy at once and tells the daemon, which tells     *)
(* the other cores.  The code names a party by its leader; here each party   *)
(* that CreateParty makes has a number besides, carried by its packets, so   *)
(* that a packet that hits another party than it was sent for is seen.       *)
(* m_memberMap of a party and m_map_pkParty are changed together by every    *)
(* function, so the second stands for both, and pCharacter of a member is    *)
(* the inverse of m_pkParty.  Left out: roles and what is computed from      *)
(* them, levels (but not their packets, which create parties), dungeons,     *)
(* the invitation that precedes a join, the limit of 8 members, parties of   *)
(* monsters, and a player who plays on two cores (see AccountLogon).         *)
(***************************************************************************)
EXTENDS Integers, FiniteSets, Sequences, SequencesExt

CONSTANTS
    Pid,
    Core,       \* cores of the channel
    MaxParty, MaxOp, MaxMove, MaxFault,  \* bounds; a fault uses up two requests, and a
                                        \* logout or a login is a move
    MaxUnread   \* bound: with more packets on one connection nobody asks anything

ASSUME PartyAssumption ==
    /\ MaxParty \in Nat /\ MaxOp \in Nat /\ MaxMove \in Nat /\ MaxFault \in Nat
    /\ MaxUnread \in Nat
    /\ IsFiniteSet(Pid)

No == 1 .. MaxParty

VARIABLES
    \* the daemon
    roster,     \* m_map_pkChannelParty: per leader, [no, members]; no = 0 for none
    locked,     \* players whose account is logged on
    peer,       \* cores the daemon has a SETUP of
    \* the cores
    of,         \* m_map_pkParty: number of the player's party, 0 for none
    loading,    \* players on the core that have not sent ENTERGAME yet
    in,         \* players in the game on the core
    link,       \* m_pkParty of the character, 0 for NULL
    \* between them
    up,         \* the core is connected; also m_bEnablePCParty
    toDb, toCore,
    \* history
    leaders,    \* the leader of each party made so far
    stray,      \* a packet met another party than it was sent for, or an ADD a parting
    undefined,  \* SetPartyMember has written through an erased iterator
    stranded,   \* players who were on a core when it lost its connection
    ops, moves, faults

daemon == <<roster, locked, peer>>
copies == <<of, link>>
players == <<loading, in>>
net == <<up, toDb, toCore>>
history == <<leaders, stray, undefined, stranded>>
bounds == <<ops, moves, faults>>
vars == <<daemon, copies, players, net, history, bounds>>

NoParty == [no |-> 0, members |-> {}]

\* Everybody is in the game, on some core, and in no party.
Init ==
    /\ roster = [p \in Pid |-> NoParty] /\ locked = Pid /\ peer = Core
    /\ of = [c \in Core |-> [p \in Pid |-> 0]]
    /\ \E core \in [Pid -> Core] : in = [c \in Core |-> {p \in Pid : core[p] = c}]
    /\ loading = [c \in Core |-> {}] /\ link = [p \in Pid |-> 0]
    /\ up = [c \in Core |-> TRUE]
    /\ toDb = [c \in Core |-> <<>>] /\ toCore = [c \in Core |-> <<>>]
    /\ leaders = <<>> /\ stray = FALSE /\ undefined = FALSE /\ stranded = {}
    /\ ops = 0 /\ moves = 0 /\ faults = 0

\* A packet about a party, about a member of it, or about a player (no = 0).
Packet(op, n, p) == [op |-> op, no |-> n, pid |-> p]
Create(n) == Packet("create", n, leaders'[n])
Delete(n) == Packet("delete", n, leaders[n])
Add(n, p) == Packet("add", n, p)
Leave(n, p) == Packet("remove", n, p)
Level(n, p) == Packet("level", n, p)

\* DBPacket: lost without a connection.
Send(c, packets) ==
    toDb' = IF up[c] THEN [toDb EXCEPT ![c] = @ \o packets] ELSE toDb
Forward(to, packet) ==
    toCore' = [c \in Core |-> IF c \in to THEN Append(toCore[c], packet) ELSE toCore[c]]

Members(c, n) == {p \in Pid : of[c][p] = n}

-----------------------------------------------------------------------------
(* What the members of a party do on a core *)

Request ==
    /\ \A c \in Core : Len(toDb[c]) <= MaxUnread /\ Len(toCore[c]) <= MaxUnread
    /\ ops + 2 * faults < MaxOp /\ ops' = ops + 1
    /\ UNCHANGED <<daemon, players, up, toCore, stranded, moves, faults>>

\* SetPartyMember takes the player out of another party first, which erases the entry
\* it writes to next: nothing is modelled beyond.
Undefined == undefined' = TRUE /\ UNCHANGED <<copies, toDb, leaders, stray>>

\* CParty::Join and Link of p, a new member of party n of core c or one already.
Joined(c, n, who) ==
    /\ of' = [of EXCEPT ![c] = [p \in Pid |-> IF p \in who THEN n ELSE @[p]]]
    /\ link' = [p \in Pid |-> IF p \in who THEN n ELSE link[p]]

\* PartyInviteAccept; AcceptToParty does the same for a leader who has a party.
InviteAccept(c, a, b) ==
    /\ Request /\ up[c] /\ a # b /\ {a, b} \subseteq in[c]
    /\ link[b] = 0
    /\ \/ /\ link[a] # 0 /\ leaders[link[a]] = a
          /\ IF of[c][b] \notin {0, link[a]} THEN Undefined
             ELSE /\ Joined(c, link[a], {b})
                  /\ Send(c, <<Add(link[a], b), Level(link[a], b)>>)
                  /\ UNCHANGED <<leaders, stray, undefined>>
       \/ /\ link[a] = 0 /\ Len(leaders) < MaxParty
          /\ IF {of[c][a], of[c][b]} # {0} THEN Undefined
             ELSE LET n == Len(leaders) + 1
                  IN /\ leaders' = Append(leaders, a)
                     /\ Joined(c, n, {a, b})
                     /\ Send(c, <<Create(n), Add(n, a), Level(n, a), Add(n, b), Level(n, b)>>)
                     /\ UNCHANGED <<stray, undefined>>

\* mutant: the characters keep their pointer
OutUnlinked(c, who) ==
    /\ of' = [of EXCEPT ![c] = [p \in Pid |-> IF p \in who THEN 0 ELSE @[p]]]
    /\ UNCHANGED link

\* CParty::Destroy, P2PQuit: out of the map, and the characters of c out of the party.
Out(c, who) ==
    /\ of' = [of EXCEPT ![c] = [p \in Pid |-> IF p \in who THEN 0 ELSE @[p]]]
    /\ link' = [p \in Pid |-> IF p \in who \cap in[c] /\ link[p] = of[c][p]
                              THEN 0 ELSE link[p]]

DeleteParty(c, n) == Out(c, Members(c, n)) /\ Send(c, <<Delete(n)>>)

\* The leader's own Quit reads the party it has just deleted, and may or may not send.
Quit(c, n, p) ==
    IF p # leaders[n] THEN Out(c, {p} \cap Members(c, n)) /\ Send(c, <<Leave(n, p)>>)
    ELSE /\ Out(c, Members(c, n))
         /\ Send(c, <<Delete(n)>>) \/ Send(c, <<Delete(n), Leave(n, p)>>)

\* do_ungroup, or PARTY_REMOVE of a member of himself.
Ungroup(c, p) ==
    /\ Request /\ up[c] /\ p \in in[c] /\ link[p] # 0
    /\ LET n == link[p]
       IN IF Cardinality(Members(c, n)) = 2 THEN DeleteParty(c, n) ELSE Quit(c, n, p)
    /\ stray' = (stray \/ Add(link[p], p) \in ToSet(toCore[c]))
    /\ UNCHANGED <<leaders, undefined>>

\* PARTY_REMOVE of the leader; who is kicked need not be a member any more, or yet: a
\* kick of a player SETUP is about to add crosses the ADD.
PartyRemove(c, p, q) ==
    /\ Request /\ up[c] /\ p \in in[c] /\ link[p] # 0 /\ leaders[link[p]] = p
    /\ LET n == link[p]
       IN IF p = q \/ Cardinality(Members(c, n)) = 2 THEN DeleteParty(c, n) ELSE Quit(c, n, q)
    /\ stray' = (stray \/ Add(link[p], q) \in ToSet(toCore[c]))
    /\ UNCHANGED <<leaders, undefined>>

\* RequestSetMemberLevel of a character whose level changes.
LevelUp(c, p) ==
    /\ Request /\ p \in in[c] /\ link[p] # 0
    /\ Send(c, <<Level(link[p], p)>>)
    /\ UNCHANGED <<copies, leaders, stray, undefined>>

-----------------------------------------------------------------------------
(* Players come and go.  Logon is exclusive: the daemon loads a player only   *)
(* when it has read the logout.                                             *)

Login(c, p) ==
    /\ moves < MaxMove /\ moves' = moves + 1
    /\ c \in peer /\ p \notin locked
    /\ locked' = locked \cup {p}
    /\ Forward({c}, Packet("load", 0, p))
    /\ UNCHANGED <<roster, peer, copies, players, up, toDb, history, ops, faults>>

\* ENTERGAME: SetParty links the character to the party the core has it in.
EnterGame(c, p) ==
    /\ p \in loading[c]
    /\ loading' = [loading EXCEPT ![c] = @ \ {p}] /\ in' = [in EXCEPT ![c] = @ \cup {p}]
    /\ link' = [link EXCEPT ![p] = of[c][p]]
    /\ Send(c, IF of[c][p] = 0 THEN <<>> ELSE <<Level(of[c][p], p)>>)
    /\ UNCHANGED <<daemon, of, up, toCore, history, bounds>>

\* Disconnect: Unlink, then the logout.
Logout(c, p) ==
    /\ p \in loading[c] \cup in[c] /\ moves < MaxMove /\ moves' = moves + 1
    /\ loading' = [loading EXCEPT ![c] = @ \ {p}] /\ in' = [in EXCEPT ![c] = @ \ {p}]
    /\ link' = [link EXCEPT ![p] = 0]
    /\ Send(c, <<Packet("logout", 0, p)>>)
    /\ locked' = IF up[c] THEN locked ELSE locked \ {p}
    /\ stranded' = stranded \ {p}
    /\ UNCHANGED <<roster, peer, of, up, toCore, leaders, stray, undefined, ops, faults>>

-----------------------------------------------------------------------------
(* The daemon's handlers *)

Handle(c, op) ==
    /\ toDb[c] # <<>> /\ Head(toDb[c]).op = op
    /\ toDb' = [toDb EXCEPT ![c] = Tail(@)]
    /\ UNCHANGED <<copies, players, up, leaders, undefined, stranded, bounds>>

Others(c) == peer \ {c}

QUERY_PARTY_CREATE(c) ==
    /\ Handle(c, "create")
    /\ LET m == Head(toDb[c])
           l == leaders[m.no]
       IN IF roster[l].no # 0 THEN stray' = TRUE /\ UNCHANGED <<roster, toCore>>
          ELSE /\ roster' = [roster EXCEPT ![l] = [no |-> m.no, members |-> {}]]
               /\ Forward(Others(c), m) /\ UNCHANGED stray
    /\ UNCHANGED <<locked, peer>>

\* What a packet does to the party it finds under its leader, when it finds one.
Apply(c, found, changed, to) ==
    LET m == Head(toDb[c])
        l == leaders[m.no]
    IN /\ IF found THEN roster' = [roster EXCEPT ![l] = changed] /\ Forward(to, m)
          ELSE UNCHANGED <<roster, toCore>>
       /\ stray' = (stray \/ (found /\ roster[l].no # m.no))
       /\ UNCHANGED <<locked, peer>>

QUERY_PARTY_DELETE(c) ==
    /\ Handle(c, "delete")
    /\ LET r == roster[leaders[Head(toDb[c]).no]]
       IN Apply(c, r.no # 0, NoParty, Others(c))

QUERY_PARTY_ADD(c) ==
    /\ Handle(c, "add")
    /\ LET m == Head(toDb[c])
           r == roster[leaders[m.no]]
       IN Apply(c, r.no # 0 /\ m.pid \notin r.members,
                [r EXCEPT !.members = @ \cup {m.pid}], Others(c))

QUERY_PARTY_REMOVE(c) ==
    /\ Handle(c, "remove")
    /\ LET m == Head(toDb[c])
           r == roster[leaders[m.no]]
       IN Apply(c, m.pid \in r.members, [r EXCEPT !.members = @ \ {m.pid}], Others(c))

\* The one packet that goes back to its sender too.
QUERY_PARTY_SET_MEMBER_LEVEL(c) ==
    /\ Handle(c, "level")
    /\ LET m == Head(toDb[c])
           r == roster[leaders[m.no]]
       IN Apply(c, m.pid \in r.members, r, peer)

QUERY_LOGOUT(c) ==
    /\ Handle(c, "logout")
    /\ locked' = locked \ {Head(toDb[c]).pid}
    /\ UNCHANGED <<roster, peer, toCore, stray>>

\* SendPartyOnSetup: the parties in the order of their leaders, and the members of each
\* in the order of their ids.
Told ==
    UNION {{Packet("create", roster[l].no, l)}
             \cup {Add(roster[l].no, p) : p \in roster[l].members}
             \cup {Level(roster[l].no, p) : p \in roster[l].members} :
           l \in {x \in Pid : roster[x].no # 0}}
Sooner(id, m, x) ==
    LET block(y) == id[leaders[y.no]]
        line(y) == IF y.op = "create" THEN 0 ELSE 2 * id[y.pid] + (IF y.op = "add" THEN 0 ELSE 1)
    IN block(m) < block(x) \/ (block(m) = block(x) /\ line(m) < line(x))
Snapshot(id) ==
    [i \in 1 .. Cardinality(Told) |->
        CHOOSE x \in Told : Cardinality({m \in Told : Sooner(id, m, x)}) = i - 1]

QUERY_SETUP(c) ==
    /\ Handle(c, "setup")
    /\ peer' = peer \cup {c}
    /\ \E id \in Bijection(Pid, 1 .. Cardinality(Pid)) :
          toCore' = [toCore EXCEPT ![c] = @ \o Snapshot(id)]
    /\ UNCHANGED <<roster, locked, stray>>

DaemonReads(c) ==
    \/ QUERY_PARTY_CREATE(c) \/ QUERY_PARTY_DELETE(c) \/ QUERY_PARTY_ADD(c)
    \/ QUERY_PARTY_REMOVE(c) \/ QUERY_PARTY_SET_MEMBER_LEVEL(c)
    \/ QUERY_LOGOUT(c) \/ QUERY_SETUP(c)

-----------------------------------------------------------------------------
(* The cores' handlers *)

Receive(c, op) ==
    /\ toCore[c] # <<>> /\ Head(toCore[c]).op = op
    /\ toCore' = [toCore EXCEPT ![c] = Tail(@)]
    /\ UNCHANGED <<daemon, up, leaders, stranded, bounds>>

\* P2PCreateParty: the party the leader is in, whoever leads it, or a new one.
P2PCreateParty(c) ==
    /\ Receive(c, "create")
    /\ LET m == Head(toCore[c])
       IN IF of[c][m.pid] # 0 THEN stray' = TRUE /\ UNCHANGED of
          ELSE of' = [of EXCEPT ![c][m.pid] = m.no] /\ UNCHANGED stray
    /\ UNCHANGED <<link, players, toDb, undefined>>

P2PJoinParty(c) ==
    /\ Receive(c, "add")
    /\ LET m == Head(toCore[c])
           n == of[c][leaders[m.no]]
       IN \/ n = 0 /\ UNCHANGED <<of, stray, undefined>>
          \/ /\ n # 0 /\ of[c][m.pid] \in {0, n}
             /\ of' = [of EXCEPT ![c][m.pid] = n]
             /\ stray' = (stray \/ n # m.no) /\ UNCHANGED undefined
          \/ /\ n # 0 /\ of[c][m.pid] \notin {0, n}
             /\ undefined' = TRUE /\ UNCHANGED <<of, stray>>
    /\ UNCHANGED <<link, players, toDb>>

\* P2PQuitParty looks at the player only; a leader takes his party along, and that is
\* told to the daemon.
P2PQuitParty(c) ==
    /\ Receive(c, "remove")
    /\ LET m == Head(toCore[c])
           n == of[c][m.pid]
       IN /\ IF n # 0 /\ leaders[n] = m.pid THEN DeleteParty(c, n)
             ELSE Out(c, {m.pid}) /\ UNCHANGED toDb
          /\ stray' = (stray \/ n \notin {0, m.no})
    /\ UNCHANGED <<players, undefined>>

\* mutant: only a party the player leads is deleted
P2PDeleteOwn(c) ==
    /\ Receive(c, "delete")
    /\ LET n == of[c][Head(toCore[c]).pid]
       IN Out(c, Members(c, n) \cap in[c]) /\ stray' = (stray \/ n # Head(toCore[c]).no)
    /\ UNCHANGED <<players, toDb, undefined>>

\* P2PDeleteParty: the party the leader is in.
P2PDeleteParty(c) ==
    /\ Receive(c, "delete")
    /\ LET m == Head(toCore[c])
           n == of[c][m.pid]
       IN /\ IF n = 0 THEN UNCHANGED copies ELSE Out(c, Members(c, n))
          /\ stray' = (stray \/ n \notin {0, m.no})
    /\ UNCHANGED <<players, toDb, undefined>>

\* PartySetMemberLevel goes through P2PCreateParty: it makes a party that is gone anew,
\* with the leader in it and nobody linked.
PartySetMemberLevel(c) ==
    /\ Receive(c, "level")
    /\ LET m == Head(toCore[c])
           l == leaders[m.no]
       IN IF of[c][l] # 0 THEN UNCHANGED <<of, stray>>
          ELSE of' = [of EXCEPT ![c][l] = m.no] /\ stray' = TRUE
    /\ UNCHANGED <<link, players, toDb, undefined>>

PlayerLoad(c) ==
    /\ Receive(c, "load")
    /\ LET p == Head(toCore[c]).pid
       IN loading' = [loading EXCEPT ![c] = @ \cup {p}]
    /\ UNCHANGED <<in, copies, toDb, stray, undefined>>

CoreReads(c) ==
    \/ P2PCreateParty(c) \/ P2PJoinParty(c) \/ P2PQuitParty(c) \/ P2PDeleteParty(c)
    \/ PartySetMemberLevel(c) \/ PlayerLoad(c)

-----------------------------------------------------------------------------
(* Lost connections and restarts *)

\* What was on its way is lost; RemovePeer frees the accounts of those who left or had
\* not come.  The parties of the daemon stay.
Cut(cores) ==
    /\ faults < MaxFault /\ ops + 2 * faults < MaxOp /\ faults' = faults + 1
    /\ up' = [c \in Core |-> up[c] /\ c \notin cores]
    /\ peer' = peer \ cores
    /\ toDb' = [c \in Core |-> IF c \in cores THEN <<>> ELSE toDb[c]]
    /\ toCore' = [c \in Core |-> IF c \in cores THEN <<>> ELSE toCore[c]]
    /\ of' = [c \in Core |-> IF c \in cores THEN [p \in Pid |-> 0] ELSE of[c]]
    /\ link' = [p \in Pid |-> IF \E c \in cores : p \in in[c] THEN 0 ELSE link[p]]
    /\ UNCHANGED <<leaders, stray, undefined, ops, moves>>

\* Players on their way to or from a core that is cut off are logged off.
Moving(cores) ==
    {p \in Pid : \E c \in cores : \/ Packet("logout", 0, p) \in ToSet(toDb[c])
                                  \/ Packet("load", 0, p) \in ToSet(toCore[c])}

\* CLIENT_DESC::Destroy: DeleteAllParty, DisablePCParty; the players stay.
LinkDrops(c) ==
    /\ up[c] /\ Cut({c})
    /\ locked' = locked \ Moving({c})
    /\ stranded' = stranded \cup loading[c] \cup in[c]
    /\ UNCHANGED <<roster, players>>

CoreCrash(c) ==
    /\ Cut({c})
    /\ loading' = [loading EXCEPT ![c] = {}] /\ in' = [in EXCEPT ![c] = {}]
    /\ locked' = locked \ (Moving({c}) \cup loading[c] \cup in[c])
    /\ stranded' = stranded \ (loading[c] \cup in[c])
    /\ UNCHANGED roster

DaemonRestart ==
    /\ Cut(Core)
    /\ roster' = [p \in Pid |-> NoParty]
    /\ locked' = locked \ Moving(Core)
    /\ stranded' = stranded \cup UNION {loading[c] \cup in[c] : c \in Core}
    /\ UNCHANGED players

\* The new connection: EnablePCParty and SETUP.
Reconnect(c) ==
    /\ ~up[c] /\ up' = [up EXCEPT ![c] = TRUE]
    /\ toDb' = [toDb EXCEPT ![c] = <<Packet("setup", 0, c)>>]
    /\ UNCHANGED <<daemon, copies, players, toCore, history, bounds>>

-----------------------------------------------------------------------------
Step(c) ==
    \/ \E p, q \in Pid : InviteAccept(c, p, q) \/ PartyRemove(c, p, q)
    \/ \E p \in Pid : \/ Ungroup(c, p) \/ LevelUp(c, p)
                      \/ Login(c, p) \/ EnterGame(c, p) \/ Logout(c, p)
    \/ DaemonReads(c) \/ CoreReads(c)
    \/ LinkDrops(c) \/ CoreCrash(c) \/ Reconnect(c)

Next == ~undefined /\ ((\E c \in Core : Step(c)) \/ DaemonRestart)

Spec == Init /\ [][Next]_vars

-----------------------------------------------------------------------------
(* Properties *)

OnItsWay(n) ==
    \E c \in Core : \E m \in ToSet(toDb[c]) \cup ToSet(toCore[c]) : m.no = n

\* What a core makes of the daemon's record: CREATE alone puts the leader in.
Filed(n) ==
    LET r == roster[leaders[n]]
    IN IF r.no = n THEN r.members \cup {leaders[n]} ELSE {}

\* The copies agree: when no packet of a party is on its way, every core that is set up
\* has exactly the members the daemon has, through joins, kicks, departures and deletions
\* asked for on several cores at once and through broken connections, unless some packet
\* met another party than the one it was sent for.
Agree ==
    \A n \in 1 .. Len(leaders), c \in peer :
        ~stray /\ ~undefined /\ ~OnItsWay(n)
        => Members(c, n) = Filed(n)

\* A character in the game points to the party its core has it in, and to none when it
\* has it in none, wherever the party was changed from: no pointer to a deleted party,
\* no member the client of whom does not know.  A lost connection takes the parties away
\* and SETUP gives them back without linking those who stayed.
Linked ==
    \A c \in Core : \A p \in in[c] \ stranded :
        ~stray /\ ~undefined => link[p] = of[c][p]
=============================================================================
