---------------------------- MODULE AccountLogon ----------------------------
(***************************************************************************)
(* Who may play an account.  The db daemon keeps one CLoginData per        *)
(* authentication and a table of the accounts that are logged on, which is *)
(* the lock that keeps two cores from playing the same account; the cores  *)
(* keep the client connections (DESC), bind an account to one when the db  *)
(* daemon says so, and push an older connection out when the db daemon     *)
(* says the account is already logged on.                                  *)
(*                                                                         *)
(* Code: db/src/ClientManagerLogin.cpp, LoginData.cpp, ClientManager.cpp   *)
(* (login data, SETUP, RemovePeer), ClientManagerPlayer.cpp (PLAYER_LOAD); *)
(* game/src/desc.cpp, desc_manager.cpp, desc_client.cpp, input_db.cpp,     *)
(* input_login.cpp, input_p2p.cpp.                                         *)
(*                                                                         *)
(* Abstractions: an account has one character and its player_index row     *)
(* exists; the client key of a login key always matches; PHASE_LOADING and *)
(* PHASE_GAME are one phase; whether a player is in the db daemon's player *)
(* cache is left open.                                                     *)
(***************************************************************************)
EXTENDS Integers, Sequences, FiniteSets

CONSTANTS
    Core,       \* game cores
    Account,    \* logins; an account id and its login name are one thing here
    Key,        \* login keys the authentication core may draw
    Ld,         \* CLoginData objects the db daemon may have allocated (bound)
    Desc,       \* client connections
    MaxDrop,    \* connections to the db daemon that may break (bound)
    FreshKeys,  \* does the authentication core never draw a key that is in use
    NoLd, NoDesc, NoAccount, NoCore, NoKey, NoPeer

Peer == Core \X (1 .. MaxDrop + 1)     \* CPeer: one per connection of a core

\* m_dwKey, m_data.login, m_dwConnectedPeerHandle
LoginData == [key : Key \cup {NoKey}, account : Account, peer : Peer \cup {NoPeer}]

ASSUME LogonAssumption ==
    /\ MaxDrop \in Nat /\ FreshKeys \in BOOLEAN /\ IsFiniteSet(Desc)
    /\ NoLd \notin Ld /\ NoDesc \notin Desc /\ NoAccount \notin Account

Phase == {"none", "login", "select", "game", "close"}

VARIABLES
    ld,         \* the CLoginData objects; its domain is what is allocated
    playing, deleted,                \* objects with m_bPlay, m_bDeleted set
    byKey,      \* m_map_pkLoginData
    byAccount,  \* m_map_pkLoginDataByLogin and m_map_pkLoginDataByAID, written together
    logon,      \* m_map_kLogonAccount
    queries,    \* the SQL queue: queries whose result is not handled yet, in order
    peers,      \* m_peerList
    issued,     \* <<account, key>> pairs clients were given by the auth core
    link,       \* the core's current connection to the db daemon (0: none)
    drops,      \* connections to the db daemon that broke so far
    desc,       \* the DESC objects of all cores
    name,       \* m_map_loginName of each core
    gd, dg,     \* packets core -> db, db -> core, in order
    gg          \* HEADER_GG_DISCONNECT packets on their way: <<core, account>>

dbVars   == <<ld, playing, deleted, byKey, byAccount, logon>>
netVars  == <<peers, link, drops>>
coreVars == <<desc, name, gg>>
vars == <<dbVars, queries, issued, netVars, coreVars, gd, dg>>

Closed == [phase |-> "none", core |-> NoCore, account |-> NoAccount, key |-> NoKey, char |-> FALSE, disc |-> FALSE,
           client |-> FALSE, asked |-> FALSE]

Init ==
    /\ ld = [l \in {} |-> {}] /\ playing = {} /\ deleted = {}
    /\ byKey = [k \in Key |-> NoLd]
    /\ byAccount = [a \in Account |-> NoLd]
    /\ logon = [a \in Account |-> NoLd]
    /\ queries = <<>> /\ issued = {}
    /\ link = [c \in Core |-> 1] /\ drops = 0
    /\ peers = Core \X {1}
    /\ desc = [d \in Desc |-> Closed]
    /\ name = [c \in Core |-> [a \in Account |-> NoDesc]]
    /\ gd = [c \in Core |-> <<>>] /\ dg = gd /\ gg = {}

-----------------------------------------------------------------------------
(* The db daemon's login data.                                             *)

Current(c) == <<c, link[c]>>

\* The objects of S are freed.
Without(objects, S) == [l \in DOMAIN objects \ S |-> objects[l]]

\* SetConnectedPeerHandle
ConnectedTo(r, p) == [key |-> r.key, account |-> r.account, peer |-> p]

\* EncodeHeader and Encode: what is written to a connection that is gone is lost.
ReplyTo(p, m) ==
    dg' = IF p = Current(p[1]) THEN [dg EXCEPT ![p[1]] = Append(@, m)] ELSE dg

Answer(type, d, a) == [type |-> type, desc |-> d, account |-> a]

FreedAlways(a) == {byAccount[a]}   \* mutant

\* DeleteLoginData: the object is freed, or only marked while the account is logged on.
Freed(a) == IF logon[a] = NoLd THEN {byAccount[a]} ELSE {}

\* The key map once DeleteLoginData has erased the object's key.
KeyErased(old) == IF old = NoLd THEN byKey ELSE [byKey EXCEPT ![ld[old].key] = NoLd]

\* QUERY_AUTH_LOGIN: the account's previous login data leaves the maps, and is
\* freed at once unless the account is logged on; then a new one is inserted
\* unless its key is taken.
AuthLogin(a, k) ==
    LET old    == byAccount[a]
        keyMap == KeyErased(old)
        freed  == Freed(a)
        kept   == Without(ld, freed)
        marked == (deleted \cup ({old} \ {NoLd})) \ freed
    IN /\ playing' = playing \ freed
       /\ \/ /\ keyMap[k] # NoLd /\ ~FreshKeys
             /\ byKey' = keyMap /\ byAccount' = [byAccount EXCEPT ![a] = NoLd]
             /\ ld' = kept /\ deleted' = marked
             /\ UNCHANGED issued
          \/ /\ keyMap[k] = NoLd
             /\ \E l \in Ld \ DOMAIN kept :
                   /\ ld' = [x \in DOMAIN kept \cup {l} |->
                        IF x = l THEN [key |-> k, account |-> a, peer |-> NoPeer] ELSE kept[x]]
                   /\ byKey' = [keyMap EXCEPT ![k] = l]
                   /\ byAccount' = [byAccount EXCEPT ![a] = l]
             /\ deleted' = marked
             /\ issued' = issued \cup {<<a, k>>}
       /\ UNCHANGED <<logon, queries, netVars, coreVars, gd, dg>>

\* The first packet a peer has sent and the db daemon has not handled.
Received(c, type) == link[c] # 0 /\ gd[c] # <<>> /\ Head(gd[c]).type = type
Consume(c) == gd' = [gd EXCEPT ![c] = Tail(@)]

Query(type, p, d, a) == [query |-> type, peer |-> p, desc |-> d, account |-> a]
ReturnQuery(type, p, d, a) == queries' = Append(queries, Query(type, p, d, a))

\* QUERY_LOGIN_BY_KEY
LoginByKey(c) ==
    /\ Received(c, "login")
    /\ LET m == Head(gd[c])
           l == byKey[m.key]
           known == l # NoLd
           on    == known /\ logon[ld[l].account] # NoLd
           same  == known /\ ld[l].account = m.account
       IN \/ /\ on
             /\ ReplyTo(Current(c), Answer("already", m.desc, m.account))
             /\ UNCHANGED queries
          \/ /\ ~on /\ ~same
             /\ ReplyTo(Current(c), Answer("fail", m.desc, m.account))
             /\ UNCHANGED queries
          \/ /\ ~on /\ same
             /\ ReturnQuery("index", Current(c), m.desc, m.account)
             /\ UNCHANGED dg
    /\ Consume(c)
    /\ UNCHANGED <<dbVars, issued, netVars, coreVars>>

\* DeleteLogonAccount for the accounts of `gone`, all held through `peer`.
DeleteLogonAccounts(gone) ==
    LET objects == {logon[a] : a \in gone}
    IN /\ logon' = [a \in Account |-> IF a \in gone THEN NoLd ELSE logon[a]]
       /\ playing' = playing \ objects
       /\ ld' = Without(ld, objects \cap deleted)
       /\ deleted' = deleted \ objects
       /\ UNCHANGED <<byKey, byAccount>>

LogonOfAny(p) == {a \in Account : logon[a] # NoLd}   \* mutant

LogonOf(p) == {a \in Account : logon[a] # NoLd /\ ld[logon[a]].peer = p}

\* QUERY_LOGOUT: nothing happens without login data for the account, and a
\* logout through another peer than the one that logged it on is refused.
Logout(c) ==
    /\ Received(c, "logout")
    /\ LET a == Head(gd[c]).account
       IN DeleteLogonAccounts(IF byAccount[a] = NoLd THEN {} ELSE {a} \cap LogonOf(Current(c)))
    /\ Consume(c)
    /\ UNCHANGED <<queries, issued, netVars, coreVars, dg>>

\* What QUERY_PLAYER_LOAD and RESULT_PLAYER_LOAD do with the player's row: it is
\* handed out unless the account's login data is missing or marked as playing.
HandOut(p, d, a) ==
    LET l == byAccount[a]
        refused == l = NoLd \/ l \in playing
    IN /\ playing' = IF refused THEN playing ELSE playing \cup {l}
       /\ ReplyTo(p, Answer(IF refused THEN "loadfail" ELSE "loaded", d, a))
       /\ UNCHANGED <<ld, deleted, byKey, byAccount, logon>>

\* QUERY_PLAYER_LOAD: from the player cache at once, or by a query.
PlayerLoad(c) ==
    /\ Received(c, "load")
    /\ LET m == Head(gd[c])
       IN \/ HandOut(Current(c), m.desc, m.account) /\ UNCHANGED queries
          \/ /\ ReturnQuery("load", Current(c), m.desc, m.account)
             /\ UNCHANGED <<dbVars, dg>>
    /\ Consume(c)
    /\ UNCHANGED <<issued, netVars, coreVars>>

\* QUERY_SETUP, the logins a core reports when it connects again: each gets a
\* new CLoginData, entered only where the maps have no entry yet; the account
\* is logged on again unless it already is, and then the NEW object is marked
\* as playing.  Of two logins with one account or one key, either comes first.
Setup(c) ==
    /\ Received(c, "setup")
    /\ LET logins   == Head(gd[c]).logins
           accounts == {x.account : x \in logins}
           keys     == {x.key : x \in logins}
           entered  == {a \in accounts : logon[a] = NoLd}
       IN \E obj \in [logins -> Ld \ DOMAIN ld],
             ofAccount \in [accounts -> logins], ofKey \in [keys -> logins] :
             LET known == [a \in Account |-> IF byAccount[a] = NoLd /\ a \in accounts
                                             THEN obj[ofAccount[a]] ELSE byAccount[a]]
                 on    == {known[a] : a \in entered}
             IN /\ \A x, y \in logins : x # y => obj[x] # obj[y]
                /\ \A a \in accounts : ofAccount[a].account = a
                /\ \A k \in keys : ofKey[k].key = k
                /\ ld' = [l \in DOMAIN ld \cup {obj[x] : x \in logins} |->
                      LET r == IF l \in DOMAIN ld THEN ld[l]
                               ELSE ConnectedTo(CHOOSE x \in logins : obj[x] = l, NoPeer)
                      IN IF l \in on THEN ConnectedTo(r, Current(c)) ELSE r]
                /\ byKey' = [k \in Key |-> IF byKey[k] = NoLd /\ k \in keys THEN obj[ofKey[k]] ELSE byKey[k]]
                /\ byAccount' = known
                /\ logon' = [a \in Account |-> IF a \in entered THEN known[a] ELSE logon[a]]
                /\ playing' = playing \cup {obj[ofAccount[a]] : a \in entered}
                /\ UNCHANGED deleted
    /\ Consume(c)
    /\ UNCHANGED <<queries, issued, netVars, coreVars, dg>>

\* AnalyzeQueryResult: the oldest query has its result; the result of a peer that
\* is gone is dropped.
Answered(types) ==
    queries # <<>> /\ Head(queries).query \in types /\ Head(queries).peer \in peers

DropResult ==
    /\ queries # <<>> /\ Head(queries).peer \notin peers
    /\ queries' = Tail(queries)
    /\ UNCHANGED <<dbVars, issued, netVars, coreVars, gd, dg>>

\* RESULT_LOGIN_BY_KEY: the account's players are queried next.
ResultLoginByKey ==
    /\ Answered({"index"})
    /\ queries' = Append(Tail(queries), [Head(queries) EXCEPT !.query = "login"])
    /\ UNCHANGED <<dbVars, issued, netVars, coreVars, gd, dg>>

CanLogOnTwice(a) == byAccount[a] # NoLd   \* mutant

\* InsertLogonAccount succeeds.
CanLogOn(a) == logon[a] = NoLd /\ byAccount[a] # NoLd

\* RESULT_LOGIN: InsertLogonAccount, then the account table goes to the core.
ResultLogin ==
    /\ Answered({"login"})
    /\ LET q == Head(queries)
           l == byAccount[q.account]
       IN \/ /\ CanLogOn(q.account)
             /\ logon' = [logon EXCEPT ![q.account] = l]
             /\ ld' = [ld EXCEPT ![l] = ConnectedTo(@, q.peer)]
             /\ ReplyTo(q.peer, Answer("success", q.desc, q.account))
             /\ UNCHANGED <<playing, deleted, byKey, byAccount>>
          \/ /\ ~CanLogOn(q.account)
             /\ ReplyTo(q.peer, Answer("already", q.desc, q.account))
             /\ UNCHANGED dbVars
    /\ queries' = Tail(queries)
    /\ UNCHANGED <<issued, netVars, coreVars, gd>>

\* RESULT_PLAYER_LOAD
ResultPlayerLoad ==
    /\ Answered({"load"})
    /\ HandOut(Head(queries).peer, Head(queries).desc, Head(queries).account)
    /\ queries' = Tail(queries)
    /\ UNCHANGED <<issued, netVars, coreVars, gd>>

\* The query failed (RESULT_LOGIN_BY_KEY) or found no row (RESULT_PLAYER_LOAD).
ResultError ==
    /\ Answered({"index", "load"})
    /\ LET q == Head(queries)
       IN ReplyTo(q.peer, Answer(IF q.query = "index" THEN "fail" ELSE "loadfail",
                                 q.desc, q.account))
    /\ queries' = Tail(queries)
    /\ UNCHANGED <<dbVars, issued, netVars, coreVars, gd>>

\* RemovePeer: the db daemon notices that a connection is gone.
RemovePeer(p) ==
    /\ p \in peers /\ p # Current(p[1])
    /\ peers' = peers \ {p}
    /\ DeleteLogonAccounts(LogonOf(p))
    /\ UNCHANGED <<queries, issued, link, drops, coreVars, gd, dg>>

-----------------------------------------------------------------------------
(* A core: its connections, its name map, its link to the db daemon.       *)

\* DBPacket: nothing is sent while there is no connection.
Packet(c, m) == IF link[c] = 0 THEN gd[c] ELSE Append(gd[c], m)

On(d) == desc[d].core
Bound(d) == desc[d].phase # "none" /\ desc[d].account # NoAccount

\* m_iHandleCount: a handle is never used again, so no packet or query that
\* carries an old handle reaches a new connection.
Unused(d) ==
    /\ desc[d].phase = "none"
    /\ \A i \in 1 .. Len(queries) : queries[i].desc # d
    /\ \A c \in Core :
          /\ \A i \in 1 .. Len(gd[c]) :
                gd[c][i].type \in {"login", "load"} => gd[c][i].desc # d
          /\ \A i \in 1 .. Len(dg[c]) : dg[c][i].desc # d

\* AcceptDesc and the handshake, up to PHASE_LOGIN.
Accept(d, c) ==
    /\ Unused(d)
    /\ desc' = [desc EXCEPT ![d] = [Closed EXCEPT !.phase = "login", !.core = c,
                                                 !.client = TRUE]]
    /\ UNCHANGED <<dbVars, queries, issued, netVars, name, gg, gd, dg>>

\* CInputLogin::LoginByKey, with a key the client was given.
SendLogin(d, a, k) ==
    /\ desc[d].phase = "login" /\ desc[d].client /\ ~desc[d].asked
    /\ <<a, k>> \in issued
    /\ desc' = [desc EXCEPT ![d].key = k, ![d].asked = TRUE]
    /\ gd' = [gd EXCEPT ![On(d)] = Packet(On(d),
                 [type |-> "login", desc |-> d, account |-> a, key |-> k])]
    /\ UNCHANGED <<dbVars, queries, issued, netVars, name, gg, dg>>

\* CInputLogin::CharacterSelect
CharacterSelect(d) ==
    /\ desc[d].phase = "select" /\ desc[d].client /\ ~desc[d].asked
    /\ desc' = [desc EXCEPT ![d].asked = TRUE]
    /\ gd' = [gd EXCEPT ![On(d)] = Packet(On(d),
                 [type |-> "load", desc |-> d, account |-> desc[d].account])]
    /\ UNCHANGED <<dbVars, queries, issued, netVars, name, gg, dg>>

\* The player quits, warps to another core or loses the connection; the core
\* reads the end of file whatever the phase is, and again while it is not closed.
ClientLeaves(d) ==
    /\ desc[d].phase # "none" /\ desc[d].client
    /\ desc' = [desc EXCEPT ![d].client = FALSE]
    /\ UNCHANGED <<dbVars, queries, issued, netVars, name, gg, gd, dg>>

EndOfFile(d) ==
    /\ desc[d].phase \notin {"none", "close"} /\ ~desc[d].client
    /\ desc' = [desc EXCEPT ![d].phase = "close"]
    /\ UNCHANGED <<dbVars, queries, issued, netVars, name, gg, gd, dg>>

DisconnectEventSilent(d) ==   \* mutant
    /\ desc[d].phase # "none" /\ desc[d].disc
    /\ desc' = [desc EXCEPT ![d].disc = FALSE]
    /\ UNCHANGED <<dbVars, queries, issued, netVars, name, gg, gd, dg>>

\* disconnect_event, five seconds after DisconnectOfSameLogin.
DisconnectEvent(d) ==
    /\ desc[d].phase # "none" /\ desc[d].disc
    /\ desc' = [desc EXCEPT ![d].phase = "close", ![d].disc = FALSE]
    /\ UNCHANGED <<dbVars, queries, issued, netVars, name, gg, gd, dg>>

\* The orders in which a core may walk its connections, a set sorted by address.
Orders(S) == {s \in [1 .. Cardinality(S) -> S] : \A i, j \in DOMAIN s : i # j => s[i] # s[j]}

DisconnectNoAccount(c, gone) == name   \* mutant

\* DisconnectAccount
DisconnectAccounts(c, gone) ==
    [name EXCEPT ![c] = [a \in Account |-> IF a \in gone THEN NoDesc ELSE @[a]]]

\* DestroyClosed, DestroyDesc, DESC::Destroy: every closed connection goes, its
\* account leaves the name map, and a LOGOUT is sent for it.
DestroyClosed(c) ==
    LET closed == {d \in Desc : desc[d].phase = "close" /\ On(d) = c}
        bound  == {d \in closed : desc[d].account # NoAccount}
    IN /\ closed # {}
       /\ \E s \in Orders(bound) :
             gd' = [gd EXCEPT ![c] = IF link[c] = 0 THEN @ ELSE
                      @ \o [i \in DOMAIN s |-> [type |-> "logout", account |-> desc[s[i]].account]]]
       /\ name' = DisconnectAccounts(c, {desc[d].account : d \in bound})
       /\ desc' = [d \in Desc |-> IF d \in closed THEN Closed ELSE desc[d]]
       /\ UNCHANGED <<dbVars, queries, issued, netVars, gg, dg>>

\* DisconnectOfSameLogin: a connection that plays a character is warned and
\* closed by an event, another one is closed at once.
Kicked(r) ==
    IF r.char THEN [r EXCEPT !.disc = TRUE] ELSE [r EXCEPT !.phase = "close"]

Delivered(c, type) == link[c] # 0 /\ dg[c] # <<>> /\ Head(dg[c]).type = type
Taken(c) == dg' = [dg EXCEPT ![c] = Tail(@)]

LoggedOutNot(c, a) == gd   \* mutant

LoggedOut(c, a) == [gd EXCEPT ![c] = Append(@, [type |-> "logout", account |-> a])]

\* CInputDB::LoginSuccess: the account is bound to the connection, whatever its
\* phase; a connection that is gone is logged out again.
LoginSuccess(c) ==
    /\ Delivered(c, "success")
    /\ LET d == Head(dg[c]).desc
           a == Head(dg[c]).account
       IN \/ /\ desc[d].phase = "none"
             /\ gd' = LoggedOut(c, a)
             /\ UNCHANGED <<desc, name>>
          \/ /\ desc[d].phase # "none"
             /\ desc' = [desc EXCEPT ![d].account = a, ![d].phase = "select", ![d].asked = FALSE]
             /\ name' = [name EXCEPT ![c][a] = IF @ = NoDesc THEN d ELSE @]
             /\ UNCHANGED gd
    /\ Taken(c)
    /\ UNCHANGED <<dbVars, queries, issued, netVars, gg>>

\* CInputDB::LoginAlready: the connection that has the account on this core is
\* pushed out, or else every other core is told to; nothing is done for a
\* connection that is gone.
LoginAlready(c) ==
    /\ Delivered(c, "already")
    /\ LET d == Head(dg[c]).desc
           a == Head(dg[c]).account
           other == name[c][a]
           answered == [desc EXCEPT ![d].asked = FALSE]
       IN \/ desc[d].phase = "none" /\ UNCHANGED <<desc, gg>>
          \/ /\ desc[d].phase # "none" /\ other # NoDesc
             /\ desc' = [answered EXCEPT ![other] = Kicked(@)]
             /\ UNCHANGED gg
          \/ /\ desc[d].phase # "none" /\ other = NoDesc
             /\ desc' = answered
             /\ gg' = gg \cup ((Core \ {c}) \X {a})
    /\ Taken(c)
    /\ UNCHANGED <<dbVars, queries, issued, netVars, name, gd>>

\* CInputP2P::Disconnect
P2PDisconnect(c, a) ==
    /\ <<c, a>> \in gg
    /\ gg' = gg \ {<<c, a>>}
    /\ desc' = IF name[c][a] = NoDesc THEN desc ELSE [desc EXCEPT ![name[c][a]] = Kicked(@)]
    /\ UNCHANGED <<dbVars, queries, issued, netVars, name, gd, dg>>

\* CInputDB::PlayerLoad: the character is created unless this connection or
\* another one of the core already plays it.
PlayerLoaded(c) ==
    /\ Delivered(c, "loaded")
    /\ LET d == Head(dg[c]).desc
           a == Head(dg[c]).account
           there == \E e \in Desc : On(e) = c /\ desc[e].char /\ desc[e].account = a
       IN desc' = IF desc[d].phase = "none" \/ there THEN desc
                  ELSE [desc EXCEPT ![d].char = TRUE, ![d].phase = "game", ![d].asked = FALSE]
    /\ Taken(c)
    /\ UNCHANGED <<dbVars, queries, issued, netVars, name, gg, gd>>

\* HEADER_DG_LOGIN_NOT_EXIST lets the client try again; HEADER_DG_PLAYER_LOAD_FAILED
\* is ignored, and the client goes on waiting.
Refused(c) ==
    /\ \/ Delivered(c, "fail") /\ desc' = [desc EXCEPT ![Head(dg[c]).desc].asked = FALSE]
       \/ Delivered(c, "loadfail") /\ UNCHANGED desc
    /\ Taken(c)
    /\ UNCHANGED <<dbVars, queries, issued, netVars, name, gg, gd>>

\* The connection to the db daemon breaks: what is on its way is lost, the core
\* keeps its connections.
LinkDrops(c) ==
    /\ link[c] # 0 /\ drops < MaxDrop
    /\ drops' = drops + 1
    /\ link' = [link EXCEPT ![c] = 0]
    /\ gd' = [gd EXCEPT ![c] = <<>>] /\ dg' = [dg EXCEPT ![c] = <<>>]
    /\ UNCHANGED <<dbVars, queries, issued, peers, coreVars>>

\* CLIENT_DESC::Connect and SetPhase(PHASE_DBCLIENT): a new peer, whose first
\* packet reports every connection that has an account.
Reconnect(c) ==
    /\ link[c] = 0
    /\ link' = [link EXCEPT ![c] = drops + 1]
    /\ peers' = peers \cup {<<c, drops + 1>>}
    /\ gd' = [gd EXCEPT ![c] = <<[type |-> "setup", logins |->
                 {[account |-> desc[d].account, key |-> desc[d].key] :
                               d \in {e \in Desc : Bound(e) /\ On(e) = c}}]>>]
    /\ UNCHANGED <<dbVars, queries, issued, drops, coreVars, dg>>

-----------------------------------------------------------------------------
DbStep(c) == LoginByKey(c) \/ Logout(c) \/ PlayerLoad(c) \/ Setup(c)
ResultStep == DropResult \/ ResultLoginByKey \/ ResultLogin \/ ResultPlayerLoad \/ ResultError
CoreStep(c) == LoginSuccess(c) \/ LoginAlready(c) \/ PlayerLoaded(c) \/ Refused(c)

Next ==
    \/ \E a \in Account, k \in Key : AuthLogin(a, k)
    \/ \E c \in Core : DbStep(c) \/ CoreStep(c) \/ DestroyClosed(c) \/ LinkDrops(c) \/ Reconnect(c)
    \/ ResultStep
    \/ \E p \in Peer : RemovePeer(p)
    \/ \E d \in Desc, c \in Core : Accept(d, c)
    \/ \E d \in Desc, a \in Account, k \in Key : SendLogin(d, a, k)
    \/ \E d \in Desc : CharacterSelect(d) \/ ClientLeaves(d) \/ EndOfFile(d) \/ DisconnectEvent(d)
    \/ \E c \in Core, a \in Account : P2PDisconnect(c, a)

\* Both programs go round their main loops: packets, results, closed sockets and
\* events that are due are handled.  Nothing is asked of the clients.
Fairness ==
    /\ \A c \in Core : WF_vars(DbStep(c)) /\ WF_vars(CoreStep(c)) /\ WF_vars(DestroyClosed(c))
                      /\ WF_vars(Reconnect(c))
    /\ WF_vars(ResultStep)
    /\ WF_vars(\E p \in Peer : RemovePeer(p))
    /\ \A d \in Desc : WF_vars(EndOfFile(d)) /\ WF_vars(DisconnectEvent(d))
    /\ \A c \in Core, a \in Account : WF_vars(P2PDisconnect(c, a))

Spec == Init /\ [][Next]_vars /\ Fairness

-----------------------------------------------------------------------------
(* Properties *)

\* Every CLoginData the three maps and the table of logged-on accounts point to is
\* allocated: DeleteLoginData, DeleteLogonAccount and RemovePeer free an object only
\* when nothing else will reach it again, in whatever order authentications,
\* logouts and lost connections come.
NoDanglingLoginData ==
    /\ \A k \in Key : byKey[k] # NoLd => byKey[k] \in DOMAIN ld
    /\ \A a \in Account : \A l \in {byAccount[a], logon[a]} : l # NoLd => l \in DOMAIN ld

\* An account is bound to two connections at once only if one of them is on a core
\* that has lost the db daemon since it started.
OneSession ==
    \A d, e \in Desc :
        /\ d # e /\ Bound(d) /\ Bound(e)
        /\ desc[d].account = desc[e].account
        => link[On(d)] # 1 \/ link[On(e)] # 1

\* The account of a connection stays logged on, through the connection's core, for
\* as long as the connection is there (on a core that never lost the db daemon).
SessionIsLoggedOn ==
    \A d \in Desc : Bound(d) /\ link[On(d)] = 1 =>
        /\ logon[desc[d].account] # NoLd
        /\ ld[logon[desc[d].account]].peer = <<On(d), 1>>

\* Nobody is locked out for good: an account that is logged on through a peer has a
\* connection on that core, or the answer that will bind it, or the LOGOUT that will
\* release it, is on its way; or the peer is gone and about to be removed.  Only an
\* account that authenticated again while it was logged on may be without, when a
\* login key can be drawn twice: an AUTH_LOGIN whose key another account holds takes
\* the account's login data away, and QUERY_LOGOUT then ignores the LOGOUT.
LockHasOwner ==
    \A a \in Account : logon[a] # NoLd =>
        LET p == ld[logon[a]].peer
            c == p[1]
        IN \/ p # Current(c)
           \/ ~FreshKeys /\ logon[a] \in deleted
           \/ \E d \in Desc : Bound(d) /\ On(d) = c /\ desc[d].account = a
           \/ \E i \in 1 .. Len(dg[c]) : dg[c][i].type = "success" /\ dg[c][i].account = a
           \/ \E i \in 1 .. Len(gd[c]) : gd[c][i].type = "logout" /\ gd[c][i].account = a

\* FindByLoginName: the connection found for an account is there and has that
\* account, and on a core that never lost the db daemon every bound connection is
\* found, so that DisconnectOfSameLogin reaches it.
NameMapIsExact ==
    /\ \A c \in Core, a \in Account :
          LET d == name[c][a]
          IN d # NoDesc => Bound(d) /\ On(d) = c /\ desc[d].account = a
    /\ \A d \in Desc : Bound(d) /\ link[On(d)] = 1 => name[On(d)][desc[d].account] = d

\* Once no client is left, every account is logged off, and stays so.
LockIsReleased ==
    <>[](\A d \in Desc : ~desc[d].client) => <>[](\A a \in Account : logon[a] = NoLd)

\* A player who is told "Someone logged in with your account. You will be
\* disconnected." is disconnected.
KickedLeaves ==
    \A d \in Desc : desc[d].disc ~> desc[d].phase = "none"
=============================================================================
