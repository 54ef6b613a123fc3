------------------------- MODULE AccountLogon_proofs -------------------------
(***************************************************************************)
(* TLAPS proofs about AccountLogon, for any number of cores, accounts,     *)
(* keys, objects and connections.  First the db daemon by itself: its maps *)
(* and its table of logged-on accounts never point to a CLoginData that    *)
(* was freed (LoginDataInv).  Then the daemon with its cores: an account   *)
(* is in the game with one connection at a time, which the daemon has as   *)
(* logged on, the map of names is exact (SessionInv), and a lock in the    *)
(* table has an owner that will release it (OwnerInv).                     *)
(***************************************************************************)
EXTENDS AccountLogon, FiniteSets, FiniteSetTheorems, FunctionTheorems, TLAPS

Maps ==
    /\ NoLd \notin DOMAIN ld /\ DOMAIN ld \subseteq Ld
    /\ byKey \in [Key -> Ld \cup {NoLd}]
    /\ byAccount \in [Account -> Ld \cup {NoLd}]
    /\ logon \in [Account -> Ld \cup {NoLd}]

\* An object is listed under its own key and its own login, and once it is marked
\* as deleted it is in neither map.
ListedAsOwn ==
    /\ \A k \in Key : byKey[k] # NoLd =>
          byKey[k] \in DOMAIN ld \ deleted /\ ld[byKey[k]].key = k
    /\ \A a \in Account : byAccount[a] # NoLd =>
          byAccount[a] \in DOMAIN ld \ deleted /\ ld[byAccount[a]].account = a

\* An account is logged on with an object of its own.
LoggedOnAsOwn ==
    \A a \in Account : logon[a] # NoLd => logon[a] \in DOMAIN ld /\ ld[logon[a]].account = a

\* The inductive invariant.
LoginDataInv == Maps /\ ListedAsOwn /\ LoggedOnAsOwn /\ deleted \subseteq DOMAIN ld

dbMaps == <<ld, deleted, byKey, byAccount, logon>>

-----------------------------------------------------------------------------
\* Freeing the objects of S leaves the other ones as they are.
LEMMA WithoutDef ==
    ASSUME NEW f, NEW S
    PROVE  /\ DOMAIN Without(f, S) = DOMAIN f \ S
           /\ \A l \in DOMAIN f \ S : Without(f, S)[l] = f[l]
BY DEF Without

\* A step that leaves the five tables alone keeps the invariant.
LEMMA StutterInv ==
    ASSUME LoginDataInv, UNCHANGED dbMaps
    PROVE  LoginDataInv'
BY DEF LoginDataInv, Maps, ListedAsOwn, LoggedOnAsOwn, dbMaps

\* The tables start empty.
LEMMA InitInv ==
    ASSUME Init
    PROVE  LoginDataInv
<1>1. DOMAIN ld = {} /\ deleted = {} BY DEF Init
<1>2. Maps BY <1>1 DEF Init, Maps
<1>3. ListedAsOwn BY DEF Init, ListedAsOwn
<1>4. LoggedOnAsOwn BY DEF Init, LoggedOnAsOwn
<1> QED BY <1>1, <1>2, <1>3, <1>4 DEF LoginDataInv

\* Logging accounts off frees only objects that neither map lists.
LEMMA LogoffInv ==
    ASSUME LoginDataInv,
           NEW gone, \A a \in gone : a \in Account /\ logon[a] # NoLd,
           DeleteLogonAccounts(gone)
    PROVE  LoginDataInv'
<1> DEFINE objects == {logon[a] : a \in gone}
           freed == objects \cap deleted
<1>1. /\ DOMAIN ld' = DOMAIN ld \ freed
      /\ \A l \in DOMAIN ld \ freed : ld'[l] = ld[l]
  BY WithoutDef DEF DeleteLogonAccounts
<1>2. /\ deleted' = deleted \ objects
      /\ logon' = [a \in Account |-> IF a \in gone THEN NoLd ELSE logon[a]]
      /\ UNCHANGED <<byKey, byAccount>>
  BY DEF DeleteLogonAccounts
<1>3. \A a \in Account \ gone : logon[a] # NoLd => logon[a] \notin objects
  BY DEF LoginDataInv, LoggedOnAsOwn
<1> HIDE DEF objects
<1>4. Maps' BY <1>1, <1>2 DEF LoginDataInv, Maps
<1>5. ListedAsOwn' BY <1>1, <1>2 DEF LoginDataInv, ListedAsOwn
<1>6. LoggedOnAsOwn'
  <2> SUFFICES ASSUME NEW a \in Account, logon'[a] # NoLd
               PROVE  logon'[a] \in DOMAIN ld' /\ ld'[logon'[a]].account = a
    BY DEF LoggedOnAsOwn
  <2>1. a \notin gone /\ logon'[a] = logon[a] BY <1>2
  <2>2. logon[a] \in DOMAIN ld \ freed /\ ld[logon[a]].account = a
    BY <2>1, <1>3 DEF LoginDataInv, LoggedOnAsOwn
  <2> QED BY <2>1, <2>2, <1>1
<1>7. deleted' \subseteq DOMAIN ld' BY <1>1, <1>2 DEF LoginDataInv
<1> QED BY <1>4, <1>5, <1>6, <1>7 DEF LoginDataInv

\* RESULT_LOGIN logs an account on with the object the login map lists.
LEMMA ResultLoginInv ==
    ASSUME LoginDataInv, ResultLogin
    PROVE  LoginDataInv'
<1> DEFINE q == Head(queries)
           a == q.account
           l == byAccount[a]
<1>1. CASE UNCHANGED dbVars BY <1>1, StutterInv DEF dbVars, dbMaps
<1>2. CASE /\ CanLogOn(a)
           /\ logon' = [logon EXCEPT ![a] = l]
           /\ ld' = [ld EXCEPT ![l] = ConnectedTo(@, q.peer)]
           /\ UNCHANGED <<deleted, byKey, byAccount>>
  <2>1. DOMAIN ld' = DOMAIN ld BY <1>2
  <2>2. \A x \in DOMAIN ld : ld'[x].key = ld[x].key /\ ld'[x].account = ld[x].account
    BY <1>2 DEF ConnectedTo
  <2>3. Maps' BY <1>2, <2>1 DEF LoginDataInv, Maps
  <2>4. ListedAsOwn' BY <1>2, <2>1, <2>2 DEF LoginDataInv, ListedAsOwn
  <2>5. LoggedOnAsOwn'
    BY <1>2, <2>1, <2>2 DEF LoginDataInv, Maps, ListedAsOwn, LoggedOnAsOwn, CanLogOn
  <2> QED BY <1>2, <2>1, <2>3, <2>4, <2>5 DEF LoginDataInv
<1> QED BY <1>1, <1>2 DEF ResultLogin

\* The objects, and the marked ones, once DeleteLoginData has been called for account a.
Kept(a) == Without(ld, Freed(a))
Marked(a) == (deleted \cup ({byAccount[a]} \ {NoLd})) \ Freed(a)

\* QUERY_AUTH_LOGIN: what DeleteLoginData leaves behind, before a new object is made.
LEMMA DeleteLoginDataFacts ==
    ASSUME LoginDataInv, NEW a \in Account
    PROVE  /\ DOMAIN Kept(a) = DOMAIN ld \ Freed(a)
           /\ \A l \in DOMAIN Kept(a) : Kept(a)[l] = ld[l]
           /\ Marked(a) \subseteq DOMAIN Kept(a)
           /\ \A k \in Key : KeyErased(byAccount[a])[k] # NoLd =>
                 /\ KeyErased(byAccount[a])[k] = byKey[k]
                 /\ byKey[k] \in DOMAIN Kept(a) \ Marked(a) /\ Kept(a)[byKey[k]].key = k
           /\ \A b \in Account \ {a} : byAccount[b] # NoLd =>
                 byAccount[b] \in DOMAIN Kept(a) \ Marked(a) /\ Kept(a)[byAccount[b]].account = b
           /\ \A b \in Account : logon[b] # NoLd =>
                 logon[b] \in DOMAIN Kept(a) /\ Kept(a)[logon[b]].account = b
           /\ KeyErased(byAccount[a]) \in [Key -> Ld \cup {NoLd}]
<1>1. Freed(a) \subseteq {byAccount[a]} /\ (logon[a] # NoLd => Freed(a) = {}) BY DEF Freed
<1>2. DOMAIN Kept(a) = DOMAIN ld \ Freed(a) /\ \A l \in DOMAIN Kept(a) : Kept(a)[l] = ld[l]
  BY DEF Kept, Without
<1>3. byAccount[a] # NoLd => byAccount[a] \in DOMAIN ld \ deleted /\ ld[byAccount[a]].account = a
  BY DEF LoginDataInv, ListedAsOwn
<1>4. Marked(a) \subseteq DOMAIN Kept(a)
  BY <1>2, <1>3 DEF LoginDataInv, Marked
<1>5. \A k \in Key : KeyErased(byAccount[a])[k] # NoLd =>
         KeyErased(byAccount[a])[k] = byKey[k] /\ byKey[k] # NoLd /\ byKey[k] # byAccount[a]
  BY DEF KeyErased, LoginDataInv, Maps, ListedAsOwn
<1>6. \A k \in Key : KeyErased(byAccount[a])[k] # NoLd =>
         /\ KeyErased(byAccount[a])[k] = byKey[k]
         /\ byKey[k] \in DOMAIN Kept(a) \ Marked(a) /\ Kept(a)[byKey[k]].key = k
  BY <1>1, <1>2, <1>5 DEF LoginDataInv, ListedAsOwn, Marked
<1>7. \A b \in Account \ {a} : byAccount[b] # NoLd =>
         byAccount[b] \in DOMAIN Kept(a) \ Marked(a) /\ Kept(a)[byAccount[b]].account = b
  BY <1>1, <1>2, <1>3 DEF LoginDataInv, ListedAsOwn, Marked
<1>8. \A b \in Account : logon[b] # NoLd =>
         logon[b] \in DOMAIN Kept(a) /\ Kept(a)[logon[b]].account = b
  BY <1>1, <1>2, <1>3 DEF LoginDataInv, Maps, LoggedOnAsOwn, Freed
<1>9. KeyErased(byAccount[a]) \in [Key -> Ld \cup {NoLd}]
  BY DEF KeyErased, LoginDataInv, Maps
<1> QED BY <1>2, <1>4, <1>6, <1>7, <1>8, <1>9

\* An authentication replaces the account's login data.
LEMMA AuthLoginInv ==
    ASSUME LoginDataInv, NEW a \in Account, NEW k \in Key, AuthLogin(a, k)
    PROVE  LoginDataInv'
<1> DEFINE old == byAccount[a]
           keyMap == KeyErased(old)
<1>f. /\ DOMAIN Kept(a) = DOMAIN ld \ Freed(a)
      /\ Marked(a) \subseteq DOMAIN Kept(a)
      /\ \A j \in Key : keyMap[j] # NoLd =>
            keyMap[j] \in DOMAIN Kept(a) \ Marked(a) /\ Kept(a)[keyMap[j]].key = j
      /\ \A b \in Account \ {a} : byAccount[b] # NoLd =>
            byAccount[b] \in DOMAIN Kept(a) \ Marked(a) /\ Kept(a)[byAccount[b]].account = b
      /\ \A b \in Account : logon[b] # NoLd =>
            logon[b] \in DOMAIN Kept(a) /\ Kept(a)[logon[b]].account = b
      /\ keyMap \in [Key -> Ld \cup {NoLd}]
  BY DeleteLoginDataFacts
<1>t. /\ byAccount \in [Account -> Ld \cup {NoLd}] /\ logon \in [Account -> Ld \cup {NoLd}]
      /\ DOMAIN Kept(a) \subseteq Ld /\ NoLd \notin Ld
  BY <1>f, LogonAssumption DEF LoginDataInv, Maps
<1>1. CASE /\ byKey' = keyMap /\ byAccount' = [byAccount EXCEPT ![a] = NoLd]
           /\ ld' = Kept(a) /\ deleted' = Marked(a) /\ logon' = logon
  <2> HIDE DEF old, keyMap
  <2>1. Maps' BY <1>1, <1>f, <1>t DEF Maps
  <2>2. ListedAsOwn' BY <1>1, <1>f, <1>t DEF ListedAsOwn
  <2>3. LoggedOnAsOwn' BY <1>1, <1>f, <1>t DEF LoggedOnAsOwn
  <2> QED BY <1>1, <1>f, <2>1, <2>2, <2>3 DEF LoginDataInv
<1>2. ASSUME NEW l \in Ld \ DOMAIN Kept(a),
             ld' = [x \in DOMAIN Kept(a) \cup {l} |->
                      IF x = l THEN [key |-> k, account |-> a, peer |-> NoPeer] ELSE Kept(a)[x]],
             byKey' = [keyMap EXCEPT ![k] = l],
             byAccount' = [byAccount EXCEPT ![a] = l],
             deleted' = Marked(a), logon' = logon
      PROVE  LoginDataInv'
  <2> HIDE DEF old, keyMap
  <2>1. /\ DOMAIN ld' = DOMAIN Kept(a) \cup {l}
        /\ ld'[l].key = k /\ ld'[l].account = a
        /\ \A x \in DOMAIN Kept(a) : ld'[x] = Kept(a)[x]
    BY <1>2
  <2>2. Maps' BY <1>2, <1>f, <1>t, <2>1 DEF Maps
  <2>3. ListedAsOwn' BY <1>2, <1>f, <1>t, <2>1 DEF ListedAsOwn
  <2>4. LoggedOnAsOwn' BY <1>2, <1>f, <1>t, <2>1 DEF LoggedOnAsOwn
  <2> QED BY <1>2, <1>f, <2>1, <2>2, <2>3, <2>4 DEF LoginDataInv
<1> QED BY <1>1, <1>2 DEF AuthLogin, Kept, Marked

\* QUERY_SETUP enters a new object only where a map has no entry, and logs the account
\* on with whatever the login map then lists.
LEMMA SetupInv ==
    ASSUME LoginDataInv, NEW c \in Core, Setup(c)
    PROVE  LoginDataInv'
<1> DEFINE logins   == Head(gd[c]).logins
           accounts == {x.account : x \in logins}
           keys     == {x.key : x \in logins}
           entered  == {a \in accounts : logon[a] = NoLd}
<1>1. PICK obj \in [logins -> Ld \ DOMAIN ld],
           ofAccount \in [accounts -> logins], ofKey \in [keys -> logins] :
        LET known == [a \in Account |-> IF byAccount[a] = NoLd /\ a \in accounts
                                        THEN obj[ofAccount[a]] ELSE byAccount[a]]
            on    == {known[a] : a \in entered}
        IN /\ \A x, y \in logins : x # y => obj[x] # obj[y]
           /\ \A a \in accounts : ofAccount[a].account = a
           /\ \A k \in keys : ofKey[k].key = k
           /\ ld' = [l \in DOMAIN ld \cup {obj[x] : x \in logins} |->
                 LET r == IF l \in DOMAIN ld THEN ld[l]
                          ELSE ConnectedTo(CHOOSE x \in logins : obj[x] = l, NoPeer)
                 IN IF l \in on THEN ConnectedTo(r, Current(c)) ELSE r]
           /\ byKey' = [k \in Key |-> IF byKey[k] = NoLd /\ k \in keys THEN obj[ofKey[k]] ELSE byKey[k]]
           /\ byAccount' = known
           /\ logon' = [a \in Account |-> IF a \in entered THEN known[a] ELSE logon[a]]
           /\ playing' = playing \cup {obj[ofAccount[a]] : a \in entered}
           /\ UNCHANGED deleted
  BY Zenon DEF Setup
<1> DEFINE known == [a \in Account |-> IF byAccount[a] = NoLd /\ a \in accounts
                                       THEN obj[ofAccount[a]] ELSE byAccount[a]]
           on    == {known[a] : a \in entered}
           first(l) == CHOOSE x \in logins : obj[x] = l
           r(l) == IF l \in DOMAIN ld THEN ld[l] ELSE ConnectedTo(first(l), NoPeer)
<1>d. ld' = [l \in DOMAIN ld \cup {obj[x] : x \in logins} |->
               IF l \in on THEN ConnectedTo(r(l), Current(c)) ELSE r(l)]
  BY <1>1, Zenon
<1>2. /\ DOMAIN ld' = DOMAIN ld \cup {obj[x] : x \in logins}
      /\ \A l \in DOMAIN ld' : ld'[l] = IF l \in on THEN ConnectedTo(r(l), Current(c)) ELSE r(l)
  <2> DEFINE dom == DOMAIN ld \cup {obj[x] : x \in logins}
             val(l) == IF l \in on THEN ConnectedTo(r(l), Current(c)) ELSE r(l)
  <2>1. ld' = [l \in dom |-> val(l)] BY <1>d
  <2> HIDE DEF dom, val
  <2>2. DOMAIN ld' = dom /\ \A l \in dom : ld'[l] = val(l) BY <2>1
  <2> QED BY <2>2 DEF dom, val
<1>3. \A l \in DOMAIN ld' : ld'[l].key = r(l).key /\ ld'[l].account = r(l).account
  <2> SUFFICES ASSUME NEW l \in DOMAIN ld'
               PROVE  ld'[l].key = r(l).key /\ ld'[l].account = r(l).account
    OBVIOUS
  <2>1. ld'[l] = ConnectedTo(r(l), Current(c)) \/ ld'[l] = r(l) BY <1>2, Zenon
  <2> HIDE DEF r
  <2> QED BY <2>1 DEF ConnectedTo
<1>4. \A l \in DOMAIN ld : ld'[l].key = ld[l].key /\ ld'[l].account = ld[l].account
  BY <1>2, <1>3
<1>5. ASSUME NEW x \in logins
      PROVE  /\ obj[x] \in DOMAIN ld' \ DOMAIN ld /\ obj[x] \in Ld
             /\ ld'[obj[x]].key = x.key /\ ld'[obj[x]].account = x.account
  <2>1. obj[x] \in DOMAIN ld' \ DOMAIN ld /\ obj[x] \in Ld BY <1>1, <1>2
  <2>2. first(obj[x]) = x BY <1>1
  <2>3. r(obj[x]) = ConnectedTo(x, NoPeer) BY <2>1, <2>2
  <2> QED BY <2>1, <2>3, <1>3 DEF ConnectedTo
<1>6. \A a \in accounts : ofAccount[a] \in logins /\ ofAccount[a].account = a BY <1>1
<1>7. \A k \in keys : ofKey[k] \in logins /\ ofKey[k].key = k BY <1>1
<1>8. /\ byKey' = [k \in Key |-> IF byKey[k] = NoLd /\ k \in keys THEN obj[ofKey[k]] ELSE byKey[k]]
      /\ byAccount' = [a \in Account |-> IF byAccount[a] = NoLd /\ a \in accounts
                                         THEN obj[ofAccount[a]] ELSE byAccount[a]]
      /\ logon' = [a \in Account |-> IF a \in entered THEN byAccount'[a] ELSE logon[a]]
      /\ deleted' = deleted
  BY <1>1
<1> HIDE DEF logins, accounts, keys, entered, known, on, first, r
<1>9. Maps'
  BY <1>2, <1>5, <1>6, <1>7, <1>8, LogonAssumption DEF LoginDataInv, Maps
<1>10. \A k \in Key : byKey'[k] # NoLd =>
          byKey'[k] \in DOMAIN ld' \ deleted' /\ ld'[byKey'[k]].key = k
  <2> SUFFICES ASSUME NEW k \in Key, byKey'[k] # NoLd
               PROVE  byKey'[k] \in DOMAIN ld' \ deleted' /\ ld'[byKey'[k]].key = k
    OBVIOUS
  <2>1. CASE byKey[k] = NoLd /\ k \in keys
    BY <2>1, <1>5, <1>7, <1>8 DEF LoginDataInv
  <2>2. CASE ~(byKey[k] = NoLd /\ k \in keys)
    <3>1. byKey'[k] = byKey[k] BY <2>2, <1>8
    <3> QED BY <3>1, <1>2, <1>4, <1>8 DEF LoginDataInv, ListedAsOwn
  <2> QED BY <2>1, <2>2
<1>11. \A a \in Account : byAccount'[a] # NoLd =>
          byAccount'[a] \in DOMAIN ld' \ deleted' /\ ld'[byAccount'[a]].account = a
  BY <1>2, <1>4, <1>5, <1>6, <1>8, SMTT(30) DEF LoginDataInv, Maps, ListedAsOwn
<1>12. LoggedOnAsOwn'
  BY <1>2, <1>4, <1>8, <1>11 DEF LoginDataInv, LoggedOnAsOwn
<1>13. deleted' \subseteq DOMAIN ld' BY <1>2, <1>8 DEF LoginDataInv
<1> QED BY <1>9, <1>10, <1>11, <1>12, <1>13 DEF LoginDataInv, ListedAsOwn

-----------------------------------------------------------------------------
\* Every step of the two programs keeps the invariant.
LEMMA StepInv ==
    ASSUME LoginDataInv, [Next]_vars
    PROVE  LoginDataInv'
<1>1. CASE UNCHANGED vars BY <1>1, StutterInv DEF vars, dbVars, dbMaps
<1>2. ASSUME NEW a \in Account, NEW k \in Key, AuthLogin(a, k) PROVE LoginDataInv'
  BY <1>2, AuthLoginInv
<1>3. ASSUME NEW c \in Core, DbStep(c) PROVE LoginDataInv'
  <2>1. CASE LoginByKey(c) BY <2>1, StutterInv DEF LoginByKey, dbVars, dbMaps
  <2>2. CASE Logout(c)
    <3> DEFINE a == Head(gd[c]).account
               gone == IF byAccount[a] = NoLd THEN {} ELSE {a} \cap LogonOf(Current(c))
    <3>1. DeleteLogonAccounts(gone) BY <2>2 DEF Logout
    <3>2. \A x \in gone : x \in Account /\ logon[x] # NoLd BY DEF LogonOf
    <3> QED BY <3>1, <3>2, LogoffInv
  <2>3. CASE PlayerLoad(c) BY <2>3, StutterInv DEF PlayerLoad, HandOut, dbVars, dbMaps
  <2>4. CASE Setup(c) BY <2>4, SetupInv
  <2> QED BY <1>3, <2>1, <2>2, <2>3, <2>4 DEF DbStep
<1>4. ASSUME ResultStep PROVE LoginDataInv'
  <2>1. CASE ResultLogin BY <2>1, ResultLoginInv
  <2>2. CASE ResultPlayerLoad BY <2>2, StutterInv DEF ResultPlayerLoad, HandOut, dbMaps
  <2>3. CASE DropResult \/ ResultLoginByKey \/ ResultError
    BY <2>3, StutterInv DEF DropResult, ResultLoginByKey, ResultError, dbVars, dbMaps
  <2> QED BY <1>4, <2>1, <2>2, <2>3 DEF ResultStep
<1>5. ASSUME NEW p \in Peer, RemovePeer(p) PROVE LoginDataInv'
  <2>1. DeleteLogonAccounts(LogonOf(p)) BY <1>5 DEF RemovePeer
  <2>2. \A x \in LogonOf(p) : x \in Account /\ logon[x] # NoLd BY DEF LogonOf
  <2> QED BY <2>1, <2>2, LogoffInv
<1>6. ASSUME NEW c \in Core, CoreStep(c) PROVE LoginDataInv'
  BY <1>6, StutterInv
     DEF CoreStep, LoginSuccess, LoginAlready, PlayerLoaded, Refused, dbVars, dbMaps
<1>7. ASSUME NEW c \in Core, DestroyClosed(c) \/ LinkDrops(c) \/ Reconnect(c)
      PROVE  LoginDataInv'
  BY <1>7, StutterInv DEF DestroyClosed, LinkDrops, Reconnect, dbVars, dbMaps
<1>8. ASSUME NEW d \in Desc,
             \/ \E c \in Core : Accept(d, c)
             \/ \E a \in Account, k \in Key : SendLogin(d, a, k)
             \/ CharacterSelect(d) \/ ClientLeaves(d) \/ EndOfFile(d) \/ DisconnectEvent(d)
      PROVE  LoginDataInv'
  BY <1>8, StutterInv DEF Accept, SendLogin, CharacterSelect, ClientLeaves, EndOfFile,
     DisconnectEvent, dbVars, dbMaps
<1>9. ASSUME NEW c \in Core, NEW a \in Account, P2PDisconnect(c, a) PROVE LoginDataInv'
  BY <1>9, StutterInv DEF P2PDisconnect, dbVars, dbMaps
<1> QED BY <1>1, <1>2, <1>3, <1>4, <1>5, <1>6, <1>7, <1>8, <1>9 DEF Next

\* However authentications, logouts, results and lost connections are interleaved, no
\* entry of m_map_pkLoginData, m_map_pkLoginDataByLogin or m_map_kLogonAccount is a
\* CLoginData that was deleted.
THEOREM LoginDataNeverDangles == Spec => []NoDanglingLoginData
<1>1. Init => LoginDataInv BY InitInv
<1>2. LoginDataInv /\ [Next]_vars => LoginDataInv' BY StepInv
<1>3. LoginDataInv => NoDanglingLoginData
  BY DEF LoginDataInv, ListedAsOwn, LoggedOnAsOwn, NoDanglingLoginData
<1> QED BY <1>1, <1>2, <1>3, PTL DEF Spec

-----------------------------------------------------------------------------
(* Sessions: what a login leaves on its way through the queues.            *)

\* The packets a core sends to the db daemon.
LoginOf(d)  == [type : {"login"}, desc : {d}, account : Account, key : Key]
LoadOf(d)   == [type : {"load"}, desc : {d}, account : Account]
LogoutOf(a) == [type : {"logout"}, account : {a}]
Setups      == [type : {"setup"}, logins : SUBSET [account : Account, key : Key \cup {NoKey}]]
SetupOf(a)  == {m \in Setups : \E x \in m.logins : x.account = a}
ToDaemon ==
    [type : {"login"}, desc : Desc, account : Account, key : Key]
    \cup [type : {"load"}, desc : Desc, account : Account]
    \cup [type : {"logout"}, account : Account] \cup Setups

\* Its answers.
AnswerOf(d)  == [type : {"success", "already", "fail"}, desc : {d}, account : Account]
LoadedOf(d)  == [type : {"loaded", "loadfail"}, desc : {d}, account : Account]
SuccessOf(a) == [type : {"success"}, desc : Desc, account : {a}]
ToCore ==
    [type : {"success", "already", "fail", "loaded", "loadfail"}, desc : Desc, account : Account]

\* The queries of the db daemon.
LoggingIn(d, c) == [query : {"index", "login"}, peer : {c} \X Nat, desc : {d}, account : Account]
Loading(d)      == [query : {"load"}, peer : Core \X Nat, desc : {d}, account : Account]
Asked ==
    [query : {"index", "login", "load"}, peer : Core \X Nat, desc : Desc, account : Account]

Connection ==
    [phase : Phase, core : Core \cup {NoCore}, account : Account \cup {NoAccount},
     key : Key \cup {NoKey}, char : BOOLEAN, disc : BOOLEAN, client : BOOLEAN, asked : BOOLEAN]

Shapes ==
    /\ desc \in [Desc -> Connection]
    /\ name \in [Core -> [Account -> Desc \cup {NoDesc}]]
    /\ queries \in Seq(Asked)
    /\ gd \in [Core -> Seq(ToDaemon)] /\ dg \in [Core -> Seq(ToCore)]
    /\ gg \subseteq Core \X Account /\ issued \subseteq Account \X Key
    /\ \A d \in Desc : /\ desc[d].phase # "none" => On(d) \in Core
                       /\ desc[d].phase = "login" => desc[d].account = NoAccount

\* Where the members of M are in the queue s, whether there is one, whether at most one.
At(s, M)   == {i \in DOMAIN s : s[i] \in M}
Has(s, M)  == At(s, M) # {}
Once(s, M) == \A i, j \in At(s, M) : i = j

\* Connection d waits on core c for the answer to its login, or is gone.
Waiting(d, c) ==
    desc[d].phase = "none" \/ (On(d) = c /\ desc[d].account = NoAccount /\ desc[d].asked)

\* A login of connection d on core c is in one place at a time, and while it is in one
\* the connection has no account and does not ask again.
Pending(d, c) ==
    Has(gd[c], LoginOf(d)) \/ Has(queries, LoggingIn(d, c)) \/ Has(dg[c], AnswerOf(d))
Flow(d, c) ==
    /\ Once(gd[c], LoginOf(d)) /\ Once(queries, LoggingIn(d, c)) /\ Once(dg[c], AnswerOf(d))
    /\ ~(Has(gd[c], LoginOf(d)) /\ Has(queries, LoggingIn(d, c)))
    /\ ~(Has(gd[c], LoginOf(d)) /\ Has(dg[c], AnswerOf(d)))
    /\ ~(Has(queries, LoggingIn(d, c)) /\ Has(dg[c], AnswerOf(d)))
    /\ Pending(d, c) => Waiting(d, c)
LoginFlow == \A d \in Desc, c \in Core : Flow(d, c)

\* A character is loaded for a connection that has an account.
LoadPending(d) ==
    \/ \E c \in Core : Has(gd[c], LoadOf(d)) \/ Has(dg[c], LoadedOf(d))
    \/ Has(queries, Loading(d))
Loads(d) ==
    /\ desc[d].phase = "select" => desc[d].account # NoAccount
    /\ LoadPending(d) => desc[d].phase = "none" \/ desc[d].account # NoAccount
LoadFlow == \A d \in Desc : Loads(d)

\* The peer that holds the lock of account a, if one does.
Holder(a) == IF logon[a] = NoLd THEN {} ELSE {ld[logon[a]].peer}
BoundTo(d, c, a) == Bound(d) /\ On(d) = c /\ desc[d].account = a
SomeBound(c, a) == \E d \in Desc : BoundTo(d, c, a)

\* On a core that never lost the db daemon the answer that binds the account, a connection
\* that has it and the LOGOUT that releases it exclude each other, there is one of them at
\* most, and as long as there is one the account is locked for the core.
Lock(c, a) ==
    /\ Once(dg[c], SuccessOf(a)) /\ Once(gd[c], LogoutOf(a))
    /\ \A d, e \in Desc : BoundTo(d, c, a) /\ BoundTo(e, c, a) => d = e
    /\ ~(Has(dg[c], SuccessOf(a)) /\ Has(gd[c], LogoutOf(a)))
    /\ ~(Has(dg[c], SuccessOf(a)) /\ SomeBound(c, a))
    /\ ~(Has(gd[c], LogoutOf(a)) /\ SomeBound(c, a))
    /\ Has(dg[c], SuccessOf(a)) \/ Has(gd[c], LogoutOf(a)) \/ SomeBound(c, a)
       => Holder(a) = {<<c, 1>>}
Locks == \A c \in Core, a \in Account : link[c] = 1 => Lock(c, a)

\* NameMapIsExact, per core and account.
Named(c, a) ==
    /\ name[c][a] # NoDesc => BoundTo(name[c][a], c, a)
    /\ \A d \in Desc : BoundTo(d, c, a) /\ link[c] = 1 => name[c][a] = d
Names == \A c \in Core, a \in Account : Named(c, a)

\* The peers: a core's latest one has the highest number, and what is locked is locked
\* for a peer that is still there.  A core reports its logins first, and only on a
\* connection that is not its first.
Newest(c) == IF link[c] = 0 THEN drops ELSE link[c]
Links ==
    /\ drops \in Nat /\ link \in [Core -> Nat] /\ peers \subseteq Core \X Nat
    /\ \A c \in Core : link[c] <= drops + 1 /\ (link[c] = 0 => drops >= 1)
    /\ \A p \in peers : 1 <= p[2] /\ p[2] <= Newest(p[1])
Holders ==
    /\ \A c \in Core : link[c] # 0 => Current(c) \in peers
    /\ \A a \in Account : Holder(a) \subseteq peers
SetupFirst(s) == \A i \in DOMAIN s : s[i] \in Setups => i = 1
Reports == \A c \in Core : SetupFirst(gd[c]) /\ (Has(gd[c], Setups) => link[c] # 1)

\* Whoever is reported or locked has a connection, or its LOGOUT is on the way (or the
\* answer that binds it).
Present(c, a) == SomeBound(c, a) \/ Has(gd[c], LogoutOf(a))
Reliable(a) == FreshKeys \/ logon[a] \notin deleted
Reported ==
    \A c \in Core, a \in Account : Has(gd[c], SetupOf(a)) => link[c] # 0 /\ Present(c, a)
KeepsData ==
    \A a \in Account : logon[a] # NoLd =>
        (logon[a] \in deleted \/ byAccount[a] = logon[a]) /\ (FreshKeys => byAccount[a] # NoLd)
Owned ==
    \A c \in Core, a \in Account :
        Holder(a) = {Current(c)} /\ link[c] # 0 /\ Reliable(a)
        => Present(c, a) \/ Has(dg[c], SuccessOf(a))

\* The inductive invariant of the sessions, and the larger one of the locks' owners.
SessionInv ==
    /\ LoginDataInv /\ Shapes /\ Links /\ Holders /\ Reports
    /\ LoginFlow /\ LoadFlow /\ Locks /\ Names
OwnerInv == SessionInv /\ Reported /\ KeepsData /\ Owned

-----------------------------------------------------------------------------
(* Queues: what is in a queue once a member is appended, taken or all are  *)
(* lost.                                                                   *)

Put(s, t, m) ==
    \A M : /\ Has(t, M) <=> Has(s, M) \/ m \in M
           /\ Once(s, M) /\ ~(Has(s, M) /\ m \in M) => Once(t, M)
Took(s, t, m) ==
    \A M : /\ Has(s, M) <=> Has(t, M) \/ m \in M
           /\ Once(s, M) => Once(t, M) /\ ~(Has(t, M) /\ m \in M)

LEMMA Appending ==
    ASSUME NEW S, NEW s \in Seq(S), NEW m \in S
    PROVE  Append(s, m) \in Seq(S) /\ Put(s, Append(s, m), m)
<1> DEFINE t == Append(s, m)
<1>1. /\ DOMAIN t = 1 .. Len(s) + 1 /\ DOMAIN s = 1 .. Len(s) /\ Len(s) \in Nat
      /\ t[Len(s) + 1] = m /\ \A i \in 1 .. Len(s) : t[i] = s[i]
  OBVIOUS
<1>2. ASSUME NEW M
      PROVE  At(t, M) = At(s, M) \cup (IF m \in M THEN {Len(s) + 1} ELSE {})
  BY <1>1 DEF At
<1>3. ASSUME NEW M
      PROVE  /\ Has(t, M) <=> Has(s, M) \/ m \in M
             /\ Once(s, M) /\ ~(Has(s, M) /\ m \in M) => Once(t, M)
  BY <1>2 DEF Has, Once
<1> QED BY <1>3 DEF Put

LEMMA Taking ==
    ASSUME NEW S, NEW s \in Seq(S), s # <<>>
    PROVE  Head(s) \in S /\ Tail(s) \in Seq(S) /\ Took(s, Tail(s), Head(s))
<1> DEFINE t == Tail(s)
<1>1. /\ DOMAIN s = 1 .. Len(s) /\ Len(s) \in Nat /\ Len(s) >= 1 /\ DOMAIN t = 1 .. Len(s) - 1
      /\ s[1] = Head(s) /\ \A i \in 1 .. Len(s) - 1 : t[i] = s[i + 1]
  OBVIOUS
<1>2. ASSUME NEW M
      PROVE  /\ \A i \in At(t, M) : i \in Nat /\ i >= 1 /\ i + 1 \in At(s, M)
             /\ \A i \in At(s, M) : i \in Nat /\ (i # 1 => i - 1 \in At(t, M))
             /\ 1 \in At(s, M) <=> Head(s) \in M
  BY <1>1 DEF At
<1>3. ASSUME NEW M
      PROVE  /\ Has(s, M) <=> Has(t, M) \/ Head(s) \in M
             /\ Once(s, M) => Once(t, M) /\ ~(Has(t, M) /\ Head(s) \in M)
  <2> HIDE DEF t
  <2>1. Has(s, M) <=> Has(t, M) \/ Head(s) \in M BY <1>2 DEF Has
  <2>2. ASSUME Once(s, M) PROVE Once(t, M)
    <3> SUFFICES ASSUME NEW i \in At(t, M), NEW j \in At(t, M) PROVE i = j BY DEF Once
    <3>1. i + 1 = j + 1 /\ i \in Nat /\ j \in Nat BY <1>2, <2>2 DEF Once
    <3> QED BY <3>1
  <2>3. ASSUME Once(s, M), Has(t, M), Head(s) \in M PROVE FALSE
    <3>1. PICK i \in At(t, M) : TRUE BY <2>3 DEF Has
    <3>2. i + 1 = 1 /\ i \in Nat /\ i >= 1 BY <1>2, <2>3 DEF Once
    <3> QED BY <3>2
  <2> QED BY <2>1, <2>2, <2>3
<1>4. Head(s) \in S /\ Tail(s) \in Seq(S) OBVIOUS
<1> QED BY <1>3, <1>4 DEF Took

LEMMA Emptied == \A M : ~Has(<<>>, M) /\ Once(<<>>, M)
BY DEF Has, Once, At

LEMMA OneMember ==
    ASSUME NEW m
    PROVE  \A M : (Has(<<m>>, M) <=> m \in M) /\ Once(<<m>>, M)
<1>1. DOMAIN <<m>> = {1} /\ <<m>>[1] = m OBVIOUS
<1> QED BY <1>1 DEF Has, Once, At

\* Joining two queues.
LEMMA Joining ==
    ASSUME NEW S, NEW s \in Seq(S), NEW t \in Seq(S)
    PROVE  /\ s \o t \in Seq(S)
           /\ \A M : /\ Has(s \o t, M) <=> Has(s, M) \/ Has(t, M)
                     /\ Once(s, M) /\ Once(t, M) /\ ~(Has(s, M) /\ Has(t, M)) => Once(s \o t, M)
<1> DEFINE u == s \o t
<1>1. /\ DOMAIN s = 1 .. Len(s) /\ DOMAIN t = 1 .. Len(t) /\ DOMAIN u = 1 .. Len(s) + Len(t)
      /\ Len(s) \in Nat /\ Len(t) \in Nat
      /\ \A i \in 1 .. Len(s) : u[i] = s[i]
      /\ \A i \in 1 .. Len(s) + Len(t) : i > Len(s) => u[i] = t[i - Len(s)]
  OBVIOUS
<1>2. u \in Seq(S) OBVIOUS
<1> HIDE DEF u
<1>3. ASSUME NEW M
      PROVE  /\ \A i \in At(s, M) : i \in At(u, M)
             /\ \A i \in At(t, M) : i \in Nat /\ i + Len(s) \in At(u, M)
             /\ \A i \in At(u, M) : i \in Nat /\ (i \in At(s, M) \/ i - Len(s) \in At(t, M))
  <2>1. \A i \in At(s, M) : i \in At(u, M) BY <1>1 DEF At
  <2>2. ASSUME NEW i \in At(t, M) PROVE i \in Nat /\ i + Len(s) \in At(u, M)
    <3>1. i \in 1 .. Len(t) /\ t[i] \in M BY <1>1 DEF At
    <3>2. i + Len(s) \in 1 .. Len(s) + Len(t) /\ i + Len(s) > Len(s) /\ (i + Len(s)) - Len(s) = i
      BY <3>1, <1>1
    <3> QED BY <3>1, <3>2, <1>1 DEF At
  <2>3. ASSUME NEW i \in At(u, M) PROVE i \in Nat /\ (i \in At(s, M) \/ i - Len(s) \in At(t, M))
    <3>1. i \in 1 .. Len(s) + Len(t) /\ u[i] \in M BY <1>1 DEF At
    <3>2. CASE i <= Len(s) BY <3>1, <3>2, <1>1 DEF At
    <3>3. CASE i > Len(s)
      <4>1. i - Len(s) \in 1 .. Len(t) BY <3>1, <3>3, <1>1
      <4> QED BY <3>1, <3>3, <4>1, <1>1 DEF At
    <3> QED BY <3>1, <3>2, <3>3, <1>1
  <2> QED BY <2>1, <2>2, <2>3
<1>4. ASSUME NEW M
      PROVE  /\ Has(u, M) <=> Has(s, M) \/ Has(t, M)
             /\ Once(s, M) /\ Once(t, M) /\ ~(Has(s, M) /\ Has(t, M)) => Once(u, M)
  <2>1. Has(u, M) <=> Has(s, M) \/ Has(t, M) BY <1>3 DEF Has
  <2>2. ASSUME Once(s, M), Once(t, M), ~(Has(s, M) /\ Has(t, M)),
               NEW i \in At(u, M), NEW j \in At(u, M)
        PROVE  i = j
    <3>1. CASE At(t, M) = {} BY <3>1, <1>3, <2>2 DEF Once
    <3>2. CASE At(s, M) = {}
      <4>1. i - Len(s) = j - Len(s) /\ i \in Nat /\ j \in Nat BY <3>2, <1>3, <2>2 DEF Once
      <4> QED BY <4>1, <1>1
    <3> QED BY <3>1, <3>2, <2>2 DEF Has
  <2> QED BY <2>1, <2>2 DEF Once
<1> QED BY <1>2, <1>4 DEF u

\* Once its first packet is taken, a queue that reports logins at most first reports none.
LEMMA ReportTaken ==
    ASSUME NEW S, NEW s \in Seq(S), s # <<>>, SetupFirst(s)
    PROVE  /\ ~Has(Tail(s), Setups) /\ SetupFirst(Tail(s))
           /\ Head(s) \in Setups \/ ~Has(s, Setups)
<1>1. /\ DOMAIN s = 1 .. Len(s) /\ Len(s) \in Nat /\ DOMAIN Tail(s) = 1 .. Len(s) - 1
      /\ s[1] = Head(s) /\ \A i \in 1 .. Len(s) - 1 : Tail(s)[i] = s[i + 1]
  OBVIOUS
<1>2. \A i \in DOMAIN Tail(s) : Tail(s)[i] \notin Setups
  <2> SUFFICES ASSUME NEW i \in DOMAIN Tail(s), Tail(s)[i] \in Setups PROVE FALSE OBVIOUS
  <2>1. i + 1 \in DOMAIN s /\ i + 1 # 1 /\ s[i + 1] \in Setups BY <1>1
  <2> QED BY <2>1 DEF SetupFirst
<1>3. Head(s) \in Setups \/ ~Has(s, Setups) BY <1>1 DEF SetupFirst, Has, At
<1> QED BY <1>2, <1>3 DEF Has, At, SetupFirst

\* A queue to whose end no report is added keeps its report, if any, first.
LEMMA ReportKept ==
    ASSUME NEW S, NEW s \in Seq(S), NEW t \in Seq(S), SetupFirst(s), ~Has(t, Setups)
    PROVE  SetupFirst(s \o t)
<1>1. /\ DOMAIN s = 1 .. Len(s) /\ DOMAIN t = 1 .. Len(t) /\ DOMAIN (s \o t) = 1 .. Len(s) + Len(t)
      /\ Len(s) \in Nat /\ Len(t) \in Nat
      /\ \A i \in 1 .. Len(s) : (s \o t)[i] = s[i]
      /\ \A i \in 1 .. Len(s) + Len(t) : i > Len(s) => (s \o t)[i] = t[i - Len(s)]
  OBVIOUS
<1> SUFFICES ASSUME NEW i \in DOMAIN (s \o t), (s \o t)[i] \in Setups PROVE i = 1 BY DEF SetupFirst
<1>2. CASE i <= Len(s) BY <1>1, <1>2 DEF SetupFirst
<1>3. CASE i > Len(s)
  <2>1. i - Len(s) \in DOMAIN t /\ t[i - Len(s)] \in Setups BY <1>1, <1>3
  <2> QED BY <2>1 DEF Has, At
<1> QED BY <1>1, <1>2, <1>3

-----------------------------------------------------------------------------
(* What a step leaves as it is.                                            *)

\* No member of M comes into the queue.
FewerIn(s, t, M) == (Has(t, M) => Has(s, M)) /\ (Once(s, M) => Once(t, M))

LEMMA NotPut ==
    ASSUME NEW s, NEW t, NEW m, NEW M, Put(s, t, m), m \notin M
    PROVE  FewerIn(s, t, M) /\ (Has(s, M) => Has(t, M))
BY DEF Put, FewerIn

LEMMA TakenFewer ==
    ASSUME NEW s, NEW t, NEW m, NEW M, Took(s, t, m)
    PROVE  FewerIn(s, t, M)
BY DEF Took, FewerIn

LEMMA FlowKept ==
    ASSUME LoginFlow,
           \A d \in Desc, c \in Core :
              /\ FewerIn(gd[c], gd'[c], LoginOf(d)) /\ FewerIn(dg[c], dg'[c], AnswerOf(d))
              /\ FewerIn(queries, queries', LoggingIn(d, c))
              /\ Pending(d, c)' /\ Waiting(d, c) => Waiting(d, c)'
    PROVE  LoginFlow'
<1> SUFFICES ASSUME NEW d \in Desc, NEW c \in Core PROVE Flow(d, c)' BY DEF LoginFlow
<1>1. Flow(d, c) BY DEF LoginFlow
<1>2. Pending(d, c)' => Pending(d, c) BY DEF FewerIn, Pending
<1>3. Pending(d, c)' => Waiting(d, c)' BY <1>1, <1>2 DEF Flow
<1> QED BY <1>1, <1>3 DEF Flow, FewerIn

LEMMA LoadsKept ==
    ASSUME LoadFlow,
           \A d \in Desc :
              /\ desc'[d].phase = "select" => desc'[d].account # NoAccount
              /\ LoadPending(d)' => LoadPending(d) \/ desc[d].account # NoAccount
              /\ desc'[d].account = desc[d].account
              /\ desc[d].phase = "none" => desc'[d].phase = "none"
    PROVE  LoadFlow'
BY DEF LoadFlow, Loads

LEMMA LocksKept ==
    ASSUME Locks,
           \A c \in Core : link'[c] = 1 =>
              /\ link[c] = 1
              /\ \A a \in Account :
                    /\ FewerIn(dg[c], dg'[c], SuccessOf(a)) /\ FewerIn(gd[c], gd'[c], LogoutOf(a))
                    /\ \A d \in Desc : BoundTo(d, c, a)' => BoundTo(d, c, a)
                    /\ /\ Holder(a) = {<<c, 1>>}
                       /\ Has(dg'[c], SuccessOf(a)) \/ Has(gd'[c], LogoutOf(a)) \/ SomeBound(c, a)'
                       => Holder(a)' = {<<c, 1>>}
    PROVE  Locks'
<1> SUFFICES ASSUME NEW c \in Core, NEW a \in Account, link'[c] = 1 PROVE Lock(c, a)'
  BY DEF Locks
<1>1. Lock(c, a) BY DEF Locks
<1>2. SomeBound(c, a)' => SomeBound(c, a) BY DEF SomeBound
<1>3. FewerIn(dg[c], dg'[c], SuccessOf(a)) /\ FewerIn(gd[c], gd'[c], LogoutOf(a)) OBVIOUS
<1>4. \A d, e \in Desc : BoundTo(d, c, a)' /\ BoundTo(e, c, a)' => d = e
  BY <1>1 DEF Lock
<1>5. Has(dg'[c], SuccessOf(a)) \/ Has(gd'[c], LogoutOf(a)) \/ SomeBound(c, a)'
      => Holder(a)' = {<<c, 1>>}
  BY <1>1, <1>2, <1>3 DEF Lock, FewerIn
<1> QED BY <1>1, <1>2, <1>3, <1>4, <1>5 DEF Lock, FewerIn

LEMMA NamesKept ==
    ASSUME Names, name' = name,
           \A c \in Core : link'[c] = 1 => link[c] = 1,
           \A d \in Desc, c \in Core, a \in Account : BoundTo(d, c, a)' <=> BoundTo(d, c, a),
           Shapes
    PROVE  Names'
<1> SUFFICES ASSUME NEW c \in Core, NEW a \in Account PROVE Named(c, a)' BY DEF Names
<1>1. Named(c, a) BY DEF Names
<1>2. name[c][a] \in Desc \cup {NoDesc} BY DEF Shapes
<1> QED BY <1>1, <1>2 DEF Named

\* Every connection keeps its core and its account, and none comes or goes.
SameSessions ==
    \A d \in Desc : /\ desc'[d].phase = "none" <=> desc[d].phase = "none"
                    /\ desc'[d].core = desc[d].core /\ desc'[d].account = desc[d].account

LEMMA SameBound ==
    ASSUME SameSessions
    PROVE  /\ \A d \in Desc, c \in Core, a \in Account : BoundTo(d, c, a)' <=> BoundTo(d, c, a)
           /\ \A c \in Core, a \in Account : SomeBound(c, a)' <=> SomeBound(c, a)
<1>1. \A d \in Desc, c \in Core, a \in Account : BoundTo(d, c, a)' <=> BoundTo(d, c, a)
  BY DEF SameSessions, BoundTo, Bound, On
<1> QED BY <1>1 DEF SomeBound

LEMMA SameHolder ==
    ASSUME UNCHANGED <<logon, ld>>
    PROVE  \A a \in Account : Holder(a)' = Holder(a)
BY DEF Holder

LEMMA NoFewer == \A s, M : FewerIn(s, s, M)
BY DEF FewerIn

\* The packet the db daemon handles.
LEMMA DaemonTakes ==
    ASSUME Shapes, Reports, NEW c \in Core, gd[c] # <<>>, Consume(c)
    PROVE  /\ gd' \in [Core -> Seq(ToDaemon)]
           /\ Head(gd[c]) \in ToDaemon /\ Took(gd[c], gd'[c], Head(gd[c]))
           /\ \A e \in Core : e # c => gd'[e] = gd[e]
           /\ ~Has(gd'[c], Setups) /\ SetupFirst(gd'[c])
           /\ Head(gd[c]) \in Setups \/ ~Has(gd[c], Setups)
           /\ \A M : \A e \in Core : FewerIn(gd[e], gd'[e], M)
<1>1. gd \in [Core -> Seq(ToDaemon)] /\ gd[c] \in Seq(ToDaemon) BY DEF Shapes
<1>2. gd' = [gd EXCEPT ![c] = Tail(gd[c])] BY DEF Consume
<1>3. /\ Head(gd[c]) \in ToDaemon /\ Tail(gd[c]) \in Seq(ToDaemon)
      /\ Took(gd[c], Tail(gd[c]), Head(gd[c]))
  BY <1>1, Taking
<1>4. gd'[c] = Tail(gd[c]) /\ \A e \in Core : e # c => gd'[e] = gd[e] BY <1>1, <1>2
<1>5. gd' \in [Core -> Seq(ToDaemon)] BY <1>1, <1>2, <1>3
<1>6. SetupFirst(gd[c]) BY DEF Reports
<1>7. /\ ~Has(Tail(gd[c]), Setups) /\ SetupFirst(Tail(gd[c]))
      /\ Head(gd[c]) \in Setups \/ ~Has(gd[c], Setups)
  BY <1>1, <1>6, ReportTaken
<1>8. \A M : \A e \in Core : FewerIn(gd[e], gd'[e], M) BY <1>3, <1>4, TakenFewer, NoFewer
<1> QED BY <1>3, <1>4, <1>5, <1>7, <1>8

\* The answer a core handles.
LEMMA CoreTakes ==
    ASSUME Shapes, NEW c \in Core, dg[c] # <<>>, Taken(c)
    PROVE  /\ dg' \in [Core -> Seq(ToCore)]
           /\ Head(dg[c]) \in ToCore /\ Took(dg[c], dg'[c], Head(dg[c]))
           /\ \A e \in Core : e # c => dg'[e] = dg[e]
           /\ \A M : \A e \in Core : FewerIn(dg[e], dg'[e], M)
<1>1. dg \in [Core -> Seq(ToCore)] /\ dg[c] \in Seq(ToCore) BY DEF Shapes
<1>2. dg' = [dg EXCEPT ![c] = Tail(dg[c])] BY DEF Taken
<1>3. /\ Head(dg[c]) \in ToCore /\ Tail(dg[c]) \in Seq(ToCore)
      /\ Took(dg[c], Tail(dg[c]), Head(dg[c]))
  BY <1>1, Taking
<1>4. dg'[c] = Tail(dg[c]) /\ \A e \in Core : e # c => dg'[e] = dg[e] BY <1>1, <1>2
<1>5. dg' \in [Core -> Seq(ToCore)] BY <1>1, <1>2, <1>3
<1>6. \A M : \A e \in Core : FewerIn(dg[e], dg'[e], M) BY <1>3, <1>4, TakenFewer, NoFewer
<1> QED BY <1>3, <1>4, <1>5, <1>6

\* An answer is appended for the core, or lost with the connection it was for.
LEMMA Replying ==
    ASSUME Shapes, NEW c \in Core, NEW n \in Nat, NEW m \in ToCore, ReplyTo(<<c, n>>, m)
    PROVE  /\ dg' \in [Core -> Seq(ToCore)]
           /\ \A e \in Core : e # c => dg'[e] = dg[e]
           /\ n = link[c] => Put(dg[c], dg'[c], m)
           /\ n # link[c] => dg' = dg
           /\ \A M : \A e \in Core : m \notin M =>
                 FewerIn(dg[e], dg'[e], M) /\ (Has(dg[e], M) => Has(dg'[e], M))
           /\ \A M : \A e \in Core : Has(dg[e], M) => Has(dg'[e], M)
<1>1. dg \in [Core -> Seq(ToCore)] /\ dg[c] \in Seq(ToCore) BY DEF Shapes
<1>2. <<c, n>> = Current(c) <=> n = link[c] BY DEF Current
<1>3. dg' = IF n = link[c] THEN [dg EXCEPT ![c] = Append(dg[c], m)] ELSE dg
  BY <1>2 DEF ReplyTo
<1>4. Append(dg[c], m) \in Seq(ToCore) /\ Put(dg[c], Append(dg[c], m), m) BY <1>1, Appending
<1>5. dg' \in [Core -> Seq(ToCore)] BY <1>1, <1>3, <1>4
<1>6. n = link[c] => Put(dg[c], dg'[c], m) BY <1>1, <1>3, <1>4
<1>7. \A e \in Core : e # c => dg'[e] = dg[e] BY <1>1, <1>3
<1>8. n # link[c] => dg' = dg BY <1>3
<1>9. \A M : \A e \in Core : m \notin M =>
          FewerIn(dg[e], dg'[e], M) /\ (Has(dg[e], M) => Has(dg'[e], M))
  BY <1>6, <1>7, <1>8, NotPut, NoFewer
<1>10. \A M : \A e \in Core : Has(dg[e], M) => Has(dg'[e], M)
  BY <1>6, <1>7, <1>8 DEF Put
<1> QED BY <1>5, <1>6, <1>7, <1>8, <1>9, <1>10

\* A core sends a packet, if it is connected.
LEMMA Sending ==
    ASSUME Shapes, Reports, NEW c \in Core, NEW m \in ToDaemon, m \notin Setups,
           gd' = [gd EXCEPT ![c] = Packet(c, m)]
    PROVE  /\ gd' \in [Core -> Seq(ToDaemon)]
           /\ \A e \in Core : e # c => gd'[e] = gd[e]
           /\ link[c] # 0 => Put(gd[c], gd'[c], m)
           /\ link[c] = 0 => gd' = gd
           /\ \A e \in Core : SetupFirst(gd'[e]) /\ (Has(gd'[e], Setups) <=> Has(gd[e], Setups))
           /\ \A M : \A e \in Core : m \notin M =>
                 FewerIn(gd[e], gd'[e], M) /\ (Has(gd[e], M) => Has(gd'[e], M))
           /\ \A M : \A e \in Core : Has(gd[e], M) => Has(gd'[e], M)
<1>1. gd \in [Core -> Seq(ToDaemon)] /\ gd[c] \in Seq(ToDaemon) BY DEF Shapes
<1>2. gd'[c] = (IF link[c] = 0 THEN gd[c] ELSE Append(gd[c], m)) /\ \A e \in Core : e # c => gd'[e] = gd[e]
  BY <1>1 DEF Packet
<1>3. Append(gd[c], m) \in Seq(ToDaemon) /\ Put(gd[c], Append(gd[c], m), m) BY <1>1, Appending
<1>4. gd' \in [Core -> Seq(ToDaemon)] BY <1>1, <1>3 DEF Packet
<1>5. link[c] # 0 => Put(gd[c], gd'[c], m) BY <1>2, <1>3
<1>6. link[c] = 0 => gd' = gd BY <1>1, <1>2, <1>4
<1>7. \A M : \A e \in Core : m \notin M =>
          FewerIn(gd[e], gd'[e], M) /\ (Has(gd[e], M) => Has(gd'[e], M))
  BY <1>2, <1>5, <1>6, NotPut, NoFewer
<1>8. \A M : \A e \in Core : Has(gd[e], M) => Has(gd'[e], M)
  BY <1>2, <1>5, <1>6 DEF Put
<1>9. \A e \in Core : Has(gd'[e], Setups) <=> Has(gd[e], Setups) BY <1>7, <1>8 DEF FewerIn
<1>10. SetupFirst(Append(gd[c], m))
  <2>1. DOMAIN Append(gd[c], m) = 1 .. Len(gd[c]) + 1 /\ DOMAIN gd[c] = 1 .. Len(gd[c]) /\ Len(gd[c]) \in Nat
        /\ Append(gd[c], m)[Len(gd[c]) + 1] = m
        /\ \A i \in 1 .. Len(gd[c]) : Append(gd[c], m)[i] = gd[c][i]
    BY <1>1
  <2>2. SetupFirst(gd[c]) BY DEF Reports
  <2> QED BY <2>1, <2>2 DEF SetupFirst
<1>11. \A e \in Core : SetupFirst(gd'[e]) BY <1>2, <1>10 DEF Reports
<1> QED BY <1>2, <1>4, <1>5, <1>6, <1>7, <1>8, <1>9, <1>11

\* A query is asked, or the result of the oldest one is handled.
LEMMA Asking ==
    ASSUME Shapes, NEW q \in Asked, queries' = Append(queries, q)
    PROVE  /\ queries' \in Seq(Asked) /\ Put(queries, queries', q)
           /\ \A M : q \notin M => FewerIn(queries, queries', M)
<1>1. queries \in Seq(Asked) BY DEF Shapes
<1>2. queries' \in Seq(Asked) /\ Put(queries, queries', q) BY <1>1, Appending
<1> QED BY <1>2, NotPut

LEMMA Resulting ==
    ASSUME Shapes, queries # <<>>
    PROVE  /\ Head(queries) \in Asked /\ Tail(queries) \in Seq(Asked)
           /\ Took(queries, Tail(queries), Head(queries))
           /\ \A M : FewerIn(queries, Tail(queries), M)
<1>1. queries \in Seq(Asked) BY DEF Shapes
<1>2. Took(queries, Tail(queries), Head(queries)) BY <1>1, Taking
<1> QED BY <1>1, <1>2, Taking, TakenFewer

-----------------------------------------------------------------------------
(* The kinds of packets, answers and queries.                              *)

LEMMA ToDaemonKinds ==
    \A m \in ToDaemon :
       /\ \A d \in Desc : m \in LoginOf(d) <=> m.type = "login" /\ m.desc = d
       /\ \A d \in Desc : m \in LoadOf(d) <=> m.type = "load" /\ m.desc = d
       /\ \A a \in Account : m \in LogoutOf(a) <=> m.type = "logout" /\ m.account = a
       /\ m \in Setups <=> m.type = "setup"
       /\ m.type = "login" => m.desc \in Desc /\ m.account \in Account /\ m.key \in Key
       /\ m.type = "load" => m.desc \in Desc /\ m.account \in Account
       /\ m.type = "logout" => m.account \in Account
       /\ m.type = "setup" => m.logins \subseteq [account : Account, key : Key \cup {NoKey}]
<1> SUFFICES ASSUME NEW m \in ToDaemon
             PROVE  /\ \A d \in Desc : m \in LoginOf(d) <=> m.type = "login" /\ m.desc = d
                    /\ \A d \in Desc : m \in LoadOf(d) <=> m.type = "load" /\ m.desc = d
                    /\ \A a \in Account : m \in LogoutOf(a) <=> m.type = "logout" /\ m.account = a
                    /\ m \in Setups <=> m.type = "setup"
                    /\ m.type = "login" => m.desc \in Desc /\ m.account \in Account /\ m.key \in Key
                    /\ m.type = "load" => m.desc \in Desc /\ m.account \in Account
                    /\ m.type = "logout" => m.account \in Account
                    /\ m.type = "setup" =>
                          m.logins \subseteq [account : Account, key : Key \cup {NoKey}]
  OBVIOUS
<1>1. CASE m \in [type : {"login"}, desc : Desc, account : Account, key : Key]
  BY <1>1 DEF LoginOf, LoadOf, LogoutOf, Setups
<1>2. CASE m \in [type : {"load"}, desc : Desc, account : Account]
  BY <1>2 DEF LoginOf, LoadOf, LogoutOf, Setups
<1>3. CASE m \in [type : {"logout"}, account : Account]
  BY <1>3 DEF LoginOf, LoadOf, LogoutOf, Setups
<1>4. CASE m \in Setups
  BY <1>4 DEF LoginOf, LoadOf, LogoutOf, Setups
<1> QED BY <1>1, <1>2, <1>3, <1>4 DEF ToDaemon

LEMMA ToCoreKinds ==
    \A m \in ToCore :
       /\ \A d \in Desc : m \in AnswerOf(d) <=> m.type \in {"success", "already", "fail"} /\ m.desc = d
       /\ \A d \in Desc : m \in LoadedOf(d) <=> m.type \in {"loaded", "loadfail"} /\ m.desc = d
       /\ \A a \in Account : m \in SuccessOf(a) <=> m.type = "success" /\ m.account = a
       /\ m.desc \in Desc /\ m.account \in Account
BY DEF ToCore, AnswerOf, LoadedOf, SuccessOf

LEMMA AskedKinds ==
    \A q \in Asked :
       /\ \A d \in Desc, c \in Core :
             q \in LoggingIn(d, c) <=> q.query \in {"index", "login"} /\ q.desc = d /\ q.peer[1] = c
       /\ \A d \in Desc : q \in Loading(d) <=> q.query = "load" /\ q.desc = d
       /\ q.desc \in Desc /\ q.account \in Account
       /\ q.peer \in Core \X Nat /\ q.peer = <<q.peer[1], q.peer[2]>>
       /\ q.peer[1] \in Core /\ q.peer[2] \in Nat
BY DEF Asked, LoggingIn, Loading

LEMMA AnswerKind ==
    ASSUME NEW t \in {"success", "already", "fail", "loaded", "loadfail"}, NEW d \in Desc, NEW a \in Account
    PROVE  /\ Answer(t, d, a) \in ToCore
           /\ Answer(t, d, a).type = t /\ Answer(t, d, a).desc = d /\ Answer(t, d, a).account = a
BY DEF Answer, ToCore

LEMMA QueryKind ==
    ASSUME NEW t \in {"index", "login", "load"}, NEW c \in Core, NEW n \in Nat, NEW d \in Desc,
           NEW a \in Account
    PROVE  /\ Query(t, <<c, n>>, d, a) \in Asked
           /\ Query(t, <<c, n>>, d, a).query = t /\ Query(t, <<c, n>>, d, a).desc = d
           /\ Query(t, <<c, n>>, d, a).account = a /\ Query(t, <<c, n>>, d, a).peer[1] = c
BY DEF Query, Asked

-----------------------------------------------------------------------------
(* Who holds an account's lock after the db daemon's steps.                *)

\* An authentication never moves a lock: the object of an account that is logged on is
\* kept, with its peer.
LEMMA AuthLoginHolder ==
    ASSUME LoginDataInv, NEW a \in Account, NEW k \in Key, AuthLogin(a, k)
    PROVE  \A b \in Account : Holder(b)' = Holder(b)
<1>1. \A b \in Account : logon[b] # NoLd =>
         logon[b] \in DOMAIN Kept(a) /\ Kept(a)[logon[b]] = ld[logon[b]]
  <2>1. \A l \in DOMAIN Kept(a) : Kept(a)[l] = ld[l] BY DeleteLoginDataFacts
  <2>2. \A b \in Account : logon[b] # NoLd => logon[b] \in DOMAIN Kept(a)
    BY DeleteLoginDataFacts
  <2> QED BY <2>1, <2>2
<1>2. ASSUME ld' = Kept(a), logon' = logon PROVE \A b \in Account : Holder(b)' = Holder(b)
  BY <1>1, <1>2 DEF Holder
<1>3. ASSUME NEW l \in Ld \ DOMAIN Kept(a),
             ld' = [x \in DOMAIN Kept(a) \cup {l} |->
                      IF x = l THEN [key |-> k, account |-> a, peer |-> NoPeer] ELSE Kept(a)[x]],
             logon' = logon
      PROVE  \A b \in Account : Holder(b)' = Holder(b)
  <2>1. \A x \in DOMAIN Kept(a) : ld'[x] = Kept(a)[x] BY <1>3
  <2> QED BY <1>1, <1>3, <2>1 DEF Holder
<1> QED BY <1>2, <1>3 DEF AuthLogin, Kept

\* Logging accounts off takes their locks and no other.
LEMMA LogoffHolder ==
    ASSUME LoginDataInv,
           NEW gone, \A a \in gone : a \in Account /\ logon[a] # NoLd,
           DeleteLogonAccounts(gone)
    PROVE  \A a \in Account : /\ Holder(a)' = IF a \in gone THEN {} ELSE Holder(a)
                              /\ a \in gone => logon'[a] = NoLd
                              /\ a \notin gone /\ logon[a] # NoLd /\ logon[a] \notin deleted'
                                 => logon[a] \notin deleted
                              /\ a \notin gone => logon'[a] = logon[a]
<1> DEFINE objects == {logon[a] : a \in gone}
           freed == objects \cap deleted
<1>1. \A l \in DOMAIN ld \ freed : ld'[l] = ld[l]
  BY WithoutDef DEF DeleteLogonAccounts
<1>2. logon' = [a \in Account |-> IF a \in gone THEN NoLd ELSE logon[a]] /\ deleted' = deleted \ objects
  BY DEF DeleteLogonAccounts
<1>3. \A a \in Account \ gone : logon[a] # NoLd => logon[a] \notin objects
  BY DEF LoginDataInv, LoggedOnAsOwn
<1>4. \A a \in Account \ gone : logon[a] # NoLd => logon[a] \in DOMAIN ld
  BY DEF LoginDataInv, LoggedOnAsOwn
<1> HIDE DEF objects
<1> TAKE a \in Account
<1>5. CASE a \in gone BY <1>2, <1>5 DEF Holder
<1>6. CASE a \notin gone
  <2>1. logon'[a] = logon[a] BY <1>2, <1>6
  <2>2. logon[a] # NoLd => ld'[logon[a]] = ld[logon[a]] BY <1>1, <1>3, <1>4, <1>6
  <2>3. Holder(a)' = Holder(a) BY <2>1, <2>2 DEF Holder
  <2>4. logon[a] # NoLd /\ logon[a] \notin deleted' => logon[a] \notin deleted
    BY <1>2, <1>3, <1>6
  <2> QED BY <1>6, <2>1, <2>3, <2>4
<1> QED BY <1>5, <1>6

\* RESULT_LOGIN locks an account that was not locked, for the peer that asked.
LEMMA ResultLoginHolder ==
    ASSUME LoginDataInv, NEW a \in Account, NEW p, CanLogOn(a),
           logon' = [logon EXCEPT ![a] = byAccount[a]],
           ld' = [ld EXCEPT ![byAccount[a]] = ConnectedTo(@, p)]
    PROVE  /\ Holder(a) = {} /\ Holder(a)' = {p}
           /\ \A b \in Account : b # a => Holder(b)' = Holder(b)
<1> DEFINE l == byAccount[a]
<1>1. /\ l # NoLd /\ logon[a] = NoLd /\ l \in DOMAIN ld /\ ld[l].account = a
  BY DEF CanLogOn, LoginDataInv, ListedAsOwn
<1>2. logon \in [Account -> Ld \cup {NoLd}] BY DEF LoginDataInv, Maps
<1>3. ld' = [ld EXCEPT ![l] = ConnectedTo(ld[l], p)] OBVIOUS
<1>4. ld'[l] = ConnectedTo(ld[l], p) /\ \A x \in DOMAIN ld : x # l => ld'[x] = ld[x]
  BY <1>1, <1>3
<1>5. ld'[l].peer = p BY <1>4 DEF ConnectedTo
<1>6. logon'[a] = l /\ \A b \in Account : b # a => logon'[b] = logon[b] BY <1>2
<1>7. \A b \in Account : logon[b] # NoLd => logon[b] \in DOMAIN ld /\ ld[logon[b]].account = b
  BY DEF LoginDataInv, LoggedOnAsOwn
<1> HIDE DEF l
<1>8. \A b \in Account : b # a => Holder(b)' = Holder(b)
  BY <1>1, <1>4, <1>6, <1>7 DEF Holder
<1> QED BY <1>1, <1>5, <1>6, <1>8 DEF Holder

\* QUERY_SETUP locks the accounts that are reported and not locked, for the peer that
\* reports them.
LEMMA SetupHolder ==
    ASSUME LoginDataInv, Shapes, NEW c \in Core, Setup(c)
    PROVE  \A a \in Account :
              /\ Holder(a)' = IF logon[a] = NoLd /\ \E x \in Head(gd[c]).logins : x.account = a
                              THEN {Current(c)} ELSE Holder(a)
              /\ logon[a] # NoLd => logon'[a] = logon[a]
              /\ logon[a] = NoLd /\ logon'[a] # NoLd => byAccount'[a] = logon'[a]
              /\ byAccount[a] # NoLd => byAccount'[a] = byAccount[a]
<1> DEFINE logins   == Head(gd[c]).logins
           accounts == {x.account : x \in logins}
           keys     == {x.key : x \in logins}
           entered  == {a \in accounts : logon[a] = NoLd}
<1>0. accounts \subseteq Account
  <2>1. gd[c] \in Seq(ToDaemon) /\ gd[c] # <<>> /\ Head(gd[c]).type = "setup"
    BY DEF Setup, Received, Shapes
  <2>2. Head(gd[c]) \in ToDaemon BY <2>1, Taking
  <2> QED BY <2>1, <2>2, ToDaemonKinds
<1>1. PICK obj \in [logins -> Ld \ DOMAIN ld],
           ofAccount \in [accounts -> logins], ofKey \in [keys -> logins] :
        LET known == [a \in Account |-> IF byAccount[a] = NoLd /\ a \in accounts
                                        THEN obj[ofAccount[a]] ELSE byAccount[a]]
            on    == {known[a] : a \in entered}
        IN /\ \A x, y \in logins : x # y => obj[x] # obj[y]
           /\ \A a \in accounts : ofAccount[a].account = a
           /\ \A k \in keys : ofKey[k].key = k
           /\ ld' = [l \in DOMAIN ld \cup {obj[x] : x \in logins} |->
                 LET r == IF l \in DOMAIN ld THEN ld[l]
                          ELSE ConnectedTo(CHOOSE x \in logins : obj[x] = l, NoPeer)
                 IN IF l \in on THEN ConnectedTo(r, Current(c)) ELSE r]
           /\ byKey' = [k \in Key |-> IF byKey[k] = NoLd /\ k \in keys THEN obj[ofKey[k]] ELSE byKey[k]]
           /\ byAccount' = known
           /\ logon' = [a \in Account |-> IF a \in entered THEN known[a] ELSE logon[a]]
           /\ playing' = playing \cup {obj[ofAccount[a]] : a \in entered}
           /\ UNCHANGED deleted
  BY Zenon DEF Setup
<1> DEFINE known == [a \in Account |-> IF byAccount[a] = NoLd /\ a \in accounts
                                       THEN obj[ofAccount[a]] ELSE byAccount[a]]
           on    == {known[a] : a \in entered}
           r(l) == IF l \in DOMAIN ld THEN ld[l]
                   ELSE ConnectedTo(CHOOSE x \in logins : obj[x] = l, NoPeer)
           dom == DOMAIN ld \cup {obj[x] : x \in logins}
           val(l) == IF l \in on THEN ConnectedTo(r(l), Current(c)) ELSE r(l)
<1>2. ld' = [l \in dom |-> val(l)] BY <1>1, Zenon
<1>3. DOMAIN ld' = dom /\ \A l \in dom : ld'[l] = val(l)
  <2> HIDE DEF dom, val
  <2> QED BY <1>2
<1>4. \A l \in DOMAIN ld : l \notin on => ld'[l] = ld[l] BY <1>3
<1>5. \A l \in dom : l \in on => ld'[l].peer = Current(c)
  <2> SUFFICES ASSUME NEW l \in dom, l \in on PROVE ld'[l].peer = Current(c) OBVIOUS
  <2>1. ld'[l] = ConnectedTo(r(l), Current(c)) BY <1>3
  <2> HIDE DEF r
  <2> QED BY <2>1 DEF ConnectedTo
<1>6. \A a \in accounts : ofAccount[a] \in logins BY <1>1
<1>7. /\ byAccount' = [a \in Account |-> IF byAccount[a] = NoLd /\ a \in accounts
                                         THEN obj[ofAccount[a]] ELSE byAccount[a]]
      /\ logon' = [a \in Account |-> IF a \in entered THEN known[a] ELSE logon[a]]
  BY <1>1
<1>8. \A a \in entered \cap Account : known[a] \in dom /\ known[a] \in on /\ known[a] # NoLd
  <2> SUFFICES ASSUME NEW a \in entered \cap Account
               PROVE  known[a] \in dom /\ known[a] \in on /\ known[a] # NoLd
    OBVIOUS
  <2>1. CASE byAccount[a] = NoLd
    <3>1. known[a] = obj[ofAccount[a]] /\ ofAccount[a] \in logins BY <2>1, <1>6
    <3>2. obj[ofAccount[a]] \in Ld BY <3>1, <1>1
    <3> QED BY <3>1, <3>2, LogonAssumption
  <2>2. CASE byAccount[a] # NoLd
    <3>1. known[a] = byAccount[a] /\ byAccount[a] \in DOMAIN ld
      BY <2>2 DEF LoginDataInv, ListedAsOwn
    <3> QED BY <3>1, <2>2
  <2> QED BY <2>1, <2>2
<1>9. ASSUME NEW b \in Account, logon[b] # NoLd PROVE logon[b] \in DOMAIN ld /\ logon[b] \notin on
  <2>1. logon[b] \in DOMAIN ld /\ ld[logon[b]].account = b
    BY <1>9 DEF LoginDataInv, LoggedOnAsOwn
  <2>2. ASSUME NEW a \in entered, known[a] = logon[b] PROVE FALSE
    <3>1. a \in Account BY <1>0
    <3>2. CASE byAccount[a] # NoLd
      <4>1. known[a] = byAccount[a] /\ ld[byAccount[a]].account = a
        BY <3>1, <3>2 DEF LoginDataInv, ListedAsOwn
      <4> QED BY <4>1, <2>1, <2>2, <1>9
    <3>3. CASE byAccount[a] = NoLd
      <4>1. known[a] = obj[ofAccount[a]] /\ obj[ofAccount[a]] \notin DOMAIN ld
        BY <3>1, <3>3, <1>1, <1>6
      <4> QED BY <4>1, <2>1, <2>2
    <3> QED BY <3>2, <3>3
  <2> QED BY <2>1, <2>2
<1> HIDE DEF on, dom, val, r, known
<1>10. \A a \in Account : a \in entered <=> logon[a] = NoLd /\ \E x \in logins : x.account = a
  OBVIOUS
<1> HIDE DEF entered, accounts, logins
<1> TAKE a \in Account
<1>11. CASE a \in entered
  <2>1. logon'[a] = known[a] /\ known[a] # NoLd /\ ld'[known[a]].peer = Current(c)
    BY <1>5, <1>7, <1>8, <1>11
  <2>2. byAccount'[a] = known[a] /\ (byAccount[a] # NoLd => byAccount'[a] = byAccount[a])
    BY <1>7 DEF known
  <2> QED BY <1>10, <1>11, <2>1, <2>2 DEF Holder, logins
<1>12. CASE a \notin entered
  <2>1. logon'[a] = logon[a] /\ (byAccount[a] # NoLd => byAccount'[a] = byAccount[a])
    BY <1>7, <1>12
  <2>2. logon[a] # NoLd => ld'[logon[a]] = ld[logon[a]] BY <1>4, <1>9
  <2> QED BY <1>10, <1>12, <2>1, <2>2 DEF Holder, logins
<1> QED BY <1>11, <1>12

-----------------------------------------------------------------------------
(* The steps and the sessions.                                             *)

LEMMA NetSame ==
    ASSUME Links, Holders, UNCHANGED netVars, \A a \in Account : Holder(a)' \subseteq peers
    PROVE  Links' /\ Holders'
BY DEF Links, Holders, netVars, Newest, Current

\* No connection loses its account.
BoundKept == \A d \in Desc, c \in Core, a \in Account : BoundTo(d, c, a) => BoundTo(d, c, a)'

\* A step after which the same connections have the same accounts.
LEMMA CalmStep ==
    ASSUME SessionInv, LoginDataInv', Shapes', Links', Holders', LoginFlow',
           UNCHANGED <<link, name>>, SameSessions,
           \A c \in Core : SetupFirst(gd'[c]) /\ (Has(gd'[c], Setups) => Has(gd[c], Setups)),
           \A c \in Core, a \in Account :
              FewerIn(dg[c], dg'[c], SuccessOf(a)) /\ FewerIn(gd[c], gd'[c], LogoutOf(a)),
           \A d \in Desc : desc'[d].phase = "select" => desc[d].phase = "select",
           \A d \in Desc : LoadPending(d)' => LoadPending(d) \/ desc[d].account # NoAccount,
           \A c \in Core, a \in Account :
              /\ link[c] = 1 /\ Holder(a) = {<<c, 1>>}
              /\ Has(dg'[c], SuccessOf(a)) \/ Has(gd'[c], LogoutOf(a)) \/ SomeBound(c, a)
              => Holder(a)' = Holder(a)
    PROVE  SessionInv' /\ BoundKept
<1>1. /\ \A d \in Desc, c \in Core, a \in Account : BoundTo(d, c, a)' <=> BoundTo(d, c, a)
      /\ \A c \in Core, a \in Account : SomeBound(c, a)' <=> SomeBound(c, a)
  BY SameBound
<1>2. Reports' BY DEF SessionInv, Reports
<1>3. LoadFlow'
  <2>1. \A d \in Desc :
           /\ desc'[d].phase = "select" => desc'[d].account # NoAccount
           /\ LoadPending(d)' => LoadPending(d) \/ desc[d].account # NoAccount
           /\ desc'[d].account = desc[d].account
           /\ desc[d].phase = "none" => desc'[d].phase = "none"
    BY DEF SameSessions, SessionInv, LoadFlow, Loads
  <2> QED BY <2>1, LoadsKept DEF SessionInv
<1>4. Locks'
  <2>1. \A c \in Core, a \in Account :
           /\ link[c] = 1 /\ Holder(a) = {<<c, 1>>}
           /\ Has(dg'[c], SuccessOf(a)) \/ Has(gd'[c], LogoutOf(a)) \/ SomeBound(c, a)'
           => Holder(a)' = {<<c, 1>>}
    BY <1>1
  <2> QED BY <1>1, <2>1, LocksKept DEF SessionInv
<1>5. Names' BY <1>1, NamesKept DEF SessionInv
<1> QED BY <1>1, <1>2, <1>3, <1>4, <1>5 DEF SessionInv, BoundKept

\* The same for a step of the db daemon, which leaves the cores alone.
LEMMA DaemonStep ==
    ASSUME SessionInv, LoginDataInv', Shapes', Links', Holders', LoginFlow', UNCHANGED <<link, coreVars>>,
           \A c \in Core : SetupFirst(gd'[c]) /\ (Has(gd'[c], Setups) => Has(gd[c], Setups)),
           \A c \in Core, a \in Account :
              FewerIn(dg[c], dg'[c], SuccessOf(a)) /\ FewerIn(gd[c], gd'[c], LogoutOf(a)),
           \A d \in Desc : LoadPending(d)' => LoadPending(d) \/ desc[d].account # NoAccount,
           \A c \in Core, a \in Account :
              /\ link[c] = 1 /\ Holder(a) = {<<c, 1>>}
              /\ Has(dg'[c], SuccessOf(a)) \/ Has(gd'[c], LogoutOf(a)) \/ SomeBound(c, a)
              => Holder(a)' = Holder(a)
    PROVE  SessionInv'
<1>1. SameSessions BY DEF SameSessions, coreVars
<1>2. \A d \in Desc : desc'[d].phase = "select" => desc[d].phase = "select" BY DEF coreVars
<1> QED BY <1>1, <1>2, CalmStep DEF coreVars

LEMMA DaemonFlow ==
    ASSUME LoginFlow, UNCHANGED desc,
           \A d \in Desc, c \in Core :
              /\ FewerIn(gd[c], gd'[c], LoginOf(d)) /\ FewerIn(dg[c], dg'[c], AnswerOf(d))
              /\ FewerIn(queries, queries', LoggingIn(d, c))
    PROVE  LoginFlow'
<1>1. \A d \in Desc, c \in Core : Waiting(d, c)' <=> Waiting(d, c) BY DEF Waiting, On
<1> QED BY <1>1, FlowKept

LEMMA AuthLoginSession ==
    ASSUME SessionInv, LoginDataInv', NEW a \in Account, NEW k \in Key, AuthLogin(a, k)
    PROVE  SessionInv'
<1>1. UNCHANGED <<logon, queries, netVars, coreVars, gd, dg>> BY DEF AuthLogin
<1>2. issued' \subseteq Account \X Key
  <2>1. issued \subseteq Account \X Key BY DEF SessionInv, Shapes
  <2>2. issued' = issued \/ issued' = issued \cup {<<a, k>>} BY DEF AuthLogin
  <2> QED BY <2>1, <2>2
<1>3. Shapes' BY <1>1, <1>2 DEF SessionInv, Shapes, coreVars, On
<1>4. \A b \in Account : Holder(b)' = Holder(b) BY AuthLoginHolder DEF SessionInv
<1>5. Links' /\ Holders' BY <1>1, <1>4, NetSame DEF SessionInv, Holders
<1>6. \A s, M : FewerIn(s, s, M) BY NoFewer
<1>7. LoginFlow' BY <1>1, <1>6, DaemonFlow DEF SessionInv, coreVars
<1>8. \A d \in Desc : LoadPending(d)' => LoadPending(d) BY <1>1 DEF LoadPending
<1>9. \A c \in Core : SetupFirst(gd'[c]) BY <1>1 DEF SessionInv, Reports
<1> QED BY <1>1, <1>3, <1>4, <1>5, <1>6, <1>7, <1>8, <1>9, DaemonStep DEF netVars

LEMMA RemovePeerSession ==
    ASSUME SessionInv, LoginDataInv', NEW p \in Peer, RemovePeer(p)
    PROVE  SessionInv'
<1>1. /\ UNCHANGED <<queries, issued, link, drops, coreVars, gd, dg>>
      /\ p # Current(p[1]) /\ peers' = peers \ {p} /\ DeleteLogonAccounts(LogonOf(p))
  BY DEF RemovePeer
<1>2. \A a \in Account : Holder(a)' = IF a \in LogonOf(p) THEN {} ELSE Holder(a)
  BY <1>1, LogoffHolder DEF SessionInv, LogonOf
<1>3. \A a \in Account : a \in LogonOf(p) <=> Holder(a) = {p} BY DEF LogonOf, Holder
<1>4. \A c \in Core : p # <<c, link[c]>> BY <1>1 DEF Current
<1>5. Shapes' BY <1>1 DEF SessionInv, Shapes, coreVars, On
<1>6. Links' BY <1>1 DEF SessionInv, Links, Newest
<1>7. Holders'
  <2>1. \A c \in Core : link'[c] # 0 => Current(c)' \in peers'
    BY <1>1, <1>4 DEF SessionInv, Holders, Current
  <2>2. \A a \in Account : Holder(a)' \subseteq peers \ {p}
    <3> TAKE a \in Account
    <3>1. CASE a \in LogonOf(p) BY <1>2, <3>1
    <3>2. CASE a \notin LogonOf(p)
      <4>1. Holder(a)' = Holder(a) /\ Holder(a) # {p} /\ Holder(a) \subseteq peers
        BY <1>2, <1>3, <3>2 DEF SessionInv, Holders
      <4>2. p \notin Holder(a) BY <4>1 DEF Holder
      <4> QED BY <4>1, <4>2
    <3> QED BY <3>1, <3>2
  <2> QED BY <1>1, <2>1, <2>2 DEF Holders
<1>8. \A s, M : FewerIn(s, s, M) BY NoFewer
<1>9. LoginFlow' BY <1>1, <1>8, DaemonFlow DEF SessionInv, coreVars
<1>10. \A d \in Desc : LoadPending(d)' => LoadPending(d) BY <1>1 DEF LoadPending
<1>11. \A c \in Core, a \in Account : link[c] = 1 /\ Holder(a) = {<<c, 1>>} => Holder(a)' = Holder(a)
  BY <1>2, <1>3, <1>4
<1>12. \A c \in Core : SetupFirst(gd'[c]) BY <1>1 DEF SessionInv, Reports
<1> QED BY <1>1, <1>5, <1>6, <1>7, <1>8, <1>9, <1>10, <1>11, <1>12, DaemonStep

LEMMA LogoutSession ==
    ASSUME SessionInv, LoginDataInv', NEW c \in Core, Logout(c)
    PROVE  SessionInv'
<1> DEFINE m == Head(gd[c])
           gone == IF byAccount[m.account] = NoLd THEN {} ELSE {m.account} \cap LogonOf(Current(c))
<1>1. /\ gd[c] # <<>> /\ m.type = "logout" /\ Consume(c) /\ link[c] # 0
      /\ DeleteLogonAccounts(gone)
      /\ UNCHANGED <<queries, issued, netVars, coreVars, dg>>
  BY DEF Logout, Received
<1>2. /\ gd' \in [Core -> Seq(ToDaemon)] /\ m \in ToDaemon /\ Took(gd[c], gd'[c], m)
      /\ \A e \in Core : e # c => gd'[e] = gd[e]
      /\ ~Has(gd'[c], Setups) /\ SetupFirst(gd'[c])
      /\ \A M : \A e \in Core : FewerIn(gd[e], gd'[e], M)
  BY <1>1, DaemonTakes DEF SessionInv
<1>3. \A a \in Account : Holder(a)' = IF a \in gone THEN {} ELSE Holder(a)
  <2>1. \A a \in gone : a \in Account /\ logon[a] # NoLd BY DEF LogonOf
  <2> HIDE DEF gone
  <2> QED BY <1>1, <2>1, LogoffHolder DEF SessionInv
<1>4. m \in LogoutOf(m.account) /\ m.account \in Account BY <1>1, <1>2, ToDaemonKinds
<1>5. Shapes' BY <1>1, <1>2 DEF SessionInv, Shapes, coreVars, On
<1>6. Links' /\ Holders' BY <1>1, <1>3, NetSame DEF SessionInv, Holders
<1>7. \A s, M : FewerIn(s, s, M) BY NoFewer
<1>8. LoginFlow' BY <1>1, <1>2, <1>7, DaemonFlow DEF SessionInv, coreVars
<1>9. \A d \in Desc : LoadPending(d)' => LoadPending(d) BY <1>1, <1>2 DEF LoadPending, FewerIn
<1>10. ASSUME NEW e \in Core, NEW a \in Account, link[e] = 1, Holder(a) = {<<e, 1>>},
              Has(dg'[e], SuccessOf(a)) \/ Has(gd'[e], LogoutOf(a)) \/ SomeBound(e, a)
       PROVE  Holder(a)' = Holder(a)
  <2>1. CASE a \in gone
    <3>1. a = m.account /\ Holder(a) = {Current(c)} BY <2>1 DEF LogonOf, Holder
    <3>2. e = c
      <4>1. Current(c) = <<e, 1>> BY <3>1, <1>10
      <4> QED BY <4>1 DEF Current
    <3>3. Lock(c, a) BY <3>2, <1>10 DEF SessionInv, Locks
    <3>4. Has(gd[c], LogoutOf(a)) /\ ~Has(gd'[c], LogoutOf(a))
      BY <1>2, <1>4, <3>1, <3>3 DEF Took, Lock
    <3> QED BY <1>1, <1>10, <3>2, <3>3, <3>4 DEF Lock
  <2> QED BY <1>3, <2>1
<1>11. \A e \in Core : SetupFirst(gd'[e]) /\ (Has(gd'[e], Setups) => Has(gd[e], Setups))
  BY <1>2 DEF SessionInv, Reports
<1> QED BY <1>1, <1>2, <1>5, <1>6, <1>7, <1>8, <1>9, <1>10, <1>11, DaemonStep DEF netVars

LEMMA SetupSession ==
    ASSUME SessionInv, LoginDataInv', NEW c \in Core, Setup(c)
    PROVE  SessionInv'
<1> DEFINE m == Head(gd[c])
<1>1. /\ gd[c] # <<>> /\ m.type = "setup" /\ Consume(c) /\ link[c] # 0
      /\ UNCHANGED <<queries, issued, netVars, coreVars, dg>>
  BY DEF Setup, Received
<1>2. /\ gd' \in [Core -> Seq(ToDaemon)] /\ m \in ToDaemon /\ Took(gd[c], gd'[c], m)
      /\ \A e \in Core : e # c => gd'[e] = gd[e]
      /\ ~Has(gd'[c], Setups) /\ SetupFirst(gd'[c])
      /\ \A M : \A e \in Core : FewerIn(gd[e], gd'[e], M)
  BY <1>1, DaemonTakes DEF SessionInv
<1>3. \A a \in Account :
         /\ Holder(a)' = {Current(c)} \/ Holder(a)' = Holder(a)
         /\ logon[a] # NoLd => Holder(a)' = Holder(a)
  BY SetupHolder DEF SessionInv
<1>5. Shapes' BY <1>1, <1>2 DEF SessionInv, Shapes, coreVars, On
<1>6. Links' /\ Holders' BY <1>1, <1>3, NetSame DEF SessionInv, Holders
<1>7. \A s, M : FewerIn(s, s, M) BY NoFewer
<1>8. LoginFlow' BY <1>1, <1>2, <1>7, DaemonFlow DEF SessionInv, coreVars
<1>9. \A d \in Desc : LoadPending(d)' => LoadPending(d) BY <1>1, <1>2 DEF LoadPending, FewerIn
<1>10. \A e \in Core, a \in Account : Holder(a) = {<<e, 1>>} => Holder(a)' = Holder(a)
  BY <1>3 DEF Holder
<1>11. \A e \in Core : SetupFirst(gd'[e]) /\ (Has(gd'[e], Setups) => Has(gd[e], Setups))
  BY <1>2 DEF SessionInv, Reports
<1> QED BY <1>1, <1>2, <1>5, <1>6, <1>7, <1>8, <1>9, <1>10, <1>11, DaemonStep DEF netVars

\* QUERY_LOGIN_BY_KEY: the login goes on as a query or as an answer.
LEMMA LoginByKeySession ==
    ASSUME SessionInv, LoginDataInv', NEW c \in Core, LoginByKey(c)
    PROVE  SessionInv'
<1> DEFINE m == Head(gd[c])
           q == Query("index", Current(c), m.desc, m.account)
<1>1. /\ gd[c] # <<>> /\ m.type = "login" /\ Consume(c) /\ link[c] # 0
      /\ UNCHANGED <<dbVars, issued, netVars, coreVars>>
  BY DEF LoginByKey, Received
<1>a. \/ \E t \in {"already", "fail"} :
            ReplyTo(Current(c), Answer(t, m.desc, m.account)) /\ UNCHANGED queries
      \/ queries' = Append(queries, q) /\ UNCHANGED dg
  BY DEF LoginByKey, ReturnQuery
<1>2. /\ gd' \in [Core -> Seq(ToDaemon)] /\ m \in ToDaemon /\ Took(gd[c], gd'[c], m)
      /\ \A e \in Core : e # c => gd'[e] = gd[e]
      /\ ~Has(gd'[c], Setups) /\ SetupFirst(gd'[c])
      /\ \A M : \A e \in Core : FewerIn(gd[e], gd'[e], M)
  BY <1>1, DaemonTakes DEF SessionInv
<1>3. /\ m.desc \in Desc /\ m.account \in Account
      /\ \A d \in Desc : m \in LoginOf(d) <=> m.desc = d
  BY <1>1, <1>2, ToDaemonKinds
<1>4. link[c] \in Nat /\ Current(c) = <<c, link[c]>> BY DEF SessionInv, Links, Current
<1>5. \A s, M : FewerIn(s, s, M) BY NoFewer
<1>6. ASSUME NEW t \in {"already", "fail"},
             ReplyTo(Current(c), Answer(t, m.desc, m.account)), UNCHANGED queries
      PROVE  /\ dg' \in [Core -> Seq(ToCore)] /\ queries' \in Seq(Asked)
             /\ \A e \in Core, a \in Account : FewerIn(dg[e], dg'[e], SuccessOf(a))
             /\ \A e \in Core, d \in Desc : FewerIn(dg[e], dg'[e], LoadedOf(d))
             /\ \A d \in Desc : FewerIn(queries, queries', Loading(d))
             /\ LoginFlow'
  <2> DEFINE r == Answer(t, m.desc, m.account)
  <2>1. /\ r \in ToCore /\ \A d \in Desc : r \in AnswerOf(d) <=> m.desc = d
        /\ \A a \in Account : r \notin SuccessOf(a)
        /\ \A d \in Desc : r \notin LoadedOf(d)
    BY <1>3, AnswerKind, ToCoreKinds
  <2> HIDE DEF r
  <2>2. /\ dg' \in [Core -> Seq(ToCore)] /\ Put(dg[c], dg'[c], r)
        /\ \A e \in Core : e # c => dg'[e] = dg[e]
        /\ \A M : \A e \in Core : r \notin M => FewerIn(dg[e], dg'[e], M)
    BY <1>4, <1>6, <2>1, Replying DEF SessionInv, r
  <2>3. ASSUME NEW d \in Desc, NEW e \in Core PROVE Flow(d, e)'
    <3>1. Flow(d, e) BY DEF SessionInv, LoginFlow
    <3>2. Waiting(d, e)' <=> Waiting(d, e) BY <1>1 DEF Waiting, On, coreVars
    <3>3. CASE e = c /\ d = m.desc
      BY <1>2, <1>3, <1>6, <2>1, <2>2, <3>1, <3>2, <3>3 DEF Took, Put, Flow, Pending
    <3>4. CASE ~(e = c /\ d = m.desc)
      <4>1. FewerIn(gd[e], gd'[e], LoginOf(d)) /\ FewerIn(dg[e], dg'[e], AnswerOf(d))
        BY <1>2, <1>5, <2>1, <2>2, <3>4
      <4> QED BY <1>6, <3>1, <3>2, <4>1 DEF FewerIn, Flow, Pending
    <3> QED BY <3>3, <3>4
  <2> QED BY <1>5, <1>6, <2>1, <2>2, <2>3 DEF LoginFlow, SessionInv, Shapes
<1>7. ASSUME queries' = Append(queries, q), UNCHANGED dg
      PROVE  /\ dg' \in [Core -> Seq(ToCore)] /\ queries' \in Seq(Asked)
             /\ \A e \in Core, a \in Account : FewerIn(dg[e], dg'[e], SuccessOf(a))
             /\ \A e \in Core, d \in Desc : FewerIn(dg[e], dg'[e], LoadedOf(d))
             /\ \A d \in Desc : FewerIn(queries, queries', Loading(d))
             /\ LoginFlow'
  <2>a. q \in Asked /\ q.query = "index" /\ q.desc = m.desc /\ q.peer[1] = c
    BY <1>3, <1>4, QueryKind
  <2> HIDE DEF q
  <2>1. /\ q \in Asked /\ \A d \in Desc, e \in Core : q \in LoggingIn(d, e) <=> m.desc = d /\ e = c
        /\ \A d \in Desc : q \notin Loading(d)
    BY <2>a, AskedKinds
  <2>2. /\ queries' \in Seq(Asked) /\ Put(queries, queries', q)
        /\ \A M : q \notin M => FewerIn(queries, queries', M)
    BY <1>7, <2>1, Asking DEF SessionInv
  <2>3. ASSUME NEW d \in Desc, NEW e \in Core PROVE Flow(d, e)'
    <3>1. Flow(d, e) BY DEF SessionInv, LoginFlow
    <3>2. Waiting(d, e)' <=> Waiting(d, e) BY <1>1 DEF Waiting, On, coreVars
    <3>3. CASE e = c /\ d = m.desc
      BY <1>2, <1>3, <1>7, <2>1, <2>2, <3>1, <3>2, <3>3 DEF Took, Put, Flow, Pending
    <3>4. CASE ~(e = c /\ d = m.desc)
      <4>1. FewerIn(gd[e], gd'[e], LoginOf(d)) /\ FewerIn(queries, queries', LoggingIn(d, e))
        BY <1>2, <1>5, <2>1, <2>2, <3>4
      <4> QED BY <1>7, <3>1, <3>2, <4>1 DEF FewerIn, Flow, Pending
    <3> QED BY <3>3, <3>4
  <2> QED BY <1>5, <1>7, <2>1, <2>2, <2>3 DEF LoginFlow, SessionInv, Shapes
<1>8. /\ dg' \in [Core -> Seq(ToCore)] /\ queries' \in Seq(Asked)
      /\ \A e \in Core, a \in Account : FewerIn(dg[e], dg'[e], SuccessOf(a))
      /\ \A e \in Core, d \in Desc : FewerIn(dg[e], dg'[e], LoadedOf(d))
      /\ \A d \in Desc : FewerIn(queries, queries', Loading(d))
      /\ LoginFlow'
  BY <1>a, <1>6, <1>7
<1>9. Shapes' BY <1>1, <1>2, <1>8 DEF SessionInv, Shapes, coreVars, On
<1>10. \A a \in Account : Holder(a)' = Holder(a) BY <1>1, SameHolder DEF dbVars
<1>11. Links' /\ Holders' BY <1>1, <1>10, NetSame DEF SessionInv, Holders
<1>12. \A d \in Desc : LoadPending(d)' => LoadPending(d) BY <1>2, <1>8 DEF LoadPending, FewerIn
<1>13. \A e \in Core : SetupFirst(gd'[e]) /\ (Has(gd'[e], Setups) => Has(gd[e], Setups))
  BY <1>2 DEF SessionInv, Reports
<1> QED BY <1>1, <1>2, <1>8, <1>9, <1>10, <1>11, <1>12, <1>13, DaemonStep DEF netVars

\* QUERY_PLAYER_LOAD and RESULT_PLAYER_LOAD answer a connection that has an account.
LEMMA PlayerLoadSession ==
    ASSUME SessionInv, LoginDataInv', NEW c \in Core, PlayerLoad(c)
    PROVE  SessionInv'
<1> DEFINE m == Head(gd[c])
           q == Query("load", Current(c), m.desc, m.account)
<1>1. /\ gd[c] # <<>> /\ m.type = "load" /\ Consume(c) /\ link[c] # 0
      /\ UNCHANGED <<issued, netVars, coreVars, logon, ld>>
  BY DEF PlayerLoad, Received, HandOut, dbVars
<1>a. \/ \E t \in {"loaded", "loadfail"} :
            ReplyTo(Current(c), Answer(t, m.desc, m.account)) /\ UNCHANGED queries
      \/ queries' = Append(queries, q) /\ UNCHANGED dg
  BY DEF PlayerLoad, ReturnQuery, HandOut
<1>2. /\ gd' \in [Core -> Seq(ToDaemon)] /\ m \in ToDaemon /\ Took(gd[c], gd'[c], m)
      /\ \A e \in Core : e # c => gd'[e] = gd[e]
      /\ ~Has(gd'[c], Setups) /\ SetupFirst(gd'[c])
      /\ \A M : \A e \in Core : FewerIn(gd[e], gd'[e], M)
  BY <1>1, DaemonTakes DEF SessionInv
<1>3. /\ m.desc \in Desc /\ m.account \in Account /\ m \in LoadOf(m.desc)
  BY <1>1, <1>2, ToDaemonKinds
<1>b. LoadPending(m.desc) BY <1>2, <1>3 DEF LoadPending, Took
<1>4. link[c] \in Nat /\ Current(c) = <<c, link[c]>> BY DEF SessionInv, Links, Current
<1>5. \A s, M : FewerIn(s, s, M) BY NoFewer
<1>6. ASSUME NEW t \in {"loaded", "loadfail"},
             ReplyTo(Current(c), Answer(t, m.desc, m.account)), UNCHANGED queries
      PROVE  /\ dg' \in [Core -> Seq(ToCore)] /\ queries' \in Seq(Asked)
             /\ \A e \in Core, a \in Account : FewerIn(dg[e], dg'[e], SuccessOf(a))
             /\ \A e \in Core, d \in Desc : d # m.desc => FewerIn(dg[e], dg'[e], LoadedOf(d))
             /\ \A e \in Core, d \in Desc : FewerIn(dg[e], dg'[e], AnswerOf(d))
             /\ \A d \in Desc, e \in Core : FewerIn(queries, queries', LoggingIn(d, e))
             /\ \A d \in Desc : FewerIn(queries, queries', Loading(d))
  <2> DEFINE r == Answer(t, m.desc, m.account)
  <2>1. /\ r \in ToCore /\ \A d \in Desc : r \in LoadedOf(d) <=> m.desc = d
        /\ \A a \in Account : r \notin SuccessOf(a)
        /\ \A d \in Desc : r \notin AnswerOf(d)
    BY <1>3, AnswerKind, ToCoreKinds
  <2> HIDE DEF r
  <2>2. /\ dg' \in [Core -> Seq(ToCore)]
        /\ \A M : \A e \in Core : r \notin M => FewerIn(dg[e], dg'[e], M)
    BY <1>4, <1>6, <2>1, Replying DEF SessionInv, r
  <2> QED BY <1>5, <1>6, <2>1, <2>2 DEF SessionInv, Shapes
<1>7. ASSUME queries' = Append(queries, q), UNCHANGED dg
      PROVE  /\ dg' \in [Core -> Seq(ToCore)] /\ queries' \in Seq(Asked)
             /\ \A e \in Core, a \in Account : FewerIn(dg[e], dg'[e], SuccessOf(a))
             /\ \A e \in Core, d \in Desc : FewerIn(dg[e], dg'[e], LoadedOf(d))
             /\ \A e \in Core, d \in Desc : FewerIn(dg[e], dg'[e], AnswerOf(d))
             /\ \A d \in Desc, e \in Core : FewerIn(queries, queries', LoggingIn(d, e))
             /\ \A d \in Desc : d # m.desc => FewerIn(queries, queries', Loading(d))
  <2>a. q \in Asked /\ q.query = "load" /\ q.desc = m.desc
    BY <1>3, <1>4, QueryKind
  <2> HIDE DEF q
  <2>1. /\ q \in Asked /\ \A d \in Desc : q \in Loading(d) <=> m.desc = d
        /\ \A d \in Desc, e \in Core : q \notin LoggingIn(d, e)
    BY <2>a, AskedKinds
  <2>2. queries' \in Seq(Asked) /\ \A M : q \notin M => FewerIn(queries, queries', M)
    BY <1>7, <2>1, Asking DEF SessionInv
  <2> QED BY <1>5, <1>7, <2>1, <2>2 DEF SessionInv, Shapes
<1>8. /\ dg' \in [Core -> Seq(ToCore)] /\ queries' \in Seq(Asked)
      /\ \A e \in Core, a \in Account : FewerIn(dg[e], dg'[e], SuccessOf(a))
      /\ \A e \in Core, d \in Desc : d # m.desc => FewerIn(dg[e], dg'[e], LoadedOf(d))
      /\ \A e \in Core, d \in Desc : FewerIn(dg[e], dg'[e], AnswerOf(d))
      /\ \A d \in Desc, e \in Core : FewerIn(queries, queries', LoggingIn(d, e))
      /\ \A d \in Desc : d # m.desc => FewerIn(queries, queries', Loading(d))
  BY <1>a, <1>6, <1>7
<1>9. Shapes' BY <1>1, <1>2, <1>8 DEF SessionInv, Shapes, coreVars, On
<1>10. \A a \in Account : Holder(a)' = Holder(a) BY <1>1, SameHolder
<1>11. Links' /\ Holders' BY <1>1, <1>10, NetSame DEF SessionInv, Holders
<1>12. \A d \in Desc : LoadPending(d)' => LoadPending(d)
  <2> TAKE d \in Desc
  <2>1. CASE d = m.desc BY <1>b, <2>1
  <2>2. CASE d # m.desc BY <1>2, <1>8, <2>2 DEF LoadPending, FewerIn
  <2> QED BY <2>1, <2>2
<1>13. \A e \in Core : SetupFirst(gd'[e]) /\ (Has(gd'[e], Setups) => Has(gd[e], Setups))
  BY <1>2 DEF SessionInv, Reports
<1>14. LoginFlow' BY <1>1, <1>2, <1>8, DaemonFlow DEF SessionInv, coreVars
<1> QED BY <1>1, <1>2, <1>8, <1>9, <1>10, <1>11, <1>12, <1>13, <1>14, DaemonStep DEF netVars

\* A result that locks nothing: the answer, or the next query, takes the query's place.
LEMMA ResultSession ==
    ASSUME SessionInv, LoginDataInv',
           DropResult \/ ResultLoginByKey \/ ResultPlayerLoad \/ ResultError
    PROVE  SessionInv'
<1> DEFINE q == Head(queries)
           d0 == q.desc
           c0 == q.peer[1]
<1>1. queries # <<>> /\ UNCHANGED <<issued, netVars, coreVars, logon, ld, gd>>
  BY DEF DropResult, ResultLoginByKey, ResultPlayerLoad, ResultError, Answered, HandOut, dbVars
<1>2. /\ q \in Asked /\ Tail(queries) \in Seq(Asked) /\ Took(queries, Tail(queries), q)
      /\ \A M : FewerIn(queries, Tail(queries), M)
  BY <1>1, Resulting DEF SessionInv
<1>3. /\ d0 \in Desc /\ q.account \in Account /\ c0 \in Core /\ q.peer[2] \in Nat
      /\ q.peer = <<c0, q.peer[2]>>
      /\ \A d \in Desc, c \in Core :
            q \in LoggingIn(d, c) <=> q.query \in {"index", "login"} /\ d0 = d /\ c0 = c
      /\ \A d \in Desc : q \in Loading(d) <=> q.query = "load" /\ d0 = d
  BY <1>2, AskedKinds
<1>4. \A s, M : FewerIn(s, s, M) BY NoFewer
<1>5. \A d \in Desc, c \in Core : Waiting(d, c)' <=> Waiting(d, c)
  BY <1>1 DEF Waiting, On, coreVars
<1> HIDE DEF c0
<1>6. CASE queries' = Tail(queries) /\ dg' = dg
  <2>1. Shapes' BY <1>1, <1>2, <1>6 DEF SessionInv, Shapes, coreVars, On
  <2>2. LoginFlow' BY <1>1, <1>2, <1>4, <1>6, DaemonFlow DEF SessionInv, coreVars
  <2>3. \A d \in Desc : LoadPending(d)' => LoadPending(d) BY <1>1, <1>2, <1>6 DEF LoadPending, FewerIn
  <2>4. \A a \in Account : Holder(a)' = Holder(a) BY <1>1, SameHolder
  <2>5. Links' /\ Holders' BY <1>1, <2>4, NetSame DEF SessionInv, Holders
  <2>6. \A e \in Core : SetupFirst(gd'[e]) BY <1>1 DEF SessionInv, Reports
  <2> QED BY <1>1, <1>4, <1>6, <2>1, <2>2, <2>3, <2>4, <2>5, <2>6, DaemonStep DEF netVars
<1>7. CASE /\ q.query = "index" /\ dg' = dg
           /\ queries' = Append(Tail(queries), [q EXCEPT !.query = "login"])
  <2> DEFINE n == [q EXCEPT !.query = "login"]
             t == Tail(queries)
  <2>1. n \in Asked /\ n.query = "login" /\ n.desc = d0 /\ n.peer[1] = c0
    BY <1>2, <1>7 DEF Asked, c0
  <2> HIDE DEF n, t
  <2>2. /\ \A d \in Desc, c \in Core : n \in LoggingIn(d, c) <=> d0 = d /\ c0 = c
        /\ \A d \in Desc : n \notin Loading(d)
    BY <2>1, AskedKinds
  <2>3. queries' \in Seq(Asked) /\ Put(t, queries', n)
    BY <1>2, <1>7, <2>1, Appending DEF n, t
  <2>4. \A M : (n \in M <=> q \in M) =>
           FewerIn(queries, queries', M)
    BY <1>2, <2>3 DEF Put, Took, FewerIn, t
  <2>5. Shapes' BY <1>1, <1>7, <2>3 DEF SessionInv, Shapes, coreVars, On
  <2>6. \A d \in Desc, c \in Core : FewerIn(queries, queries', LoggingIn(d, c))
    BY <1>3, <1>7, <2>2, <2>4
  <2>7. \A d \in Desc : FewerIn(queries, queries', Loading(d)) BY <1>3, <1>7, <2>2, <2>4
  <2>8. LoginFlow' BY <1>1, <1>4, <1>7, <2>6, DaemonFlow DEF SessionInv, coreVars
  <2>9. \A d \in Desc : LoadPending(d)' => LoadPending(d) BY <1>1, <1>7, <2>7 DEF LoadPending, FewerIn
  <2>10. \A a \in Account : Holder(a)' = Holder(a) BY <1>1, SameHolder
  <2>11. Links' /\ Holders' BY <1>1, <2>10, NetSame DEF SessionInv, Holders
  <2>12. \A e \in Core : SetupFirst(gd'[e]) BY <1>1 DEF SessionInv, Reports
  <2> QED BY <1>1, <1>4, <1>7, <2>5, <2>8, <2>9, <2>10, <2>11, <2>12, DaemonStep DEF netVars
<1>8. ASSUME NEW t \in {"fail", "loaded", "loadfail"},
             q.query = (IF t = "fail" THEN "index" ELSE "load"),
             ReplyTo(q.peer, Answer(t, d0, q.account)), queries' = Tail(queries)
      PROVE  SessionInv'
  <2> DEFINE r == Answer(t, d0, q.account)
  <2>1. /\ r \in ToCore /\ \A d \in Desc : r \in AnswerOf(d) <=> t = "fail" /\ d0 = d
        /\ \A a \in Account : r \notin SuccessOf(a)
        /\ \A d \in Desc : r \in LoadedOf(d) <=> t # "fail" /\ d0 = d
    BY <1>3, AnswerKind, ToCoreKinds
  <2> HIDE DEF r
  <2>2. /\ dg' \in [Core -> Seq(ToCore)]
        /\ Put(dg[c0], dg'[c0], r) \/ dg' = dg
        /\ \A e \in Core : e # c0 => dg'[e] = dg[e]
        /\ \A M : \A e \in Core : r \notin M => FewerIn(dg[e], dg'[e], M)
    <3>1. ReplyTo(<<c0, q.peer[2]>>, r) BY <1>3, <1>8 DEF r
    <3>2. Shapes BY DEF SessionInv
    <3> HIDE DEF q
    <3> QED BY <1>3, <2>1, <3>1, <3>2, Replying
  <2>3. ASSUME NEW d \in Desc, NEW c \in Core PROVE Flow(d, c)'
    <3>1. Flow(d, c) BY DEF SessionInv, LoginFlow
    <3>2. CASE r \notin AnswerOf(d) \/ c # c0
      <4>1. FewerIn(dg[c], dg'[c], AnswerOf(d)) BY <1>4, <2>2, <3>2
      <4> QED BY <1>1, <1>2, <1>5, <1>8, <3>1, <4>1 DEF FewerIn, Flow, Pending
    <3>3. CASE r \in AnswerOf(d) /\ c = c0
      <4>1. d = d0 /\ q \in LoggingIn(d, c) BY <1>3, <1>8, <2>1, <3>3
      <4>2. Took(queries, queries', q) BY <1>2, <1>8
      <4> QED BY <1>1, <1>5, <2>2, <3>1, <3>3, <4>1, <4>2 DEF Took, Put, Flow, Pending
    <3> QED BY <3>2, <3>3
  <2>4. Shapes' BY <1>1, <1>2, <1>8, <2>2 DEF SessionInv, Shapes, coreVars, On
  <2>5. \A d \in Desc : LoadPending(d)' => LoadPending(d)
    <3> TAKE d \in Desc
    <3>1. CASE t = "fail" \/ d # d0
      <4>1. \A e \in Core : FewerIn(dg[e], dg'[e], LoadedOf(d)) BY <2>1, <2>2, <3>1
      <4> QED BY <1>1, <1>2, <1>8, <4>1 DEF LoadPending, FewerIn
    <3>2. CASE t # "fail" /\ d = d0
      BY <1>2, <1>3, <1>8, <3>2 DEF LoadPending, Took
    <3> QED BY <3>1, <3>2
  <2>6. \A a \in Account : Holder(a)' = Holder(a) BY <1>1, SameHolder
  <2>7. Links' /\ Holders' BY <1>1, <2>6, NetSame DEF SessionInv, Holders
  <2>8. \A e \in Core : SetupFirst(gd'[e]) BY <1>1 DEF SessionInv, Reports
  <2>9. \A c \in Core, a \in Account : FewerIn(dg[c], dg'[c], SuccessOf(a)) BY <2>1, <2>2
  <2> QED BY <1>1, <1>4, <2>3, <2>4, <2>5, <2>6, <2>7, <2>8, <2>9, DaemonStep DEF netVars, LoginFlow
<1> QED
  <2>1. CASE DropResult BY <2>1, <1>6 DEF DropResult
  <2>2. CASE ResultLoginByKey BY <2>2, <1>7 DEF ResultLoginByKey, Answered
  <2>3. CASE ResultPlayerLoad BY <2>3, <1>8 DEF ResultPlayerLoad, Answered, HandOut
  <2>4. CASE ResultError BY <2>4, <1>8 DEF ResultError, Answered
  <2> QED BY <2>1, <2>2, <2>3, <2>4

\* RESULT_LOGIN: an account nobody holds is locked for the peer that asked, and the answer
\* that says so is the only trace of it on that core.
LEMMA ResultLoginSession ==
    ASSUME SessionInv, LoginDataInv', ResultLogin
    PROVE  SessionInv'
<1> DEFINE q  == Head(queries)
           d0 == q.desc
           c0 == q.peer[1]
           n0 == q.peer[2]
           a0 == q.account
<1>1. /\ queries # <<>> /\ queries' = Tail(queries) /\ q.query = "login" /\ q.peer \in peers
      /\ UNCHANGED <<issued, netVars, coreVars, gd>>
  BY DEF ResultLogin, Answered
<1>2. /\ q \in Asked /\ Tail(queries) \in Seq(Asked) /\ Took(queries, Tail(queries), q)
      /\ \A M : FewerIn(queries, Tail(queries), M)
  BY <1>1, Resulting DEF SessionInv
<1>3. /\ d0 \in Desc /\ a0 \in Account /\ c0 \in Core /\ n0 \in Nat /\ q.peer = <<c0, n0>>
      /\ \A d \in Desc, c \in Core : q \in LoggingIn(d, c) <=> d0 = d /\ c0 = c
  BY <1>1, <1>2, AskedKinds
<1>a. \/ /\ CanLogOn(a0)
         /\ logon' = [logon EXCEPT ![a0] = byAccount[a0]]
         /\ ld' = [ld EXCEPT ![byAccount[a0]] = ConnectedTo(@, q.peer)]
         /\ ReplyTo(q.peer, Answer("success", d0, a0))
      \/ ReplyTo(q.peer, Answer("already", d0, a0)) /\ UNCHANGED dbVars
  BY DEF ResultLogin
<1>4. \A s, M : FewerIn(s, s, M) BY NoFewer
<1>5. \A d \in Desc, c \in Core : Waiting(d, c)' <=> Waiting(d, c)
  BY <1>1 DEF Waiting, On, coreVars
<1>h. Took(queries, queries', q) /\ queries' \in Seq(Asked) /\ q.peer \in peers
  BY <1>1, <1>2
<1> HIDE DEF q, d0, c0, n0, a0
<1>6. ASSUME NEW t \in {"success", "already"}, ReplyTo(q.peer, Answer(t, d0, a0))
      PROVE  /\ LoginFlow' /\ Shapes' /\ LoadFlow'
             /\ n0 = link[c0] => Put(dg[c0], dg'[c0], Answer(t, d0, a0))
             /\ n0 # link[c0] => dg' = dg
             /\ \A e \in Core : e # c0 => dg'[e] = dg[e]
             /\ \A e \in Core, a \in Account : t = "already" \/ a # a0 => FewerIn(dg[e], dg'[e], SuccessOf(a))
             /\ \A d \in Desc : LoadPending(d)' => LoadPending(d)
  <2> DEFINE r == Answer(t, d0, a0)
  <2>1. /\ r \in ToCore /\ \A d \in Desc : r \in AnswerOf(d) <=> d0 = d
        /\ \A a \in Account : r \in SuccessOf(a) <=> t = "success" /\ a = a0
        /\ \A d \in Desc : r \notin LoadedOf(d)
    BY <1>3, AnswerKind, ToCoreKinds
  <2> HIDE DEF r
  <2>2. /\ dg' \in [Core -> Seq(ToCore)]
        /\ n0 = link[c0] => Put(dg[c0], dg'[c0], r)
        /\ n0 # link[c0] => dg' = dg
        /\ \A e \in Core : e # c0 => dg'[e] = dg[e]
        /\ \A M : \A e \in Core : r \notin M => FewerIn(dg[e], dg'[e], M)
    <3>1. ReplyTo(<<c0, n0>>, r) BY <1>3, <1>6 DEF r
    <3>2. Shapes BY DEF SessionInv
    <3> QED BY <1>3, <2>1, <3>1, <3>2, Replying
  <2>3. ASSUME NEW d \in Desc, NEW c \in Core PROVE Flow(d, c)'
    <3>1. Flow(d, c) BY DEF SessionInv, LoginFlow
    <3>2. CASE d # d0 \/ c # c0
      <4>1. FewerIn(dg[c], dg'[c], AnswerOf(d)) BY <1>4, <2>1, <2>2, <3>2
      <4>2. FewerIn(queries, queries', LoggingIn(d, c)) BY <1>h, TakenFewer
      <4> QED BY <1>1, <1>5, <3>1, <4>1, <4>2 DEF FewerIn, Flow, Pending
    <3>3. CASE d = d0 /\ c = c0
      <4>1. q \in LoggingIn(d, c) /\ r \in AnswerOf(d) BY <1>3, <2>1, <3>3
      <4>2. Put(dg[c], dg'[c], r) \/ dg'[c] = dg[c] BY <2>2, <3>3
      <4> QED BY <1>1, <1>h, <1>5, <3>1, <4>1, <4>2 DEF Took, Put, Flow, Pending
    <3> QED BY <3>2, <3>3
  <2>4. Shapes' BY <1>1, <1>h, <2>2 DEF SessionInv, Shapes, coreVars, On
  <2>5. \A d \in Desc : LoadPending(d)' => LoadPending(d)
    <3> TAKE d \in Desc
    <3>1. \A e \in Core : FewerIn(dg[e], dg'[e], LoadedOf(d)) BY <2>1, <2>2
    <3>2. FewerIn(queries, queries', Loading(d)) BY <1>h, TakenFewer
    <3> QED BY <1>1, <3>1, <3>2 DEF LoadPending, FewerIn
  <2>6. LoadFlow' BY <1>1, <2>5 DEF SessionInv, LoadFlow, Loads, coreVars
  <2>7. \A e \in Core, a \in Account : t = "already" \/ a # a0 => FewerIn(dg[e], dg'[e], SuccessOf(a))
    BY <1>6, <2>1, <2>2
  <2> QED BY <2>2, <2>3, <2>4, <2>5, <2>6, <2>7 DEF LoginFlow, r
<1>7. \A e \in Core : SetupFirst(gd'[e]) BY <1>1 DEF SessionInv, Reports
<1>8. CASE ReplyTo(q.peer, Answer("already", d0, a0)) /\ UNCHANGED dbVars
  <2>1. /\ LoginFlow' /\ Shapes'
        /\ \A e \in Core, a \in Account : FewerIn(dg[e], dg'[e], SuccessOf(a))
        /\ \A d \in Desc : LoadPending(d)' => LoadPending(d)
    BY <1>6, <1>8
  <2>2. \A a \in Account : Holder(a)' = Holder(a) BY <1>8, SameHolder DEF dbVars
  <2>3. Links' /\ Holders' BY <1>1, <2>2, NetSame DEF SessionInv, Holders
  <2> QED BY <1>1, <1>4, <1>7, <2>1, <2>2, <2>3, DaemonStep DEF netVars
<1>9. CASE /\ CanLogOn(a0)
           /\ logon' = [logon EXCEPT ![a0] = byAccount[a0]]
           /\ ld' = [ld EXCEPT ![byAccount[a0]] = ConnectedTo(@, q.peer)]
           /\ ReplyTo(q.peer, Answer("success", d0, a0))
  <2> DEFINE r == Answer("success", d0, a0)
  <2>1. /\ LoginFlow' /\ Shapes' /\ LoadFlow'
        /\ n0 = link[c0] => Put(dg[c0], dg'[c0], r)
        /\ n0 # link[c0] => dg' = dg
        /\ \A e \in Core : e # c0 => dg'[e] = dg[e]
        /\ \A e \in Core, a \in Account : a # a0 => FewerIn(dg[e], dg'[e], SuccessOf(a))
    BY <1>6, <1>9
  <2>a. r \in SuccessOf(a0) BY <1>3, AnswerKind, ToCoreKinds
  <2> HIDE DEF r
  <2>2. /\ \A b \in Account : b = a0 => Holder(b) = {} /\ Holder(b)' = {<<c0, n0>>}
        /\ \A b \in Account : b # a0 => Holder(b)' = Holder(b)
    <3>1. LoginDataInv BY DEF SessionInv
    <3>2. PICK a \in Account : a = a0 BY <1>3
    <3>3. /\ Holder(a) = {} /\ Holder(a)' = {q.peer}
          /\ \A b \in Account : b # a => Holder(b)' = Holder(b)
      BY <1>9, <3>1, <3>2, ResultLoginHolder
    <3> QED BY <1>3, <3>2, <3>3
  <2>3. Links' /\ Holders'
    <3>a. <<c0, n0>> \in peers BY <1>3, <1>h
    <3>b. \A b \in Account : Holder(b) \subseteq peers BY DEF SessionInv, Holders
    <3>1. \A b \in Account : Holder(b)' \subseteq peers BY <2>2, <3>a, <3>b
    <3> QED BY <1>1, <3>1, NetSame DEF SessionInv
  <2>4. ASSUME NEW c \in Core, NEW a \in Account, link'[c] = 1 PROVE Lock(c, a)'
    <3>1. Lock(c, a) /\ link[c] = 1 BY <1>1, <2>4 DEF SessionInv, Locks, netVars
    <3>2. /\ \A d \in Desc : BoundTo(d, c, a)' <=> BoundTo(d, c, a)
          /\ SomeBound(c, a)' <=> SomeBound(c, a)
      BY <1>1 DEF BoundTo, Bound, On, coreVars, SomeBound
    <3>3. gd'[c] = gd[c] BY <1>1
    <3>4. CASE a # a0
      <4>1. FewerIn(dg[c], dg'[c], SuccessOf(a)) BY <2>1, <3>4
      <4>2. Holder(a)' = Holder(a) BY <2>2, <3>4
      <4> QED BY <3>1, <3>2, <3>3, <4>1, <4>2 DEF Lock, FewerIn
    <3>5. CASE a = a0
      <4>1. ~Has(dg[c], SuccessOf(a)) /\ ~Has(gd[c], LogoutOf(a)) /\ ~SomeBound(c, a)
        BY <2>2, <3>1, <3>5 DEF Lock
      <4>2. CASE c = c0 /\ n0 = link[c0]
        <5>a. n0 = 1 /\ c = c0 BY <3>1, <4>2
        <5>1. Holder(a)' = {<<c, 1>>} BY <2>2, <3>5, <5>a
        <5>2. Once(dg'[c], SuccessOf(a)) BY <2>1, <3>1, <4>1, <4>2 DEF Put, Lock
        <5> QED BY <3>1, <3>2, <3>3, <4>1, <5>1, <5>2 DEF Lock
      <4>3. CASE ~(c = c0 /\ n0 = link[c0])
        <5>1. dg'[c] = dg[c] BY <2>1, <4>3
        <5> QED BY <3>1, <3>2, <3>3, <4>1, <5>1 DEF Lock
      <4> QED BY <4>2, <4>3
    <3> QED BY <3>4, <3>5
  <2>5. Locks' BY <2>4 DEF Locks
  <2>6. Reports' BY <1>1, <1>7 DEF SessionInv, Reports, netVars
  <2>7. Names'
    <3>1. \A d \in Desc, c \in Core, a \in Account : BoundTo(d, c, a)' <=> BoundTo(d, c, a)
      BY <1>1 DEF BoundTo, Bound, On, coreVars
    <3> QED BY <1>1, <3>1, NamesKept DEF SessionInv, coreVars, netVars
  <2> QED BY <2>1, <2>3, <2>5, <2>6, <2>7 DEF SessionInv
<1> QED BY <1>a, <1>8, <1>9

-----------------------------------------------------------------------------
\* A core's step after which the same connections have the same accounts.
LEMMA CoreStepCalm ==
    ASSUME SessionInv, LoginDataInv', Shapes', LoginFlow', UNCHANGED <<dbVars, netVars, name>>, SameSessions,
           \A c \in Core : SetupFirst(gd'[c]) /\ (Has(gd'[c], Setups) => Has(gd[c], Setups)),
           \A c \in Core, a \in Account :
              FewerIn(dg[c], dg'[c], SuccessOf(a)) /\ FewerIn(gd[c], gd'[c], LogoutOf(a)),
           \A d \in Desc : desc'[d].phase = "select" => desc[d].phase = "select",
           \A d \in Desc : LoadPending(d)' => LoadPending(d) \/ desc[d].account # NoAccount
    PROVE  SessionInv' /\ BoundKept
<1>1. \A a \in Account : Holder(a)' = Holder(a) BY SameHolder DEF dbVars
<1>2. Links' /\ Holders' BY <1>1, NetSame DEF SessionInv, Holders
<1> QED BY <1>1, <1>2, CalmStep DEF netVars

\* A connection changes, but neither its core nor its account, and no queue does.
LEMMA DescStep ==
    ASSUME SessionInv, LoginDataInv',
           UNCHANGED <<dbVars, queries, issued, netVars, name, gd, dg>>,
           gg' \subseteq gg, desc' \in [Desc -> Connection], SameSessions,
           \A d \in Desc :
              /\ desc'[d].asked = desc[d].asked
              /\ desc'[d].phase \in {"login", "select"} => desc[d].phase = desc'[d].phase
    PROVE  SessionInv' /\ BoundKept
<1>1. Shapes' BY DEF SessionInv, Shapes, SameSessions, On
<1>2. \A d \in Desc, c \in Core : Waiting(d, c) => Waiting(d, c)' BY DEF Waiting, On, SameSessions
<1>3. \A s, M : FewerIn(s, s, M) BY NoFewer
<1>4. LoginFlow' BY <1>2, <1>3, FlowKept DEF SessionInv
<1>5. \A d \in Desc : LoadPending(d)' => LoadPending(d) BY DEF LoadPending
<1>6. \A c \in Core : SetupFirst(gd'[c]) BY DEF SessionInv, Reports
<1> QED BY <1>1, <1>3, <1>4, <1>5, <1>6, CoreStepCalm

\* Being pushed out changes the phase of a connection that is there.
LEMMA KickedFacts ==
    ASSUME NEW r \in Connection, r.phase # "none"
    PROVE  /\ Kicked(r) \in Connection /\ Kicked(r).phase # "none"
           /\ Kicked(r).core = r.core /\ Kicked(r).account = r.account /\ Kicked(r).asked = r.asked
           /\ Kicked(r).phase \in {"login", "select"} => r.phase = Kicked(r).phase
<1>1. CASE r.char
  <2>1. Kicked(r) = [r EXCEPT !.disc = TRUE] BY <1>1 DEF Kicked
  <2> QED BY <2>1 DEF Connection
<1>2. CASE ~r.char
  <2>1. Kicked(r) = [r EXCEPT !.phase = "close"] BY <1>2 DEF Kicked
  <2> QED BY <2>1 DEF Connection, Phase
<1> QED BY <1>1, <1>2

LEMMA LeavingSession ==
    ASSUME SessionInv, LoginDataInv', NEW d \in Desc,
           ClientLeaves(d) \/ EndOfFile(d) \/ DisconnectEvent(d)
    PROVE  SessionInv' /\ BoundKept
<1>1. desc \in [Desc -> Connection] /\ desc[d] \in Connection BY DEF SessionInv, Shapes
<1>2. /\ desc[d].phase # "none" /\ UNCHANGED <<dbVars, queries, issued, netVars, name, gg, gd, dg>>
      /\ \/ desc' = [desc EXCEPT ![d].client = FALSE]
         \/ desc' = [desc EXCEPT ![d].phase = "close"]
         \/ desc' = [desc EXCEPT ![d].phase = "close", ![d].disc = FALSE]
  BY DEF ClientLeaves, EndOfFile, DisconnectEvent
<1>3. PICK r \in Connection :
         /\ desc' = [desc EXCEPT ![d] = r] /\ r.core = desc[d].core /\ r.account = desc[d].account
         /\ r.asked = desc[d].asked /\ r.phase # "none"
         /\ r.phase \in {"login", "select"} => desc[d].phase = r.phase
  <2>1. CASE desc' = [desc EXCEPT ![d].client = FALSE]
    <3>1. /\ [desc[d] EXCEPT !.client = FALSE] \in Connection
          /\ desc' = [desc EXCEPT ![d] = [desc[d] EXCEPT !.client = FALSE]]
      BY <1>1, <2>1 DEF Connection
    <3> QED BY <1>1, <1>2, <3>1 DEF Connection
  <2>2. CASE desc' = [desc EXCEPT ![d].phase = "close"]
    <3>1. /\ [desc[d] EXCEPT !.phase = "close"] \in Connection
          /\ desc' = [desc EXCEPT ![d] = [desc[d] EXCEPT !.phase = "close"]]
      BY <1>1, <2>2 DEF Connection, Phase
    <3> QED BY <1>1, <1>2, <3>1 DEF Connection
  <2>3. CASE desc' = [desc EXCEPT ![d].phase = "close", ![d].disc = FALSE]
    <3>1. /\ [desc[d] EXCEPT !.phase = "close", !.disc = FALSE] \in Connection
          /\ desc' = [desc EXCEPT ![d] = [desc[d] EXCEPT !.phase = "close", !.disc = FALSE]]
      BY <1>1, <2>3 DEF Connection, Phase
    <3> QED BY <1>1, <1>2, <3>1 DEF Connection
  <2> QED BY <1>2, <2>1, <2>2, <2>3
<1>4. desc' \in [Desc -> Connection] BY <1>1, <1>3
<1>5. \A e \in Desc : desc'[e] = IF e = d THEN r ELSE desc[e] BY <1>1, <1>3
<1>6. SameSessions BY <1>2, <1>3, <1>5 DEF SameSessions
<1> QED BY <1>2, <1>3, <1>4, <1>5, <1>6, DescStep

LEMMA P2PDisconnectSession ==
    ASSUME SessionInv, LoginDataInv', NEW c \in Core, NEW a \in Account, P2PDisconnect(c, a)
    PROVE  SessionInv' /\ BoundKept
<1> DEFINE d == name[c][a]
<1>1. /\ UNCHANGED <<dbVars, queries, issued, netVars, name, gd, dg>> /\ gg' \subseteq gg
      /\ desc' = IF d = NoDesc THEN desc ELSE [desc EXCEPT ![d] = Kicked(desc[d])]
  BY DEF P2PDisconnect
<1>2. desc \in [Desc -> Connection] /\ d \in Desc \cup {NoDesc} BY DEF SessionInv, Shapes
<1>3. d # NoDesc => desc[d].phase # "none" BY DEF SessionInv, Names, Named, BoundTo, Bound
<1> HIDE DEF d
<1>4. CASE d = NoDesc
  BY <1>1, <1>2, <1>4, DescStep DEF SameSessions
<1>5. CASE d # NoDesc
  <2>1. /\ Kicked(desc[d]) \in Connection /\ Kicked(desc[d]).phase # "none"
        /\ Kicked(desc[d]).core = desc[d].core /\ Kicked(desc[d]).account = desc[d].account
        /\ Kicked(desc[d]).asked = desc[d].asked
        /\ Kicked(desc[d]).phase \in {"login", "select"} => desc[d].phase = Kicked(desc[d]).phase
    BY <1>2, <1>3, <1>5, KickedFacts
  <2>2. /\ desc' \in [Desc -> Connection]
        /\ \A e \in Desc : desc'[e] = IF e = d THEN Kicked(desc[d]) ELSE desc[e]
    BY <1>1, <1>2, <1>5, <2>1
  <2>3. SameSessions BY <1>3, <1>5, <2>1, <2>2 DEF SameSessions
  <2> QED BY <1>1, <2>1, <2>2, <2>3, DescStep
<1> QED BY <1>4, <1>5

\* CharacterSelect asks for the character of a connection that has an account.
LEMMA CharacterSelectSession ==
    ASSUME SessionInv, LoginDataInv', NEW d \in Desc, CharacterSelect(d)
    PROVE  SessionInv' /\ BoundKept
<1> DEFINE c == On(d)
           m == [type |-> "load", desc |-> d, account |-> desc[d].account]
<1>1. /\ desc[d].phase = "select" /\ desc' = [desc EXCEPT ![d].asked = TRUE]
      /\ gd' = [gd EXCEPT ![c] = Packet(c, m)]
      /\ UNCHANGED <<dbVars, queries, issued, netVars, name, gg, dg>>
  BY DEF CharacterSelect
<1>2. /\ desc \in [Desc -> Connection] /\ desc[d] \in Connection
      /\ desc[d].account # NoAccount /\ c \in Core
  BY <1>1 DEF SessionInv, Shapes, LoadFlow, Loads
<1>3. m \in ToDaemon /\ m \notin Setups /\ (\A e \in Desc : m \notin LoginOf(e))
      /\ (\A a \in Account : m \notin LogoutOf(a)) /\ \A e \in Desc : m \in LoadOf(e) <=> e = d
  <2>1. desc[d].account \in Account BY <1>2 DEF Connection
  <2>2. m \in ToDaemon /\ m.type = "load" /\ m.desc = d BY <2>1 DEF ToDaemon
  <2> HIDE DEF m
  <2> QED BY <2>2, ToDaemonKinds
<1> HIDE DEF m, c
<1>4. /\ gd' \in [Core -> Seq(ToDaemon)]
      /\ \A e \in Core : SetupFirst(gd'[e]) /\ (Has(gd'[e], Setups) <=> Has(gd[e], Setups))
      /\ \A M : \A e \in Core : m \notin M => FewerIn(gd[e], gd'[e], M)
  BY <1>1, <1>2, <1>3, Sending DEF SessionInv
<1>5. /\ desc' \in [Desc -> Connection] /\ desc'[d] = [desc[d] EXCEPT !.asked = TRUE]
      /\ \A e \in Desc : e # d => desc'[e] = desc[e]
  BY <1>1, <1>2 DEF Connection
<1>6. /\ desc'[d].phase = desc[d].phase /\ desc'[d].core = desc[d].core
      /\ desc'[d].account = desc[d].account
  BY <1>2, <1>5 DEF Connection
<1>7. SameSessions BY <1>5, <1>6 DEF SameSessions
<1>8. Shapes' BY <1>1, <1>4, <1>5, <1>6 DEF SessionInv, Shapes, On
<1>9. \A s, M : FewerIn(s, s, M) BY NoFewer
<1>10. \A e \in Desc, b \in Core : Waiting(e, b) => Waiting(e, b)'
  BY <1>1, <1>2, <1>5 DEF Waiting, On
<1>11. LoginFlow' BY <1>1, <1>3, <1>4, <1>9, <1>10, FlowKept DEF SessionInv
<1>12. \A e \in Desc : LoadPending(e)' => LoadPending(e) \/ desc[e].account # NoAccount
  <2> TAKE e \in Desc
  <2>1. CASE e = d BY <1>2, <2>1
  <2>2. CASE e # d BY <1>1, <1>3, <1>4, <2>2 DEF LoadPending, FewerIn
  <2> QED BY <2>1, <2>2
<1>13. \A e \in Desc : desc'[e].phase = "select" => desc[e].phase = "select" BY <1>5, <1>6
<1> QED BY <1>1, <1>3, <1>4, <1>7, <1>8, <1>9, <1>11, <1>12, <1>13, CoreStepCalm

\* CInputLogin::LoginByKey starts a login of a connection that has none under way.
LEMMA SendLoginSession ==
    ASSUME SessionInv, LoginDataInv', NEW d \in Desc, NEW a \in Account, NEW k \in Key,
           SendLogin(d, a, k)
    PROVE  SessionInv' /\ BoundKept
<1> DEFINE c == On(d)
           m == [type |-> "login", desc |-> d, account |-> a, key |-> k]
<1>1. /\ desc[d].phase = "login" /\ ~desc[d].asked
      /\ desc' = [desc EXCEPT ![d].key = k, ![d].asked = TRUE]
      /\ gd' = [gd EXCEPT ![c] = Packet(c, m)]
      /\ UNCHANGED <<dbVars, queries, issued, netVars, name, gg, dg>>
  BY DEF SendLogin
<1>2. /\ desc \in [Desc -> Connection] /\ desc[d] \in Connection
      /\ desc[d].account = NoAccount /\ c \in Core
  BY <1>1 DEF SessionInv, Shapes
<1>3. m \in ToDaemon /\ m \notin Setups /\ (\A e \in Desc : m \in LoginOf(e) <=> e = d)
      /\ (\A b \in Account : m \notin LogoutOf(b)) /\ \A e \in Desc : m \notin LoadOf(e)
  <2>1. m \in ToDaemon /\ m.type = "login" /\ m.desc = d BY DEF ToDaemon
  <2> HIDE DEF m
  <2> QED BY <2>1, ToDaemonKinds
<1> HIDE DEF m
<1>4. /\ gd' \in [Core -> Seq(ToDaemon)]
      /\ \A e \in Core : e # c => gd'[e] = gd[e]
      /\ Put(gd[c], gd'[c], m) \/ gd'[c] = gd[c]
      /\ \A e \in Core : SetupFirst(gd'[e]) /\ (Has(gd'[e], Setups) <=> Has(gd[e], Setups))
      /\ \A M : \A e \in Core : m \notin M => FewerIn(gd[e], gd'[e], M)
  <2> HIDE DEF c
  <2> QED BY <1>1, <1>2, <1>3, Sending DEF SessionInv
<1>5. /\ desc' \in [Desc -> Connection] /\ desc'[d] = [desc[d] EXCEPT !.key = k, !.asked = TRUE]
      /\ \A e \in Desc : e # d => desc'[e] = desc[e]
  BY <1>1, <1>2 DEF Connection
<1>6. /\ desc'[d].phase = desc[d].phase /\ desc'[d].core = desc[d].core
      /\ desc'[d].account = desc[d].account /\ desc'[d].asked
  BY <1>2, <1>5 DEF Connection
<1>7. SameSessions BY <1>5, <1>6 DEF SameSessions
<1>8. Shapes' BY <1>1, <1>4, <1>5, <1>6 DEF SessionInv, Shapes, On
<1>9. \A s, M : FewerIn(s, s, M) BY NoFewer
<1>10. ASSUME NEW e \in Desc, NEW b \in Core PROVE Flow(e, b)'
  <2>1. Flow(e, b) BY DEF SessionInv, LoginFlow
  <2>2. CASE e # d
    <3>1. FewerIn(gd[b], gd'[b], LoginOf(e)) BY <1>3, <1>4, <2>2
    <3>2. Waiting(e, b)' <=> Waiting(e, b) BY <1>5, <2>2 DEF Waiting, On
    <3> QED BY <1>1, <2>1, <3>1, <3>2 DEF FewerIn, Flow, Pending
  <2>3. CASE e = d
    <3>1. ~Pending(e, b) BY <1>1, <2>1, <2>3 DEF Flow, Waiting
    <3>2. CASE b = c
      <4>1. Waiting(e, b)' BY <1>2, <1>6, <2>3, <3>2 DEF Waiting, On
      <4>2. Once(gd'[b], LoginOf(e)) BY <1>4, <2>1, <3>1, <3>2 DEF Put, Flow, Pending
      <4> QED BY <1>1, <2>1, <3>1, <4>1, <4>2 DEF Flow, Pending
    <3>3. CASE b # c
      <4>1. gd'[b] = gd[b] BY <1>4, <3>3
      <4> QED BY <1>1, <2>1, <3>1, <4>1 DEF Flow, Pending
    <3> QED BY <3>2, <3>3
  <2> QED BY <2>2, <2>3
<1>11. LoginFlow' BY <1>10 DEF LoginFlow
<1>12. \A e \in Desc : LoadPending(e)' => LoadPending(e)
  BY <1>1, <1>3, <1>4 DEF LoadPending, FewerIn
<1>13. \A e \in Desc : desc'[e].phase = "select" => desc[e].phase = "select" BY <1>5, <1>6
<1> QED BY <1>1, <1>3, <1>4, <1>7, <1>8, <1>9, <1>11, <1>12, <1>13, CoreStepCalm

\* An answer that binds nothing: LoginAlready, PlayerLoad, LOGIN_NOT_EXIST, PLAYER_LOAD_FAILED.
LEMMA AnswerSession ==
    ASSUME SessionInv, LoginDataInv', NEW c \in Core, dg[c] # <<>>, Taken(c), Shapes',
           UNCHANGED <<dbVars, queries, issued, netVars, name, gd>>, SameSessions,
           \A e \in Desc : desc'[e].phase = "select" => desc[e].phase = "select",
           \A e \in Desc : \/ desc'[e].asked = desc[e].asked
                           \/ desc[e].phase = "none"
                           \/ desc[e].account # NoAccount
                           \/ Head(dg[c]) \in AnswerOf(e)
    PROVE  SessionInv' /\ BoundKept
<1> DEFINE m == Head(dg[c])
<1>1. /\ m \in ToCore /\ Took(dg[c], dg'[c], m)
      /\ \A e \in Core : e # c => dg'[e] = dg[e]
      /\ \A M : \A e \in Core : FewerIn(dg[e], dg'[e], M)
  BY CoreTakes DEF SessionInv
<1>2. \A s, M : FewerIn(s, s, M) BY NoFewer
<1>3. ASSUME NEW e \in Desc, NEW b \in Core, Pending(e, b)', Waiting(e, b) PROVE Waiting(e, b)'
  <2>1. /\ desc'[e].phase = "none" <=> desc[e].phase = "none"
        /\ desc'[e].core = desc[e].core /\ desc'[e].account = desc[e].account
    BY DEF SameSessions
  <2>2. CASE desc'[e].asked = desc[e].asked BY <1>3, <2>1, <2>2 DEF Waiting, On
  <2>3. CASE desc[e].phase = "none" BY <2>1, <2>3 DEF Waiting
  <2>4. CASE desc[e].phase # "none" /\ desc[e].account # NoAccount BY <1>3, <2>4 DEF Waiting
  <2>5. CASE desc[e].phase # "none" /\ m \in AnswerOf(e)
    <3>1. Flow(e, c) /\ Flow(e, b) BY DEF SessionInv, LoginFlow
    <3>2. Has(dg[c], AnswerOf(e)) /\ ~Has(dg'[c], AnswerOf(e)) BY <1>1, <2>5, <3>1 DEF Took, Flow
    <3>3. On(e) = c BY <2>5, <3>1, <3>2 DEF Flow, Pending, Waiting
    <3>4. b = c BY <1>3, <2>5, <3>3 DEF Waiting
    <3> QED BY <1>3, <3>1, <3>2, <3>4 DEF Flow, Pending
  <2> QED BY <2>2, <2>3, <2>4, <2>5
<1>4. LoginFlow' BY <1>1, <1>2, <1>3, FlowKept DEF SessionInv
<1>5. \A d \in Desc : LoadPending(d)' => LoadPending(d) BY <1>1 DEF LoadPending, FewerIn
<1>6. \A e \in Core : SetupFirst(gd'[e]) BY DEF SessionInv, Reports
<1> QED BY <1>1, <1>2, <1>4, <1>5, <1>6, CoreStepCalm

\* CInputDB::LoginAlready
LEMMA LoginAlreadySession ==
    ASSUME SessionInv, LoginDataInv', NEW c \in Core, LoginAlready(c)
    PROVE  SessionInv' /\ BoundKept
<1> DEFINE m == Head(dg[c])
           d == m.desc
           a == m.account
           other == name[c][a]
           answered == [desc EXCEPT ![d].asked = FALSE]
<1>1. /\ dg[c] # <<>> /\ m.type = "already" /\ Taken(c)
      /\ UNCHANGED <<dbVars, queries, issued, netVars, name, gd>>
      /\ \/ desc' = desc /\ gg' = gg
         \/ /\ desc[d].phase # "none" /\ other # NoDesc
            /\ desc' = [answered EXCEPT ![other] = Kicked(answered[other])] /\ gg' = gg
         \/ /\ desc[d].phase # "none"
            /\ desc' = answered /\ gg' = gg \cup ((Core \ {c}) \X {a})
  BY DEF LoginAlready, Delivered
<1>2. m \in ToCore /\ dg' \in [Core -> Seq(ToCore)] BY <1>1, CoreTakes DEF SessionInv
<1>3. /\ d \in Desc /\ a \in Account
      /\ \A e \in Desc : m \in AnswerOf(e) <=> e = d
  BY <1>1, <1>2, ToCoreKinds
<1>4. desc \in [Desc -> Connection] /\ other \in Desc \cup {NoDesc} BY <1>3 DEF SessionInv, Shapes
<1>5. other # NoDesc => desc[other].phase # "none"
  BY <1>3 DEF SessionInv, Names, Named, BoundTo, Bound
<1>6. /\ answered \in [Desc -> Connection] /\ answered[d] = [desc[d] EXCEPT !.asked = FALSE]
      /\ \A e \in Desc : e # d => answered[e] = desc[e]
  BY <1>3, <1>4 DEF Connection
<1>7. /\ answered[d].phase = desc[d].phase /\ answered[d].core = desc[d].core
      /\ answered[d].account = desc[d].account
  BY <1>3, <1>4, <1>6 DEF Connection
<1> HIDE DEF answered, other, m
<1>8. /\ desc' \in [Desc -> Connection] /\ SameSessions
      /\ \A e \in Desc : desc'[e].phase \in {"login", "select"} => desc[e].phase = desc'[e].phase
      /\ \A e \in Desc : e # d => desc'[e].asked = desc[e].asked
  <2>1. CASE desc' = desc BY <1>4, <2>1 DEF SameSessions
  <2>2. CASE desc' = answered BY <1>6, <1>7, <2>2 DEF SameSessions
  <2>3. CASE other # NoDesc /\ desc' = [answered EXCEPT ![other] = Kicked(answered[other])]
    <3>1. answered[other] \in Connection /\ other \in Desc BY <1>4, <1>6, <2>3
    <3>a. answered[other].phase # "none" BY <1>5, <1>6, <1>7, <2>3, <3>1
    <3> DEFINE r == Kicked(answered[other])
    <3>2. /\ r \in Connection /\ r.phase # "none"
          /\ r.core = answered[other].core /\ r.account = answered[other].account
          /\ r.asked = answered[other].asked
          /\ r.phase \in {"login", "select"} => answered[other].phase = r.phase
      BY <3>1, <3>a, KickedFacts
    <3> HIDE DEF r
    <3>3. /\ desc' \in [Desc -> Connection]
          /\ \A e \in Desc : desc'[e] = IF e = other THEN r ELSE answered[e]
      BY <1>6, <2>3, <3>1, <3>2 DEF r
    <3>4. \A e \in Desc : /\ desc'[e].phase = "none" <=> answered[e].phase = "none"
                          /\ desc'[e].core = answered[e].core /\ desc'[e].account = answered[e].account
                          /\ desc'[e].asked = answered[e].asked
                          /\ desc'[e].phase \in {"login", "select"} => answered[e].phase = desc'[e].phase
      BY <3>a, <3>2, <3>3
    <3>b. \A e \in Desc : /\ answered[e].phase = desc[e].phase /\ answered[e].core = desc[e].core
                          /\ answered[e].account = desc[e].account
      BY <1>6, <1>7
    <3>5. SameSessions BY <3>b, <3>4 DEF SameSessions
    <3>6. \A e \in Desc : desc'[e].phase \in {"login", "select"} => desc[e].phase = desc'[e].phase
      BY <3>b, <3>4
    <3>7. \A e \in Desc : e # d => desc'[e].asked = desc[e].asked BY <1>6, <3>4
    <3> QED BY <3>3, <3>5, <3>6, <3>7
  <2> QED BY <1>1, <2>1, <2>2, <2>3
<1>9. gg' \subseteq Core \X Account BY <1>1, <1>3 DEF SessionInv, Shapes
<1>10. Shapes' BY <1>1, <1>2, <1>8, <1>9 DEF SessionInv, Shapes, SameSessions, On
<1>11. \A e \in Desc : desc'[e].asked = desc[e].asked \/ m \in AnswerOf(e) BY <1>3, <1>8
<1> QED BY <1>1, <1>8, <1>10, <1>11, AnswerSession DEF m

\* CInputDB::PlayerLoad, and the two answers that refuse.
LEMMA PlayerLoadedSession ==
    ASSUME SessionInv, LoginDataInv', NEW c \in Core, PlayerLoaded(c) \/ Refused(c)
    PROVE  SessionInv' /\ BoundKept
<1> DEFINE m == Head(dg[c])
           d == m.desc
<1>1. /\ dg[c] # <<>> /\ Taken(c)
      /\ UNCHANGED <<dbVars, queries, issued, netVars, name, gd, gg>>
      /\ \/ desc' = desc
         \/ /\ m.type = "loaded" /\ desc[d].phase # "none"
            /\ desc' = [desc EXCEPT ![d].char = TRUE, ![d].phase = "game", ![d].asked = FALSE]
         \/ m.type = "fail" /\ desc' = [desc EXCEPT ![d].asked = FALSE]
  BY DEF PlayerLoaded, Refused, Delivered
<1>2. m \in ToCore /\ dg' \in [Core -> Seq(ToCore)] /\ Took(dg[c], dg'[c], m)
  BY <1>1, CoreTakes DEF SessionInv
<1>3. /\ d \in Desc
      /\ \A e \in Desc : m \in AnswerOf(e) <=> m.type \in {"success", "already", "fail"} /\ e = d
      /\ m.type = "loaded" => m \in LoadedOf(d)
  BY <1>2, ToCoreKinds
<1>4. desc \in [Desc -> Connection] /\ desc[d] \in Connection BY <1>3 DEF SessionInv, Shapes
<1>5. m.type = "loaded" /\ desc[d].phase # "none" => desc[d].account # NoAccount
  BY <1>2, <1>3 DEF Took, SessionInv, LoadFlow, Loads, LoadPending
<1>6. /\ desc' \in [Desc -> Connection] /\ SameSessions
      /\ \A e \in Desc : desc'[e].phase \in {"login", "select"} => desc[e].phase = desc'[e].phase
      /\ \A e \in Desc : \/ desc'[e].asked = desc[e].asked
                         \/ desc[e].account # NoAccount
                         \/ m \in AnswerOf(e)
  <2>1. CASE desc' = desc BY <1>4, <2>1 DEF SameSessions
  <2>2. CASE /\ m.type = "loaded" /\ desc[d].phase # "none"
             /\ desc' = [desc EXCEPT ![d].char = TRUE, ![d].phase = "game", ![d].asked = FALSE]
    <3> DEFINE r == [desc[d] EXCEPT !.char = TRUE, !.phase = "game", !.asked = FALSE]
    <3>1. /\ r \in Connection /\ r.phase = "game" /\ r.core = desc[d].core
          /\ r.account = desc[d].account
      BY <1>4 DEF Connection, Phase
    <3>2. desc' = [desc EXCEPT ![d] = r] BY <1>4, <2>2
    <3> HIDE DEF r
    <3>3. desc' \in [Desc -> Connection] /\ \A e \in Desc : desc'[e] = IF e = d THEN r ELSE desc[e]
      BY <1>3, <1>4, <3>1, <3>2
    <3> QED BY <1>5, <2>2, <3>1, <3>3 DEF SameSessions
  <2>3. CASE m.type = "fail" /\ desc' = [desc EXCEPT ![d].asked = FALSE]
    <3> DEFINE r == [desc[d] EXCEPT !.asked = FALSE]
    <3>1. /\ r \in Connection /\ r.phase = desc[d].phase /\ r.core = desc[d].core
          /\ r.account = desc[d].account
      BY <1>4 DEF Connection
    <3>2. desc' = [desc EXCEPT ![d] = r] BY <1>4, <2>3
    <3> HIDE DEF r
    <3>3. desc' \in [Desc -> Connection] /\ \A e \in Desc : desc'[e] = IF e = d THEN r ELSE desc[e]
      BY <1>3, <1>4, <3>1, <3>2
    <3> QED BY <1>3, <2>3, <3>1, <3>3 DEF SameSessions
  <2> QED BY <1>1, <2>1, <2>2, <2>3
<1> HIDE DEF m
<1>7. Shapes' BY <1>1, <1>2, <1>6 DEF SessionInv, Shapes, SameSessions, On
<1> QED BY <1>1, <1>6, <1>7, AnswerSession DEF m

\* A new connection has left nothing in the queues under its handle.
LEMMA AcceptSession ==
    ASSUME SessionInv, LoginDataInv', NEW d \in Desc, NEW c \in Core, Accept(d, c)
    PROVE  SessionInv' /\ BoundKept
<1>1. /\ desc[d].phase = "none"
      /\ desc' = [desc EXCEPT ![d] = [Closed EXCEPT !.phase = "login", !.core = c, !.client = TRUE]]
      /\ UNCHANGED <<dbVars, queries, issued, netVars, name, gg, gd, dg>>
  BY DEF Accept, Unused
<1> DEFINE r == [Closed EXCEPT !.phase = "login", !.core = c, !.client = TRUE]
<1>2. /\ r \in Connection /\ r.phase = "login" /\ r.core = c /\ r.account = NoAccount
  BY DEF Connection, Closed, Phase
<1> HIDE DEF r
<1>3. /\ desc' \in [Desc -> Connection]
      /\ \A e \in Desc : desc'[e] = IF e = d THEN r ELSE desc[e]
  BY <1>1, <1>2 DEF SessionInv, Shapes, r
<1>4. Shapes' BY <1>1, <1>2, <1>3 DEF SessionInv, Shapes, On
<1>5. ~Has(queries, Loading(d)) /\ \A b \in Core : ~Has(queries, LoggingIn(d, b))
  <2>1. \A i \in 1 .. Len(queries) : queries[i].desc # d BY DEF Accept, Unused
  <2>2. DOMAIN queries = 1 .. Len(queries) BY DEF SessionInv, Shapes
  <2> QED BY <2>1, <2>2 DEF Has, At, Loading, LoggingIn
<1>6. ASSUME NEW b \in Core
      PROVE  ~Has(gd[b], LoginOf(d)) /\ ~Has(gd[b], LoadOf(d))
  <2>1. \A i \in 1 .. Len(gd[b]) : gd[b][i].type \in {"login", "load"} => gd[b][i].desc # d
    BY DEF Accept, Unused
  <2>2. DOMAIN gd[b] = 1 .. Len(gd[b])
    <3>1. gd[b] \in Seq(ToDaemon) BY DEF SessionInv, Shapes
    <3> QED BY <3>1
  <2> QED BY <2>1, <2>2 DEF Has, At, LoginOf, LoadOf
<1>7. ASSUME NEW b \in Core
      PROVE  ~Has(dg[b], AnswerOf(d)) /\ ~Has(dg[b], LoadedOf(d))
  <2>1. \A i \in 1 .. Len(dg[b]) : dg[b][i].desc # d BY DEF Accept, Unused
  <2>2. DOMAIN dg[b] = 1 .. Len(dg[b])
    <3>1. dg[b] \in Seq(ToCore) BY DEF SessionInv, Shapes
    <3> QED BY <3>1
  <2> QED BY <2>1, <2>2 DEF Has, At, AnswerOf, LoadedOf
<1>8. \A e \in Desc, b \in Core : Pending(e, b)' /\ Waiting(e, b) => Waiting(e, b)'
  BY <1>1, <1>3, <1>5, <1>6, <1>7 DEF Pending, Waiting, On
<1>9. \A s, M : FewerIn(s, s, M) BY NoFewer
<1>10. LoginFlow' BY <1>1, <1>8, <1>9, FlowKept DEF SessionInv
<1>11. LoadFlow'
  <2> SUFFICES ASSUME NEW e \in Desc PROVE Loads(e)' BY DEF LoadFlow
  <2>1. Loads(e) BY DEF SessionInv, LoadFlow
  <2>2. LoadPending(e)' <=> LoadPending(e) BY <1>1 DEF LoadPending
  <2>3. CASE e = d
    <3>1. ~LoadPending(e) BY <1>5, <1>6, <1>7, <2>3 DEF LoadPending
    <3> QED BY <1>2, <1>3, <2>2, <2>3, <3>1 DEF Loads
  <2>4. CASE e # d
    <3>1. desc'[e] = desc[e] BY <1>3, <2>4
    <3> QED BY <2>1, <2>2, <3>1 DEF Loads
  <2> QED BY <2>3, <2>4
<1>12. \A e \in Desc, b \in Core, a \in Account : BoundTo(e, b, a)' <=> BoundTo(e, b, a)
  BY <1>1, <1>2, <1>3 DEF BoundTo, Bound, On
<1>13. \A a \in Account : Holder(a)' = Holder(a) BY <1>1, SameHolder DEF dbVars
<1>14. Links' /\ Holders' BY <1>1, <1>13, NetSame DEF SessionInv, Holders
<1>15. Locks' BY <1>1, <1>9, <1>12, <1>13, LocksKept DEF SessionInv, netVars
<1>16. Names' BY <1>1, <1>12, NamesKept DEF SessionInv, netVars
<1>17. Reports' BY <1>1 DEF SessionInv, Reports, netVars
<1> QED BY <1>4, <1>10, <1>11, <1>12, <1>14, <1>15, <1>16, <1>17 DEF SessionInv, BoundKept

\* The connections of a core that DestroyClosed destroys, and those that have an account.
Closing(c) == {d \in Desc : desc[d].phase = "close" /\ On(d) = c}
Leaving(c) == {d \in Closing(c) : desc[d].account # NoAccount}
LogoutsOf(s) == [i \in DOMAIN s |-> [type |-> "logout", account |-> desc[s[i]].account]]

\* The LOGOUTs of DestroyClosed: one for every connection that had an account.
LEMMA LogoutsFacts ==
    ASSUME Shapes, NEW c \in Core, NEW s \in Orders(Leaving(c))
    PROVE  /\ LogoutsOf(s) \in Seq(ToDaemon) /\ ~Has(LogoutsOf(s), Setups)
           /\ \A d \in Desc : ~Has(LogoutsOf(s), LoginOf(d)) /\ ~Has(LogoutsOf(s), LoadOf(d))
           /\ \A a \in Account :
                 /\ Has(LogoutsOf(s), LogoutOf(a)) <=> \E d \in Leaving(c) : desc[d].account = a
                 /\ (\A d, e \in Leaving(c) : desc[d].account = a /\ desc[e].account = a => d = e)
                    => Once(LogoutsOf(s), LogoutOf(a))
<1> DEFINE S == Leaving(c)
           n == Cardinality(S)
           t == LogoutsOf(s)
<1>1. IsFiniteSet(S) /\ n \in Nat
  <2>1. S \subseteq Desc BY DEF Leaving, Closing
  <2> QED BY <2>1, LogonAssumption, FS_Subset, FS_CardinalityType
<1>2. s \in [1 .. n -> S] /\ \A i, j \in 1 .. n : i # j => s[i] # s[j]
  BY DEF Orders
<1>3. \A d \in S : d \in Desc /\ desc[d].account \in Account
  BY DEF Leaving, Closing, Shapes, Connection
<1>4. \A d \in S : \E i \in 1 .. n : s[i] = d
  <2>1. s \in Injection(1 .. n, S) BY <1>2 DEF Injection, IsInjective
  <2>2. IsFiniteSet(1 .. n) /\ Cardinality(1 .. n) = n
    BY <1>1, FS_Interval
  <2>3. s \in Surjection(1 .. n, S) BY <1>1, <2>1, <2>2, FS_Injection
  <2> QED BY <2>3 DEF Surjection
<1> HIDE DEF n, S
<1>5. /\ DOMAIN t = 1 .. n
      /\ \A i \in 1 .. n : t[i] = [type |-> "logout", account |-> desc[s[i]].account]
  BY <1>2 DEF LogoutsOf
<1>6. \A i \in 1 .. n : t[i] \in ToDaemon /\ t[i].type = "logout" /\ t[i].account = desc[s[i]].account
  BY <1>2, <1>3, <1>5 DEF ToDaemon
<1>7. t \in Seq(ToDaemon)
  <2>1. t \in [1 .. n -> ToDaemon] BY <1>5, <1>6 DEF LogoutsOf
  <2> QED BY <1>1, <2>1
<1> HIDE DEF t
<1>8. ~Has(t, Setups) /\ \A d \in Desc : ~Has(t, LoginOf(d)) /\ ~Has(t, LoadOf(d))
  BY <1>5, <1>6, ToDaemonKinds DEF Has, At
<1>9. ASSUME NEW a \in Account
      PROVE  /\ Has(t, LogoutOf(a)) <=> \E d \in S : desc[d].account = a
             /\ (\A d, e \in S : desc[d].account = a /\ desc[e].account = a => d = e)
                => Once(t, LogoutOf(a))
  <2>1. At(t, LogoutOf(a)) = {i \in 1 .. n : desc[s[i]].account = a}
    BY <1>5, <1>6, ToDaemonKinds DEF At
  <2>2. Has(t, LogoutOf(a)) <=> \E d \in S : desc[d].account = a
    BY <1>2, <1>4, <2>1 DEF Has
  <2>3. (\A d, e \in S : desc[d].account = a /\ desc[e].account = a => d = e)
        => Once(t, LogoutOf(a))
    BY <1>2, <2>1 DEF Once
  <2> QED BY <2>2, <2>3
<1> QED BY <1>7, <1>8, <1>9 DEF S, t

\* What DestroyClosed does to the queue of its core.
LEMMA DestroyFacts ==
    ASSUME Shapes, Reports, NEW c \in Core, DestroyClosed(c)
    PROVE  /\ gd' \in [Core -> Seq(ToDaemon)] /\ \A e \in Core : e # c => gd'[e] = gd[e]
           /\ \A e \in Core : SetupFirst(gd'[e])
           /\ \A e \in Core : Has(gd'[e], Setups) => Has(gd[e], Setups)
           /\ \A e \in Core, d \in Desc :
                 FewerIn(gd[e], gd'[e], LoginOf(d)) /\ FewerIn(gd[e], gd'[e], LoadOf(d))
           /\ \A e \in Core, a \in Account : FewerIn(gd[e], gd'[e], SetupOf(a))
           /\ \A a \in Account :
                 /\ Has(gd'[c], LogoutOf(a)) =>
                       Has(gd[c], LogoutOf(a)) \/ \E d \in Leaving(c) : desc[d].account = a
                 /\ Has(gd[c], LogoutOf(a)) => Has(gd'[c], LogoutOf(a))
                 /\ link[c] # 0 /\ (\E d \in Leaving(c) : desc[d].account = a) => Has(gd'[c], LogoutOf(a))
                 /\ /\ Once(gd[c], LogoutOf(a))
                    /\ \/ ~\E d \in Leaving(c) : desc[d].account = a
                       \/ /\ ~Has(gd[c], LogoutOf(a))
                          /\ \A d, e \in Leaving(c) : desc[d].account = a /\ desc[e].account = a => d = e
                    => Once(gd'[c], LogoutOf(a))
<1>1. PICK s \in Orders(Leaving(c)) :
         gd' = [gd EXCEPT ![c] = IF link[c] = 0 THEN gd[c] ELSE gd[c] \o LogoutsOf(s)]
  BY DEF DestroyClosed, Leaving, Closing, LogoutsOf
<1> DEFINE t == LogoutsOf(s)
<1>2. gd \in [Core -> Seq(ToDaemon)] /\ gd[c] \in Seq(ToDaemon) BY DEF Shapes
<1>3. /\ t \in Seq(ToDaemon) /\ ~Has(t, Setups)
      /\ \A d \in Desc : ~Has(t, LoginOf(d)) /\ ~Has(t, LoadOf(d))
      /\ \A a \in Account :
            /\ Has(t, LogoutOf(a)) <=> \E d \in Leaving(c) : desc[d].account = a
            /\ (\A d, e \in Leaving(c) : desc[d].account = a /\ desc[e].account = a => d = e)
               => Once(t, LogoutOf(a))
  BY LogoutsFacts
<1> HIDE DEF t
<1>4. /\ gd[c] \o t \in Seq(ToDaemon)
      /\ \A M : /\ Has(gd[c] \o t, M) <=> Has(gd[c], M) \/ Has(t, M)
                /\ Once(gd[c], M) /\ Once(t, M) /\ ~(Has(gd[c], M) /\ Has(t, M)) => Once(gd[c] \o t, M)
  BY <1>2, <1>3, Joining
<1>5. SetupFirst(gd[c] \o t) BY <1>2, <1>3, ReportKept DEF Reports
<1>6. \A M : ~Has(t, M) => Once(t, M) BY DEF Has, Once
<1>7. gd' = [gd EXCEPT ![c] = IF link[c] = 0 THEN gd[c] ELSE gd[c] \o t] BY <1>1 DEF t
<1>8. gd' \in [Core -> Seq(ToDaemon)] /\ (\A e \in Core : e # c => gd'[e] = gd[e])
      /\ gd'[c] = IF link[c] = 0 THEN gd[c] ELSE gd[c] \o t
  BY <1>2, <1>4, <1>7
<1>9. \A M : ~Has(t, M) => FewerIn(gd[c], gd'[c], M) BY <1>4, <1>6, <1>8 DEF FewerIn
<1>10. \A e \in Core : SetupFirst(gd'[e]) BY <1>5, <1>8 DEF Reports
<1>11. \A e \in Core : Has(gd'[e], Setups) => Has(gd[e], Setups) BY <1>3, <1>8, <1>9 DEF FewerIn
<1>12. \A e \in Core, d \in Desc : FewerIn(gd[e], gd'[e], LoginOf(d)) /\ FewerIn(gd[e], gd'[e], LoadOf(d))
  BY <1>3, <1>8, <1>9, NoFewer
<1>s. \A e \in Core, a \in Account : FewerIn(gd[e], gd'[e], SetupOf(a))
  <2>1. \A a \in Account : ~Has(t, SetupOf(a)) BY <1>3 DEF Has, At, SetupOf
  <2> QED BY <2>1, <1>8, <1>9, NoFewer
<1>13. ASSUME NEW a \in Account
       PROVE  /\ Has(gd'[c], LogoutOf(a)) =>
                    Has(gd[c], LogoutOf(a)) \/ \E d \in Leaving(c) : desc[d].account = a
              /\ Has(gd[c], LogoutOf(a)) => Has(gd'[c], LogoutOf(a))
              /\ link[c] # 0 /\ (\E d \in Leaving(c) : desc[d].account = a) => Has(gd'[c], LogoutOf(a))
              /\ /\ Once(gd[c], LogoutOf(a))
                 /\ \/ ~\E d \in Leaving(c) : desc[d].account = a
                    \/ /\ ~Has(gd[c], LogoutOf(a))
                       /\ \A d, e \in Leaving(c) : desc[d].account = a /\ desc[e].account = a => d = e
                 => Once(gd'[c], LogoutOf(a))
  <2> DEFINE some == \E d \in Leaving(c) : desc[d].account = a
             single == \A d, e \in Leaving(c) : desc[d].account = a /\ desc[e].account = a => d = e
  <2>1. (Has(t, LogoutOf(a)) <=> some) /\ (single => Once(t, LogoutOf(a))) BY <1>3
  <2> HIDE DEF some, single
  <2>2. /\ Has(gd'[c], LogoutOf(a)) => Has(gd[c], LogoutOf(a)) \/ some
        /\ Has(gd[c], LogoutOf(a)) => Has(gd'[c], LogoutOf(a))
        /\ link[c] # 0 /\ some => Has(gd'[c], LogoutOf(a))
    BY <1>4, <1>8, <2>1
  <2>3. Once(gd[c], LogoutOf(a)) /\ (~some \/ (~Has(gd[c], LogoutOf(a)) /\ single))
        => Once(gd'[c], LogoutOf(a))
    BY <1>4, <1>6, <1>8, <2>1
  <2> QED BY <2>2, <2>3 DEF some, single
<1> QED BY <1>8, <1>10, <1>11, <1>12, <1>13, <1>s

LEMMA DestroyClosedSession ==
    ASSUME SessionInv, LoginDataInv', NEW c \in Core, DestroyClosed(c)
    PROVE  SessionInv'
<1>1. /\ UNCHANGED <<dbVars, queries, issued, netVars, gg, dg>>
      /\ name' = DisconnectAccounts(c, {desc[d].account : d \in Leaving(c)})
      /\ desc' = [d \in Desc |-> IF d \in Closing(c) THEN Closed ELSE desc[d]]
  BY DEF DestroyClosed, Leaving, Closing
<1>2. /\ gd' \in [Core -> Seq(ToDaemon)] /\ \A e \in Core : e # c => gd'[e] = gd[e]
      /\ \A e \in Core : SetupFirst(gd'[e])
      /\ \A e \in Core : Has(gd'[e], Setups) => Has(gd[e], Setups)
      /\ \A e \in Core, d \in Desc : FewerIn(gd[e], gd'[e], LoginOf(d)) /\ FewerIn(gd[e], gd'[e], LoadOf(d))
  BY DestroyFacts DEF SessionInv
<1>3. \A a \in Account :
         /\ Has(gd'[c], LogoutOf(a)) =>
               Has(gd[c], LogoutOf(a)) \/ \E d \in Leaving(c) : desc[d].account = a
         /\ /\ Once(gd[c], LogoutOf(a))
            /\ \/ ~\E d \in Leaving(c) : desc[d].account = a
               \/ /\ ~Has(gd[c], LogoutOf(a))
                  /\ \A d, e \in Leaving(c) : desc[d].account = a /\ desc[e].account = a => d = e
            => Once(gd'[c], LogoutOf(a))
  BY DestroyFacts DEF SessionInv
<1>4. Closed \in Connection /\ Closed.phase = "none" BY DEF Closed, Connection, Phase
<1>5. /\ desc' \in [Desc -> Connection]
      /\ \A d \in Desc : desc'[d] = IF d \in Closing(c) THEN Closed ELSE desc[d]
  BY <1>1, <1>4 DEF SessionInv, Shapes
<1>6. /\ name' \in [Core -> [Account -> Desc \cup {NoDesc}]]
      /\ \A e \in Core, a \in Account :
            name'[e][a] = IF e = c /\ \E d \in Leaving(c) : desc[d].account = a THEN NoDesc ELSE name[e][a]
  <2> DEFINE gone == {desc[d].account : d \in Leaving(c)}
  <2>1. name \in [Core -> [Account -> Desc \cup {NoDesc}]] BY DEF SessionInv, Shapes
  <2>2. name' = [name EXCEPT ![c] = [a \in Account |-> IF a \in gone THEN NoDesc ELSE name[c][a]]]
    BY <1>1 DEF DisconnectAccounts
  <2>3. \A a \in Account : a \in gone <=> \E d \in Leaving(c) : desc[d].account = a OBVIOUS
  <2> HIDE DEF gone
  <2> QED BY <2>1, <2>2, <2>3
<1>7. Shapes' BY <1>1, <1>2, <1>4, <1>5, <1>6 DEF SessionInv, Shapes, On
<1>8. \A e \in Desc, b \in Core : Waiting(e, b) => Waiting(e, b)'
  BY <1>4, <1>5 DEF Waiting, On
<1>9. \A s, M : FewerIn(s, s, M) BY NoFewer
<1>10. LoginFlow' BY <1>1, <1>2, <1>8, <1>9, FlowKept DEF SessionInv
<1>11. LoadFlow'
  <2> SUFFICES ASSUME NEW d \in Desc PROVE Loads(d)' BY DEF LoadFlow
  <2>1. Loads(d) BY DEF SessionInv, LoadFlow
  <2>2. LoadPending(d)' => LoadPending(d) BY <1>1, <1>2 DEF LoadPending, FewerIn
  <2>3. CASE d \in Closing(c) BY <1>4, <1>5, <2>3 DEF Loads
  <2>4. CASE d \notin Closing(c)
    <3>1. desc'[d] = desc[d] BY <1>5, <2>4
    <3> QED BY <2>1, <2>2, <3>1 DEF Loads
  <2> QED BY <2>3, <2>4
<1>12. \A a \in Account : Holder(a)' = Holder(a) BY <1>1, SameHolder DEF dbVars
<1>13. Links' /\ Holders' BY <1>1, <1>12, NetSame DEF SessionInv, Holders
<1>14. \A d \in Desc, e \in Core, a \in Account :
          BoundTo(d, e, a)' <=> BoundTo(d, e, a) /\ d \notin Closing(c)
  BY <1>4, <1>5 DEF BoundTo, Bound, On
<1>15. \A d \in Desc, e \in Core, a \in Account :
          BoundTo(d, e, a) /\ d \in Closing(c) <=> e = c /\ d \in Leaving(c) /\ desc[d].account = a
  <2> TAKE d \in Desc, e \in Core, a \in Account
  <2>1. BoundTo(d, e, a) <=> desc[d].phase # "none" /\ desc[d].account # NoAccount
                             /\ desc[d].core = e /\ desc[d].account = a
    BY DEF BoundTo, Bound, On
  <2>2. d \in Closing(c) <=> desc[d].phase = "close" /\ desc[d].core = c BY DEF Closing, On
  <2>3. d \in Leaving(c) <=> d \in Closing(c) /\ desc[d].account # NoAccount BY DEF Leaving
  <2> QED BY <2>1, <2>2, <2>3
<1>16. ASSUME NEW e \in Core, NEW a \in Account, link'[e] = 1 PROVE Lock(e, a)'
  <2>1. Lock(e, a) BY <1>1, <1>16 DEF SessionInv, Locks, netVars
  <2>2. dg'[e] = dg[e] /\ Holder(a)' = Holder(a) BY <1>1, <1>12
  <2>3. SomeBound(e, a)' => SomeBound(e, a) BY <1>14 DEF SomeBound
  <2>4. \A d, f \in Desc : BoundTo(d, e, a)' /\ BoundTo(f, e, a)' => d = f
    BY <1>14, <2>1 DEF Lock
  <2>5. CASE e = c /\ \E d \in Leaving(c) : desc[d].account = a
    <3>1. PICK d \in Leaving(c) : desc[d].account = a BY <2>5
    <3>2. d \in Desc BY DEF Leaving, Closing
    <3>3. BoundTo(d, c, a) /\ d \in Closing(c) BY <1>15, <3>1, <3>2
    <3>4. \A f \in Desc : BoundTo(f, c, a) => f = d BY <2>1, <2>5, <3>2, <3>3 DEF Lock
    <3>5. ~SomeBound(c, a)' BY <1>14, <3>3, <3>4 DEF SomeBound
    <3>6. ~Has(dg[c], SuccessOf(a)) /\ ~Has(gd[c], LogoutOf(a)) /\ Holder(a) = {<<c, 1>>}
      BY <2>1, <2>5, <3>2, <3>3 DEF Lock, SomeBound
    <3>7. \A f, g \in Leaving(c) : desc[f].account = a /\ desc[g].account = a => f = g
      <4>1. \A f \in Leaving(c) : f \in Desc BY DEF Leaving, Closing
      <4> QED BY <1>15, <3>4, <4>1
    <3>8. Once(gd'[c], LogoutOf(a)) BY <1>3, <2>1, <2>5, <3>6, <3>7 DEF Lock
    <3> QED BY <2>1, <2>2, <2>4, <2>5, <3>5, <3>6, <3>8 DEF Lock
  <2>6. CASE ~(e = c /\ \E d \in Leaving(c) : desc[d].account = a)
    <3>1. FewerIn(gd[e], gd'[e], LogoutOf(a))
      <4>1. CASE e = c BY <1>3, <2>6, <4>1 DEF FewerIn
      <4>2. CASE e # c BY <1>2, <1>9, <4>2
      <4> QED BY <4>1, <4>2
    <3> QED BY <2>1, <2>2, <2>3, <2>4, <3>1 DEF Lock, FewerIn
  <2> QED BY <2>5, <2>6
<1>17. Locks' BY <1>16 DEF Locks
<1>18. ASSUME NEW e \in Core, NEW a \in Account PROVE Named(e, a)'
  <2>1. Named(e, a) /\ name[e][a] \in Desc \cup {NoDesc} BY DEF SessionInv, Names, Shapes
  <2>2. CASE e = c /\ \E d \in Leaving(c) : desc[d].account = a
    <3>1. name'[e][a] = NoDesc BY <1>6, <2>2
    <3>2. ASSUME NEW d \in Desc, BoundTo(d, e, a)', link'[e] = 1 PROVE FALSE
      <4>1. link[e] = 1 /\ Lock(e, a) BY <1>1, <3>2 DEF SessionInv, Locks, netVars
      <4>2. PICK f \in Leaving(c) : desc[f].account = a BY <2>2
      <4>3. f \in Desc BY DEF Leaving, Closing
      <4>4. BoundTo(f, e, a) /\ f \in Closing(c) BY <1>15, <2>2, <4>2, <4>3
      <4>5. BoundTo(d, e, a) /\ d \notin Closing(c) BY <1>14, <3>2
      <4> QED BY <4>1, <4>3, <4>4, <4>5 DEF Lock
    <3> QED BY <3>1, <3>2 DEF Named
  <2>3. CASE ~(e = c /\ \E d \in Leaving(c) : desc[d].account = a)
    <3>1. name'[e][a] = name[e][a] BY <1>6, <2>3
    <3>2. \A d \in Desc : BoundTo(d, e, a)' <=> BoundTo(d, e, a) BY <1>14, <1>15, <2>3
    <3>3. link' = link BY <1>1 DEF netVars
    <3>4. \A d \in Desc : BoundTo(d, e, a)' /\ link'[e] = 1 => name'[e][a] = d
      BY <2>1, <3>1, <3>2, <3>3 DEF Named
    <3>5. name'[e][a] # NoDesc => BoundTo(name[e][a], e, a) BY <2>1, <3>1 DEF Named
    <3>6. \A d \in Desc : d = name'[e][a] => BoundTo(d, e, a)' BY <2>1, <3>1, <3>2, <3>5, LogonAssumption
    <3>7. name'[e][a] # NoDesc => BoundTo(name[e][a], e, a)' BY <2>1, <3>1, <3>6
    <3> QED BY <3>1, <3>4, <3>6, <3>7, <2>1 DEF Named
  <2> QED BY <2>2, <2>3
<1>19. Names' BY <1>18 DEF Names
<1>20. Reports' BY <1>1, <1>2 DEF SessionInv, Reports, netVars
<1> QED BY <1>7, <1>10, <1>11, <1>13, <1>17, <1>19, <1>20 DEF SessionInv

\* CInputDB::LoginSuccess: the answer turns into a connection that has the account, or,
\* when the connection is gone, into a LOGOUT.
LEMMA LoginSuccessSession ==
    ASSUME SessionInv, LoginDataInv', NEW c \in Core, LoginSuccess(c)
    PROVE  SessionInv' /\ BoundKept
<1> DEFINE m == Head(dg[c])
           d == m.desc
           a == m.account
           out == [type |-> "logout", account |-> a]
<1>1. /\ dg[c] # <<>> /\ m.type = "success" /\ Taken(c) /\ link[c] # 0
      /\ UNCHANGED <<dbVars, queries, issued, netVars, gg>>
  BY DEF LoginSuccess, Delivered
<1>2. /\ m \in ToCore /\ dg' \in [Core -> Seq(ToCore)] /\ Took(dg[c], dg'[c], m)
      /\ \A e \in Core : e # c => dg'[e] = dg[e]
      /\ \A M : \A e \in Core : FewerIn(dg[e], dg'[e], M)
  BY <1>1, CoreTakes DEF SessionInv
<1>3. /\ d \in Desc /\ a \in Account /\ m \in SuccessOf(a) /\ m \in AnswerOf(d)
  BY <1>1, <1>2, ToCoreKinds
<1>4. /\ desc \in [Desc -> Connection] /\ name \in [Core -> [Account -> Desc \cup {NoDesc}]]
  BY DEF SessionInv, Shapes
<1>a. \/ desc[d].phase = "none" /\ gd' = LoggedOut(c, a) /\ UNCHANGED <<desc, name>>
      \/ /\ desc[d].phase # "none"
         /\ desc' = [desc EXCEPT ![d].account = a, ![d].phase = "select", ![d].asked = FALSE]
         /\ name' = [name EXCEPT ![c][a] = IF @ = NoDesc THEN d ELSE @]
         /\ UNCHANGED gd
  BY DEF LoginSuccess
<1>5. out \in ToDaemon /\ out \notin Setups /\ (\A x \in Account : out \in LogoutOf(x) <=> x = a)
      /\ \A e \in Desc : out \notin LoginOf(e) /\ out \notin LoadOf(e)
  <2>1. out \in ToDaemon /\ out.type = "logout" /\ out.account = a BY <1>3 DEF ToDaemon
  <2> HIDE DEF out
  <2> QED BY <2>1, ToDaemonKinds
<1>b. LoggedOut(c, a) = [gd EXCEPT ![c] = Packet(c, out)] BY <1>1 DEF LoggedOut, Packet
<1> HIDE DEF m, d, a, out
<1>6. \A s, M : FewerIn(s, s, M) BY NoFewer
<1>7. Has(dg[c], AnswerOf(d)) /\ Has(dg[c], SuccessOf(a)) BY <1>2, <1>3 DEF Took
<1>8. Flow(d, c) BY <1>3 DEF SessionInv, LoginFlow
<1>9. ASSUME link[c] = 1
      PROVE  /\ Once(dg[c], SuccessOf(a)) /\ ~Has(gd[c], LogoutOf(a)) /\ ~SomeBound(c, a)
             /\ Holder(a) = {<<c, 1>>} /\ ~Has(dg'[c], SuccessOf(a)) /\ Once(dg'[c], SuccessOf(a))
             /\ Once(gd[c], LogoutOf(a))
  <2>1. Lock(c, a) BY <1>3, <1>9 DEF SessionInv, Locks
  <2> QED BY <1>2, <1>3, <1>7, <2>1 DEF Lock, Took
<1>10. \A x \in Account : Holder(x)' = Holder(x) BY <1>1, SameHolder DEF dbVars
<1>11. Links' /\ Holders' BY <1>1, <1>10, NetSame DEF SessionInv, Holders
<1>12. CASE desc[d].phase = "none"
  <2>1. gd' = [gd EXCEPT ![c] = Packet(c, out)] /\ UNCHANGED <<desc, name>> BY <1>a, <1>b, <1>12
  <2>2. /\ gd' \in [Core -> Seq(ToDaemon)] /\ Put(gd[c], gd'[c], out)
        /\ \A e \in Core : e # c => gd'[e] = gd[e]
        /\ \A e \in Core : SetupFirst(gd'[e]) /\ (Has(gd'[e], Setups) <=> Has(gd[e], Setups))
        /\ \A M : \A e \in Core : out \notin M => FewerIn(gd[e], gd'[e], M)
    BY <1>1, <1>5, <2>1, Sending DEF SessionInv
  <2>3. Shapes' BY <1>1, <1>2, <2>1, <2>2 DEF SessionInv, Shapes, On
  <2>4. LoginFlow' BY <1>1, <1>2, <1>5, <1>6, <2>1, <2>2, DaemonFlow DEF SessionInv
  <2>5. LoadFlow'
    <3>1. \A e \in Desc : LoadPending(e)' => LoadPending(e)
      BY <1>1, <1>2, <1>5, <2>2 DEF LoadPending, FewerIn
    <3> QED BY <2>1, <3>1 DEF SessionInv, LoadFlow, Loads
  <2>6. Reports' BY <1>1, <2>2 DEF SessionInv, Reports, netVars
  <2>7. /\ \A e \in Desc, b \in Core, x \in Account : BoundTo(e, b, x)' <=> BoundTo(e, b, x)
        /\ \A b \in Core, x \in Account : SomeBound(b, x)' <=> SomeBound(b, x)
    BY <2>1 DEF BoundTo, Bound, On, SomeBound
  <2>8. Names' BY <1>1, <2>1, <2>7, NamesKept DEF SessionInv, netVars
  <2>9. ASSUME NEW b \in Core, NEW x \in Account, link'[b] = 1 PROVE Lock(b, x)'
    <3>1. Lock(b, x) /\ link[b] = 1 BY <1>1, <2>9 DEF SessionInv, Locks, netVars
    <3>2. CASE b = c /\ x = a
      <4>1. Once(gd'[c], LogoutOf(a)) BY <1>9, <2>2, <3>1, <3>2 DEF Put
      <4>2. \A e, f \in Desc : BoundTo(e, b, x)' /\ BoundTo(f, b, x)' => e = f
        BY <2>7, <3>1 DEF Lock
      <4>3. /\ Once(dg'[b], SuccessOf(x)) /\ ~Has(dg'[b], SuccessOf(x)) /\ ~SomeBound(b, x)'
            /\ Holder(x)' = {<<b, 1>>}
        BY <1>9, <1>10, <2>7, <3>1, <3>2
      <4> QED BY <3>2, <4>1, <4>2, <4>3 DEF Lock
    <3>3. CASE ~(b = c /\ x = a)
      <4>1. FewerIn(gd[b], gd'[b], LogoutOf(x))
        <5>1. CASE b = c BY <1>5, <2>2, <3>3, <5>1
        <5>2. CASE b # c BY <1>6, <2>2, <5>2
        <5> QED BY <5>1, <5>2
      <4>2. FewerIn(dg[b], dg'[b], SuccessOf(x)) BY <1>2
      <4> QED BY <1>10, <2>7, <3>1, <4>1, <4>2 DEF Lock, FewerIn
    <3> QED BY <3>2, <3>3
  <2>10. Locks' BY <2>9 DEF Locks
  <2> QED BY <1>11, <2>3, <2>4, <2>5, <2>6, <2>7, <2>8, <2>10 DEF SessionInv, BoundKept
<1>13. CASE desc[d].phase # "none"
  <2>1. /\ desc' = [desc EXCEPT ![d].account = a, ![d].phase = "select", ![d].asked = FALSE]
        /\ name' = [name EXCEPT ![c][a] = IF @ = NoDesc THEN d ELSE @]
        /\ UNCHANGED gd
    BY <1>a, <1>13
  <2>2. /\ desc' \in [Desc -> Connection] /\ \A e \in Desc : e # d => desc'[e] = desc[e]
        /\ desc'[d].phase = "select" /\ desc'[d].account = a /\ desc'[d].core = desc[d].core
    <3> DEFINE r == [desc[d] EXCEPT !.account = a, !.phase = "select", !.asked = FALSE]
    <3>1. /\ r \in Connection /\ r.phase = "select" /\ r.account = a /\ r.core = desc[d].core
      BY <1>3, <1>4 DEF Connection, Phase
    <3>2. desc' = [desc EXCEPT ![d] = r] BY <1>3, <1>4, <2>1 DEF Connection
    <3> HIDE DEF r
    <3> QED BY <1>3, <1>4, <3>1, <3>2
  <2>3. On(d) = c /\ desc[d].account = NoAccount BY <1>7, <1>8, <1>13 DEF Flow, Pending, Waiting
  <2>4. /\ name' \in [Core -> [Account -> Desc \cup {NoDesc}]]
        /\ \A b \in Core, x \in Account :
              name'[b][x] = IF b = c /\ x = a /\ name[b][x] = NoDesc THEN d ELSE name[b][x]
    BY <1>3, <1>4, <2>1
  <2>5. Shapes' BY <1>1, <1>2, <2>1, <2>2, <2>3, <2>4 DEF SessionInv, Shapes, On
  <2>6. ASSUME NEW e \in Desc, NEW b \in Core, Pending(e, b)', Waiting(e, b) PROVE Waiting(e, b)'
    <3>1. CASE e # d BY <2>2, <2>6, <3>1 DEF Waiting, On
    <3>2. CASE e = d
      <4>1. b = c BY <1>13, <2>3, <2>6, <3>2 DEF Waiting
      <4>2. ~Has(dg'[c], AnswerOf(d)) BY <1>2, <1>3, <1>8 DEF Flow, Took
      <4>3. ~Has(gd[c], LoginOf(d)) /\ ~Has(queries, LoggingIn(d, c)) BY <1>7, <1>8 DEF Flow
      <4>4. ~Pending(e, b)' BY <1>1, <2>1, <3>2, <4>1, <4>2, <4>3 DEF Pending
      <4> QED BY <2>6, <4>4
    <3> QED BY <3>1, <3>2
  <2>7. LoginFlow' BY <1>1, <1>2, <1>6, <2>1, <2>6, FlowKept DEF SessionInv
  <2>8. LoadFlow'
    <3>1. \A e \in Desc : LoadPending(e)' => LoadPending(e)
      BY <1>1, <1>2, <2>1 DEF LoadPending, FewerIn
    <3>2. a # NoAccount BY <1>3, LogonAssumption
    <3> QED BY <2>2, <3>1, <3>2 DEF SessionInv, LoadFlow, Loads
  <2>9. Reports' BY <1>1, <2>1 DEF SessionInv, Reports, netVars
  <2>10. \A e \in Desc, b \in Core, x \in Account :
            BoundTo(e, b, x)' <=> BoundTo(e, b, x) \/ (e = d /\ b = c /\ x = a)
    <3> TAKE e \in Desc, b \in Core, x \in Account
    <3>1. CASE e # d BY <2>2, <3>1 DEF BoundTo, Bound, On
    <3>2. CASE e = d
      <4>1. a # NoAccount BY <1>3, LogonAssumption
      <4> QED BY <2>2, <2>3, <3>2, <4>1 DEF BoundTo, Bound, On
    <3> QED BY <3>1, <3>2
  <2>11. ASSUME NEW b \in Core, NEW x \in Account, link'[b] = 1 PROVE Lock(b, x)'
    <3>1. Lock(b, x) /\ link[b] = 1 BY <1>1, <2>11 DEF SessionInv, Locks, netVars
    <3>2. CASE b = c /\ x = a
      <4>1. \A e \in Desc : ~BoundTo(e, c, a) BY <1>9, <3>1, <3>2 DEF SomeBound
      <4>2. \A e, f \in Desc : BoundTo(e, b, x)' /\ BoundTo(f, b, x)' => e = f
        BY <2>10, <3>2, <4>1
      <4>3. /\ Once(dg'[b], SuccessOf(x)) /\ ~Has(dg'[b], SuccessOf(x))
            /\ Once(gd'[b], LogoutOf(x)) /\ ~Has(gd'[b], LogoutOf(x)) /\ Holder(x)' = {<<b, 1>>}
        BY <1>9, <1>10, <2>1, <3>1, <3>2
      <4> QED BY <4>2, <4>3 DEF Lock
    <3>3. CASE ~(b = c /\ x = a)
      <4>1. \A e \in Desc : BoundTo(e, b, x)' <=> BoundTo(e, b, x) BY <2>10, <3>3
      <4>2. SomeBound(b, x)' <=> SomeBound(b, x) BY <4>1 DEF SomeBound
      <4>3. FewerIn(dg[b], dg'[b], SuccessOf(x)) /\ gd'[b] = gd[b] /\ Holder(x)' = Holder(x)
        BY <1>2, <1>10, <2>1
      <4> QED BY <3>1, <4>1, <4>2, <4>3 DEF Lock, FewerIn
    <3> QED BY <3>2, <3>3
  <2>12. Locks' BY <2>11 DEF Locks
  <2>13. ASSUME NEW b \in Core, NEW x \in Account PROVE Named(b, x)'
    <3>1. Named(b, x) /\ name[b][x] \in Desc \cup {NoDesc} BY <1>4 DEF SessionInv, Names
    <3>2. name'[b][x] = IF b = c /\ x = a /\ name[b][x] = NoDesc THEN d ELSE name[b][x] BY <2>4
    <3>3. link' = link BY <1>1 DEF netVars
    <3>4. \A e \in Desc : BoundTo(e, b, x)' <=> BoundTo(e, b, x) \/ (e = d /\ b = c /\ x = a)
      BY <2>10
    <3>5. \A e \in Desc : e = name'[b][x] => BoundTo(e, b, x)'
      BY <3>1, <3>2, <3>4, LogonAssumption DEF Named
    <3>6. name'[b][x] # NoDesc => BoundTo(name[b][x], b, x)' \/ name'[b][x] = d
      BY <3>1, <3>2, <3>4 DEF Named
    <3>7. \A e \in Desc : BoundTo(e, b, x)' /\ link'[b] = 1 => name'[b][x] = e
      <4> SUFFICES ASSUME NEW e \in Desc, BoundTo(e, b, x)', link[b] = 1 PROVE name'[b][x] = e
        BY <3>3
      <4>1. CASE BoundTo(e, b, x)
        <5>1. name[b][x] = e BY <3>1, <4>1 DEF Named
        <5> QED BY <3>2, <5>1, LogonAssumption
      <4>2. CASE ~BoundTo(e, b, x)
        <5>1. e = d /\ b = c /\ x = a BY <3>4, <4>2
        <5>2. ~SomeBound(c, a) BY <1>9, <5>1
        <5>3. name[b][x] = NoDesc BY <3>1, <5>1, <5>2 DEF Named, SomeBound
        <5> QED BY <3>2, <5>1, <5>3
      <4> QED BY <4>1, <4>2
    <3> QED BY <1>3, <3>1, <3>2, <3>5, <3>7 DEF Named
  <2>14. Names' BY <2>13 DEF Names
  <2> QED BY <1>11, <2>5, <2>7, <2>8, <2>9, <2>10, <2>12, <2>14 DEF SessionInv, BoundKept
<1> QED BY <1>12, <1>13

\* The connection to the db daemon breaks: what was on its way is lost, and what was bound
\* on the core no longer excludes anything.
LEMMA LinkDropsSession ==
    ASSUME SessionInv, LoginDataInv', NEW c \in Core, LinkDrops(c)
    PROVE  SessionInv'
<1>1. /\ link[c] # 0 /\ drops' = drops + 1 /\ link' = [link EXCEPT ![c] = 0]
      /\ gd' = [gd EXCEPT ![c] = <<>>] /\ dg' = [dg EXCEPT ![c] = <<>>]
      /\ UNCHANGED <<dbVars, queries, issued, peers, coreVars>>
  BY DEF LinkDrops
<1>2. /\ gd \in [Core -> Seq(ToDaemon)] /\ dg \in [Core -> Seq(ToCore)]
      /\ drops \in Nat /\ link \in [Core -> Nat]
  BY DEF SessionInv, Shapes, Links
<1>3. /\ gd' \in [Core -> Seq(ToDaemon)] /\ dg' \in [Core -> Seq(ToCore)]
      /\ gd'[c] = <<>> /\ dg'[c] = <<>>
      /\ \A e \in Core : e # c => gd'[e] = gd[e] /\ dg'[e] = dg[e]
  BY <1>1, <1>2
<1>4. link' \in [Core -> Nat] /\ link'[c] = 0 /\ \A e \in Core : e # c => link'[e] = link[e]
  BY <1>1, <1>2
<1>5. Shapes' BY <1>1, <1>3 DEF SessionInv, Shapes, coreVars, On
<1>6. \A M : \A e \in Core : FewerIn(gd[e], gd'[e], M) /\ FewerIn(dg[e], dg'[e], M)
  BY <1>3, Emptied, NoFewer DEF FewerIn
<1>7. \A s, M : FewerIn(s, s, M) BY NoFewer
<1>8. LoginFlow' BY <1>1, <1>6, <1>7, DaemonFlow DEF SessionInv, coreVars
<1>9. LoadFlow'
  <2>1. \A d \in Desc : LoadPending(d)' => LoadPending(d) BY <1>1, <1>6 DEF LoadPending, FewerIn
  <2> QED BY <1>1, <2>1 DEF SessionInv, LoadFlow, Loads, coreVars
<1>10. \A a \in Account : Holder(a)' = Holder(a) BY <1>1, SameHolder DEF dbVars
<1>11. Links'
  <2>1. /\ \A e \in Core : link[e] <= drops + 1 /\ (link[e] = 0 => drops >= 1)
        /\ \A p \in peers : p \in Core \X Nat /\ 1 <= p[2] /\ p[2] <= Newest(p[1])
    BY DEF SessionInv, Links
  <2>2. drops' \in Nat /\ drops' >= 1 /\ \A e \in Core : link'[e] <= drops' + 1
    BY <1>1, <1>2, <1>4, <2>1
  <2>3. ASSUME NEW e \in Core PROVE Newest(e) <= Newest(e)' /\ Newest(e) \in Nat /\ Newest(e)' \in Nat
    <3>1. CASE e = c BY <1>1, <1>2, <1>4, <2>1, <3>1 DEF Newest
    <3>2. CASE e # c BY <1>1, <1>2, <1>4, <2>1, <3>2 DEF Newest
    <3> QED BY <3>1, <3>2
  <2>4. \A p \in peers : 1 <= p[2] /\ p[2] <= Newest(p[1])'
    <3> TAKE p \in peers
    <3>1. p[1] \in Core /\ p[2] \in Nat /\ 1 <= p[2] /\ p[2] <= Newest(p[1]) BY <2>1
    <3>2. /\ \A e \in Core : e = p[1] =>
                Newest(e) <= Newest(e)' /\ Newest(e) \in Nat /\ Newest(e)' \in Nat
      BY <2>3
    <3>3. PICK e \in Core : e = p[1] BY <3>1
    <3>4. p[2] <= Newest(e) /\ Newest(e) <= Newest(e)' /\ Newest(e) \in Nat /\ Newest(e)' \in Nat
      BY <3>1, <3>2, <3>3
    <3>5. p[2] <= Newest(e)' BY <3>1, <3>4
    <3> QED BY <1>1, <3>1, <3>3, <3>5 DEF Newest
  <2>5. peers' = peers /\ peers \subseteq Core \X Nat BY <1>1 DEF SessionInv, Links
  <2> QED BY <1>4, <2>2, <2>4, <2>5 DEF Links, Newest
<1>12. Holders' BY <1>1, <1>4, <1>10 DEF SessionInv, Holders, Current
<1>13. \A d \in Desc, e \in Core, a \in Account : BoundTo(d, e, a)' <=> BoundTo(d, e, a)
  BY <1>1 DEF BoundTo, Bound, On, coreVars
<1>14. \A e \in Core : link'[e] = 1 => link[e] = 1 BY <1>4
<1>15. Locks' BY <1>6, <1>10, <1>13, <1>14, LocksKept DEF SessionInv
<1>16. Names' BY <1>1, <1>13, <1>14, NamesKept DEF SessionInv, coreVars
<1>17. Reports'
  <2>1. SetupFirst(<<>>) /\ ~Has(<<>>, Setups) BY Emptied DEF SetupFirst
  <2>2. SetupFirst(gd'[c]) /\ ~Has(gd'[c], Setups) BY <1>3, <2>1
  <2>3. ASSUME NEW e \in Core, e # c PROVE gd'[e] = gd[e] /\ link'[e] = link[e]
    BY <1>3, <1>4, <2>3
  <2>4. \A e \in Core : SetupFirst(gd'[e]) /\ (Has(gd'[e], Setups) => link'[e] # 1)
    BY <2>2, <2>3 DEF SessionInv, Reports
  <2> QED BY <2>4 DEF Reports
<1> QED BY <1>5, <1>8, <1>9, <1>11, <1>12, <1>15, <1>16, <1>17 DEF SessionInv

\* What a core reports when it connects again.
Logins(c) ==
    {[account |-> desc[d].account, key |-> desc[d].key] : d \in {e \in Desc : Bound(e) /\ On(e) = c}}
ReportOf(c) == [type |-> "setup", logins |-> Logins(c)]

LEMMA ReconnectFacts ==
    ASSUME Shapes, NEW c \in Core, Reconnect(c)
    PROVE  /\ gd' \in [Core -> Seq(ToDaemon)] /\ gd'[c] = <<ReportOf(c)>>
           /\ \A e \in Core : e # c => gd'[e] = gd[e]
           /\ ReportOf(c) \in Setups
           /\ \A M : ReportOf(c) \notin M => FewerIn(gd[c], gd'[c], M) /\ ~Has(gd'[c], M)
           /\ \A a \in Account : Has(gd'[c], SetupOf(a)) => SomeBound(c, a)
           /\ \A d \in Desc : ReportOf(c) \notin LoginOf(d) /\ ReportOf(c) \notin LoadOf(d)
           /\ \A a \in Account : ReportOf(c) \notin LogoutOf(a)
<1> DEFINE m == ReportOf(c)
<1>1. Logins(c) \subseteq [account : Account, key : Key \cup {NoKey}]
  BY DEF Logins, Shapes, Connection, Bound
<1>2. m \in Setups /\ m.type = "setup" BY <1>1 DEF Setups, ReportOf
<1>3. m \in ToDaemon BY <1>2 DEF ToDaemon
<1>4. ASSUME NEW a \in Account, m \in SetupOf(a) PROVE SomeBound(c, a)
  <2>1. \E x \in Logins(c) : x.account = a BY <1>4 DEF SetupOf, ReportOf
  <2> QED BY <2>1 DEF Logins, SomeBound, BoundTo
<1>5. gd' = [gd EXCEPT ![c] = <<m>>] BY DEF Reconnect, ReportOf, Logins
<1> HIDE DEF m
<1>6. gd \in [Core -> Seq(ToDaemon)] /\ <<m>> \in Seq(ToDaemon) BY <1>3 DEF Shapes
<1>7. gd' \in [Core -> Seq(ToDaemon)] /\ gd'[c] = <<m>> /\ \A e \in Core : e # c => gd'[e] = gd[e]
  BY <1>5, <1>6
<1>8. \A M : (Has(gd'[c], M) <=> m \in M) /\ Once(gd'[c], M) BY <1>7, OneMember
<1>9. \A M : m \notin M => FewerIn(gd[c], gd'[c], M) /\ ~Has(gd'[c], M) BY <1>8 DEF FewerIn
<1>10. /\ \A d \in Desc : m \notin LoginOf(d) /\ m \notin LoadOf(d)
       /\ \A a \in Account : m \notin LogoutOf(a)
  BY <1>2, <1>3, ToDaemonKinds
<1> QED BY <1>2, <1>4, <1>7, <1>8, <1>9, <1>10 DEF m

LEMMA ReconnectSession ==
    ASSUME SessionInv, LoginDataInv', NEW c \in Core, Reconnect(c)
    PROVE  SessionInv'
<1>1. /\ link[c] = 0 /\ link' = [link EXCEPT ![c] = drops + 1]
      /\ peers' = peers \cup {<<c, drops + 1>>}
      /\ UNCHANGED <<dbVars, queries, issued, drops, coreVars, dg>>
  BY DEF Reconnect
<1>2. /\ drops \in Nat /\ link \in [Core -> Nat] /\ drops >= 1
  BY <1>1 DEF SessionInv, Links
<1>3. /\ gd' \in [Core -> Seq(ToDaemon)] /\ gd'[c] = <<ReportOf(c)>>
      /\ \A e \in Core : e # c => gd'[e] = gd[e]
      /\ \A M : ReportOf(c) \notin M => FewerIn(gd[c], gd'[c], M) /\ ~Has(gd'[c], M)
      /\ \A d \in Desc : ReportOf(c) \notin LoginOf(d) /\ ReportOf(c) \notin LoadOf(d)
      /\ \A a \in Account : ReportOf(c) \notin LogoutOf(a)
  BY ReconnectFacts DEF SessionInv
<1>4. /\ link' \in [Core -> Nat] /\ link'[c] = drops + 1 /\ link'[c] # 1
      /\ \A e \in Core : e # c => link'[e] = link[e]
  BY <1>1, <1>2
<1>5. Shapes' BY <1>1, <1>3 DEF SessionInv, Shapes, coreVars, On
<1>6. \A s, M : FewerIn(s, s, M) BY NoFewer
<1>7. \A e \in Core :
         /\ \A d \in Desc : FewerIn(gd[e], gd'[e], LoginOf(d)) /\ FewerIn(gd[e], gd'[e], LoadOf(d))
         /\ \A a \in Account : FewerIn(gd[e], gd'[e], LogoutOf(a))
  BY <1>3, <1>6
<1>8. LoginFlow' BY <1>1, <1>6, <1>7, DaemonFlow DEF SessionInv, coreVars
<1>9. LoadFlow'
  <2>1. \A d \in Desc : LoadPending(d)' => LoadPending(d) BY <1>1, <1>7 DEF LoadPending, FewerIn
  <2> QED BY <1>1, <2>1 DEF SessionInv, LoadFlow, Loads, coreVars
<1>10. \A a \in Account : Holder(a)' = Holder(a) BY <1>1, SameHolder DEF dbVars
<1>11. Links'
  <2>1. /\ \A e \in Core : link[e] <= drops + 1 /\ (link[e] = 0 => drops >= 1)
        /\ \A p \in peers : p \in Core \X Nat /\ 1 <= p[2] /\ p[2] <= Newest(p[1])
    BY DEF SessionInv, Links
  <2>2. \A e \in Core : link'[e] <= drops + 1 BY <1>2, <1>4, <2>1
  <2>3. <<c, drops + 1>> \in Core \X Nat /\ 1 <= drops + 1 BY <1>2
  <2>4. \A p \in peers' : p \in Core \X Nat /\ 1 <= p[2] /\ p[2] <= Newest(p[1])'
    <3> TAKE p \in peers'
    <3>1. CASE p = <<c, drops + 1>>
      <4>1. p[1] = c /\ p[2] = drops + 1 BY <3>1
      <4> QED BY <1>1, <1>2, <1>4, <2>3, <3>1, <4>1 DEF Newest
    <3>2. CASE p \in peers
      <4>1. p \in Core \X Nat /\ p[1] \in Core /\ p[2] \in Nat /\ 1 <= p[2]
            /\ p[2] <= (IF link[p[1]] = 0 THEN drops ELSE link[p[1]])
        BY <2>1, <3>2 DEF Newest
      <4>2. p[2] <= (IF link'[p[1]] = 0 THEN drops ELSE link'[p[1]])
        BY <1>1, <1>2, <1>4, <4>1
      <4> QED BY <1>1, <4>1, <4>2 DEF Newest
    <3> QED BY <1>1, <3>1, <3>2
  <2>5. \A e \in Core : link'[e] = 0 => drops >= 1 BY <1>2
  <2> QED BY <1>1, <1>2, <1>4, <2>2, <2>4, <2>5 DEF Links
<1>12. Holders'
  <2>1. \A e \in Core : link'[e] # 0 => <<e, link'[e]>> \in peers'
    BY <1>1, <1>4 DEF SessionInv, Holders, Current
  <2> QED BY <1>1, <1>10, <2>1 DEF SessionInv, Holders, Current
<1>13. \A d \in Desc, e \in Core, a \in Account : BoundTo(d, e, a)' <=> BoundTo(d, e, a)
  BY <1>1 DEF BoundTo, Bound, On, coreVars
<1>14. \A e \in Core : link'[e] = 1 => link[e] = 1 BY <1>4
<1>15. Locks' BY <1>1, <1>6, <1>7, <1>10, <1>13, <1>14, LocksKept DEF SessionInv
<1>16. Names' BY <1>1, <1>13, <1>14, NamesKept DEF SessionInv, coreVars
<1>17. Reports'
  <2>1. SetupFirst(<<ReportOf(c)>>)
    <3>1. DOMAIN <<ReportOf(c)>> = {1} OBVIOUS
    <3> QED BY <3>1 DEF SetupFirst
  <2>2. SetupFirst(gd'[c]) /\ link'[c] # 1 BY <1>3, <1>4, <2>1
  <2>3. ASSUME NEW e \in Core, e # c PROVE gd'[e] = gd[e] /\ link'[e] = link[e]
    BY <1>3, <1>4, <2>3
  <2>4. \A e \in Core : SetupFirst(gd'[e]) /\ (Has(gd'[e], Setups) => link'[e] # 1)
    BY <2>2, <2>3 DEF SessionInv, Reports
  <2> QED BY <2>4 DEF Reports
<1> QED BY <1>5, <1>8, <1>9, <1>11, <1>12, <1>15, <1>16, <1>17 DEF SessionInv

LEMMA InitSession ==
    ASSUME Init
    PROVE  SessionInv
<1>1. /\ queries = <<>> /\ issued = {} /\ gg = {} /\ drops = 0
      /\ link = [c \in Core |-> 1] /\ peers = Core \X {1} /\ desc = [d \in Desc |-> Closed]
      /\ name = [c \in Core |-> [a \in Account |-> NoDesc]]
      /\ gd = [c \in Core |-> <<>>] /\ dg = [c \in Core |-> <<>>]
      /\ logon = [a \in Account |-> NoLd]
  BY DEF Init
<1>2. Closed \in Connection /\ Closed.phase = "none" BY DEF Closed, Connection, Phase
<1>3. LoginDataInv BY InitInv
<1>4. Shapes
  <2>1. <<>> \in Seq(ToDaemon) /\ <<>> \in Seq(ToCore) /\ <<>> \in Seq(Asked) OBVIOUS
  <2> QED BY <1>1, <1>2, <2>1 DEF Shapes
<1>5. Links BY <1>1 DEF Links, Newest
<1>6. Holders BY <1>1 DEF Holders, Holder, Current
<1>7. /\ \A M : \A c \in Core : ~Has(gd[c], M) /\ Once(gd[c], M) /\ ~Has(dg[c], M) /\ Once(dg[c], M)
      /\ \A M : ~Has(queries, M) /\ Once(queries, M)
  BY <1>1, Emptied
<1>8. \A d \in Desc : desc[d].phase = "none" BY <1>1, <1>2
<1>9. Reports
  <2>1. SetupFirst(<<>>) BY DEF SetupFirst
  <2> QED BY <1>1, <1>7, <2>1 DEF Reports
<1>10. LoginFlow BY <1>7 DEF LoginFlow, Flow, Pending
<1>11. LoadFlow BY <1>7, <1>8 DEF LoadFlow, Loads, LoadPending
<1>12. Locks BY <1>7, <1>8 DEF Locks, Lock, SomeBound, BoundTo, Bound
<1>13. Names BY <1>1, <1>8 DEF Names, Named, BoundTo, Bound
<1> QED BY <1>3, <1>4, <1>5, <1>6, <1>9, <1>10, <1>11, <1>12, <1>13 DEF SessionInv

\* Every step of the two programs keeps the sessions apart.
LEMMA SessionStep ==
    ASSUME SessionInv, [Next]_vars
    PROVE  SessionInv'
<1>0. LoginDataInv' BY StepInv DEF SessionInv
<1>1. CASE UNCHANGED vars
  <2>1. UNCHANGED <<dbVars, queries, issued, netVars, coreVars, gd, dg>> BY <1>1 DEF vars
  <2>2. \A s, M : FewerIn(s, s, M) BY NoFewer
  <2>3. Shapes' BY <2>1 DEF SessionInv, Shapes, coreVars, On
  <2>4. LoginFlow' BY <2>1, <2>2, DaemonFlow DEF SessionInv, coreVars
  <2>5. \A a \in Account : Holder(a)' = Holder(a) BY <2>1, SameHolder DEF dbVars
  <2>6. Links' /\ Holders' BY <2>1, <2>5, NetSame DEF SessionInv, Holders
  <2>7. \A d \in Desc : LoadPending(d)' => LoadPending(d) BY <2>1 DEF LoadPending
  <2>8. \A c \in Core : SetupFirst(gd'[c]) BY <2>1 DEF SessionInv, Reports
  <2> QED BY <1>0, <2>1, <2>2, <2>3, <2>4, <2>5, <2>6, <2>7, <2>8, DaemonStep DEF netVars
<1>2. ASSUME NEW a \in Account, NEW k \in Key, AuthLogin(a, k) PROVE SessionInv'
  BY <1>0, <1>2, AuthLoginSession
<1>3. ASSUME NEW c \in Core, DbStep(c) PROVE SessionInv'
  BY <1>0, <1>3, LoginByKeySession, LogoutSession, PlayerLoadSession, SetupSession DEF DbStep
<1>4. ASSUME NEW c \in Core, CoreStep(c) PROVE SessionInv'
  BY <1>0, <1>4, LoginSuccessSession, LoginAlreadySession, PlayerLoadedSession DEF CoreStep
<1>5. ASSUME NEW c \in Core, DestroyClosed(c) \/ LinkDrops(c) \/ Reconnect(c) PROVE SessionInv'
  BY <1>0, <1>5, DestroyClosedSession, LinkDropsSession, ReconnectSession
<1>6. ASSUME ResultStep PROVE SessionInv'
  BY <1>0, <1>6, ResultSession, ResultLoginSession DEF ResultStep
<1>7. ASSUME NEW p \in Peer, RemovePeer(p) PROVE SessionInv'
  BY <1>0, <1>7, RemovePeerSession
<1>8. ASSUME NEW d \in Desc, NEW c \in Core, Accept(d, c) PROVE SessionInv'
  BY <1>0, <1>8, AcceptSession
<1>9. ASSUME NEW d \in Desc, NEW a \in Account, NEW k \in Key, SendLogin(d, a, k) PROVE SessionInv'
  BY <1>0, <1>9, SendLoginSession
<1>10. ASSUME NEW d \in Desc, CharacterSelect(d) \/ ClientLeaves(d) \/ EndOfFile(d) \/ DisconnectEvent(d)
       PROVE  SessionInv'
  BY <1>0, <1>10, CharacterSelectSession, LeavingSession
<1>11. ASSUME NEW c \in Core, NEW a \in Account, P2PDisconnect(c, a) PROVE SessionInv'
  BY <1>0, <1>11, P2PDisconnectSession
<1> QED BY <1>1, <1>2, <1>3, <1>4, <1>5, <1>6, <1>7, <1>8, <1>9, <1>10, <1>11 DEF Next

LEMMA SessionInvariant == Spec => []SessionInv
<1>1. Init => SessionInv BY InitSession
<1>2. SessionInv /\ [Next]_vars => SessionInv' BY SessionStep
<1> QED BY <1>1, <1>2, PTL DEF Spec

\* A connection that has an account has one of the accounts, on one of the cores.
LEMMA BoundKnown ==
    ASSUME Shapes, NEW d \in Desc, Bound(d)
    PROVE  On(d) \in Core /\ desc[d].account \in Account /\ BoundTo(d, On(d), desc[d].account)
BY DEF Shapes, Bound, Connection, BoundTo

\* However logins, logouts, kicks, lost answers and cores that lose the db daemon are
\* interleaved, two connections never have one account, unless one of them is on a core
\* that lost the db daemon since it started.
THEOREM OneSessionHolds == Spec => []OneSession
<1>1. SessionInv => OneSession
  <2> SUFFICES ASSUME SessionInv, NEW d \in Desc, NEW e \in Desc, d # e, Bound(d), Bound(e),
                      desc[d].account = desc[e].account, link[On(d)] = 1, link[On(e)] = 1
               PROVE  FALSE
    BY DEF OneSession
  <2> DEFINE a == desc[d].account
  <2>1. /\ On(d) \in Core /\ On(e) \in Core /\ a \in Account
        /\ BoundTo(d, On(d), a) /\ BoundTo(e, On(e), a)
    BY BoundKnown DEF SessionInv
  <2>2. Lock(On(d), a) /\ Lock(On(e), a) BY <2>1 DEF SessionInv, Locks
  <2>3. SomeBound(On(d), a) /\ SomeBound(On(e), a) BY <2>1 DEF SomeBound
  <2> HIDE DEF a
  <2>4. Holder(a) = {<<On(d), 1>>} /\ Holder(a) = {<<On(e), 1>>} BY <2>2, <2>3 DEF Lock
  <2>5. <<On(d), 1>> = <<On(e), 1>> BY <2>4
  <2>6. On(d) = On(e) BY <2>5
  <2> QED BY <2>1, <2>2, <2>6 DEF Lock
<1> QED BY <1>1, SessionInvariant, PTL

\* The db daemon keeps an account locked for the core of its connection for as long as the
\* connection is there, on a core that never lost the db daemon.
THEOREM SessionIsLoggedOnHolds == Spec => []SessionIsLoggedOn
<1>1. SessionInv => SessionIsLoggedOn
  <2> SUFFICES ASSUME SessionInv, NEW d \in Desc, Bound(d), link[On(d)] = 1
               PROVE  /\ logon[desc[d].account] # NoLd
                      /\ ld[logon[desc[d].account]].peer = <<On(d), 1>>
    BY DEF SessionIsLoggedOn
  <2>1. On(d) \in Core /\ desc[d].account \in Account /\ BoundTo(d, On(d), desc[d].account)
    BY BoundKnown DEF SessionInv
  <2>2. Lock(On(d), desc[d].account) BY <2>1 DEF SessionInv, Locks
  <2>3. SomeBound(On(d), desc[d].account) BY <2>1 DEF SomeBound
  <2>4. Holder(desc[d].account) = {<<On(d), 1>>} BY <2>2, <2>3 DEF Lock
  <2> QED BY <2>4 DEF Holder
<1> QED BY <1>1, SessionInvariant, PTL

\* DisconnectOfSameLogin finds the connection that has an account by m_map_loginName, and
\* never one that is gone or has another account.
THEOREM NameMapIsExactHolds == Spec => []NameMapIsExact
<1>1. SessionInv => NameMapIsExact
  <2> SUFFICES ASSUME SessionInv PROVE NameMapIsExact OBVIOUS
  <2>1. ASSUME NEW c \in Core, NEW a \in Account, name[c][a] # NoDesc
        PROVE  /\ Bound(name[c][a]) /\ On(name[c][a]) = c /\ desc[name[c][a]].account = a
    BY <2>1 DEF SessionInv, Names, Named, BoundTo
  <2>2. ASSUME NEW d \in Desc, Bound(d), link[On(d)] = 1 PROVE name[On(d)][desc[d].account] = d
    <3>1. On(d) \in Core /\ desc[d].account \in Account /\ BoundTo(d, On(d), desc[d].account)
      BY <2>2, BoundKnown DEF SessionInv
    <3>2. Named(On(d), desc[d].account) BY <3>1 DEF SessionInv, Names
    <3> QED BY <2>2, <3>1, <3>2 DEF Named
  <2> QED BY <2>1, <2>2 DEF NameMapIsExact
<1> QED BY <1>1, SessionInvariant, PTL

-----------------------------------------------------------------------------
(* Owners: whoever is locked has somebody who will release the lock.       *)

LEMMA SetupKind == \A m : m \notin Setups => \A a \in Account : m \notin SetupOf(a)
BY DEF SetupOf

\* Nothing but a LOGOUT's handling takes a LOGOUT.
LEMMA DaemonTaken ==
    ASSUME Shapes, Reports, NEW c \in Core, gd[c] # <<>>, Consume(c), Head(gd[c]).type # "logout"
    PROVE  \A e \in Core, a \in Account : /\ FewerIn(gd[e], gd'[e], SetupOf(a))
                                          /\ Has(gd[e], LogoutOf(a)) => Has(gd'[e], LogoutOf(a))
<1>1. /\ Took(gd[c], gd'[c], Head(gd[c])) /\ \A e \in Core : e # c => gd'[e] = gd[e]
      /\ \A M : \A e \in Core : FewerIn(gd[e], gd'[e], M)
  BY DaemonTakes
<1>2. \A a \in Account : Head(gd[c]) \notin LogoutOf(a) BY DEF LogoutOf
<1> QED BY <1>1, <1>2 DEF Took

LEMMA CoreTaken ==
    ASSUME Shapes, NEW c \in Core, dg[c] # <<>>, Taken(c), Head(dg[c]).type # "success"
    PROVE  \A e \in Core, a \in Account : Has(dg[e], SuccessOf(a)) => Has(dg'[e], SuccessOf(a))
<1>1. Took(dg[c], dg'[c], Head(dg[c])) /\ \A e \in Core : e # c => dg'[e] = dg[e]
  BY CoreTakes
<1>2. \A a \in Account : Head(dg[c]) \notin SuccessOf(a) BY DEF SuccessOf
<1> QED BY <1>1, <1>2 DEF Took

LEMMA PacketSent ==
    ASSUME Shapes, NEW c \in Core, NEW m, m \notin Setups, gd' = [gd EXCEPT ![c] = Packet(c, m)]
    PROVE  \A e \in Core, a \in Account : /\ FewerIn(gd[e], gd'[e], SetupOf(a))
                                          /\ Has(gd[e], LogoutOf(a)) => Has(gd'[e], LogoutOf(a))
<1> DEFINE S == ToDaemon \cup {m}
<1>1. gd \in [Core -> Seq(ToDaemon)] BY DEF Shapes
<1>2. gd[c] \in Seq(S) /\ m \in S
  <2>1. gd[c] \in Seq(ToDaemon) BY <1>1
  <2> QED BY <2>1
<1> HIDE DEF S
<1>3. Put(gd[c], Append(gd[c], m), m) BY <1>2, Appending
<1>4. /\ \A e \in Core : e # c => gd'[e] = gd[e]
      /\ gd'[c] = gd[c] \/ gd'[c] = Append(gd[c], m)
  BY <1>1 DEF Packet
<1>5. \A a \in Account : m \notin SetupOf(a) BY SetupKind
<1>6. \A e \in Core, a \in Account : FewerIn(gd[e], gd'[e], SetupOf(a))
  BY <1>3, <1>4, <1>5, NotPut, NoFewer
<1>7. \A e \in Core, a \in Account : Has(gd[e], LogoutOf(a)) => Has(gd'[e], LogoutOf(a))
  BY <1>3, <1>4 DEF Put
<1> QED BY <1>6, <1>7

\* An answer takes nothing out of a queue.
LEMMA ReplyGrows ==
    ASSUME Shapes, NEW p, NEW m, ReplyTo(p, m)
    PROVE  \A M : \A e \in Core : Has(dg[e], M) => Has(dg'[e], M)
<1> DEFINE S == ToCore \cup {m}
<1>1. dg \in [Core -> Seq(ToCore)] BY DEF Shapes
<1>2. \A e \in Core : Put(dg[e], Append(dg[e], m), m)
  <2> TAKE e \in Core
  <2>1. dg[e] \in Seq(ToCore) BY <1>1
  <2>2. dg[e] \in Seq(S) /\ m \in S BY <2>1
  <2> HIDE DEF S
  <2> QED BY <2>2, Appending
<1>3. \A e \in Core : dg'[e] = dg[e] \/ dg'[e] = Append(dg[e], m)
  BY <1>1 DEF ReplyTo
<1> QED BY <1>2, <1>3 DEF Put

\* What every step but those that lock or release owes to the invariant.
LEMMA OwnerKept ==
    ASSUME OwnerInv, SessionInv', KeepsData', link' = link,
           \A a \in Account : Holder(a)' # {} /\ Reliable(a)' => Holder(a)' = Holder(a) /\ Reliable(a),
           \A c \in Core, a \in Account :
              /\ FewerIn(gd[c], gd'[c], SetupOf(a))
              /\ link[c] # 0 /\ Present(c, a) => Present(c, a)'
              /\ Has(dg[c], SuccessOf(a)) => Has(dg'[c], SuccessOf(a)) \/ Present(c, a)'
    PROVE  OwnerInv'
<1>1. Reported'
  <2> SUFFICES ASSUME NEW c \in Core, NEW a \in Account, Has(gd'[c], SetupOf(a))
               PROVE  link'[c] # 0 /\ Present(c, a)'
    BY DEF Reported
  <2>1. Has(gd[c], SetupOf(a)) BY DEF FewerIn
  <2> QED BY <2>1 DEF OwnerInv, Reported
<1>2. Owned'
  <2> SUFFICES ASSUME NEW c \in Core, NEW a \in Account,
                      Holder(a)' = {<<c, link'[c]>>}, link'[c] # 0, Reliable(a)'
               PROVE  Present(c, a)' \/ Has(dg'[c], SuccessOf(a))
    BY DEF Owned, Current
  <2>1. Holder(a)' = Holder(a) /\ Reliable(a) OBVIOUS
  <2>2. Holder(a) = {Current(c)} /\ link[c] # 0 BY <2>1 DEF Current
  <2>3. Present(c, a) \/ Has(dg[c], SuccessOf(a)) BY <2>1, <2>2 DEF OwnerInv, Owned
  <2> QED BY <2>3
<1> QED BY <1>1, <1>2 DEF OwnerInv

\* A connection that keeps its account and a LOGOUT that is not taken stay present.
LEMMA PresentKept ==
    ASSUME BoundKept, NEW c \in Core, NEW a \in Account,
           Has(gd[c], LogoutOf(a)) => Has(gd'[c], LogoutOf(a))
    PROVE  Present(c, a) => Present(c, a)'
BY DEF Present, SomeBound, BoundKept

\* A step of the db daemon that leaves the locks and the login map alone.
LEMMA CalmOwner ==
    ASSUME OwnerInv, SessionInv', BoundKept, UNCHANGED <<ld, deleted, byAccount, logon, link>>,
           \A c \in Core, a \in Account :
              /\ FewerIn(gd[c], gd'[c], SetupOf(a))
              /\ Has(gd[c], LogoutOf(a)) => Has(gd'[c], LogoutOf(a))
              /\ Has(dg[c], SuccessOf(a)) => Has(dg'[c], SuccessOf(a)) \/ SomeBound(c, a)'
                                             \/ Has(gd'[c], LogoutOf(a))
    PROVE  OwnerInv'
<1>1. KeepsData' BY DEF OwnerInv, KeepsData
<1>2. \A a \in Account : Holder(a)' = Holder(a) BY SameHolder
<1>3. \A a \in Account : Reliable(a)' <=> Reliable(a) BY DEF Reliable
<1>4. \A c \in Core, a \in Account : Present(c, a) => Present(c, a)' BY PresentKept
<1>5. \A c \in Core, a \in Account :
         Has(dg[c], SuccessOf(a)) => Has(dg'[c], SuccessOf(a)) \/ Present(c, a)'
  BY DEF Present
<1> QED BY <1>1, <1>2, <1>3, <1>4, <1>5, OwnerKept

LEMMA SameBoundKept ==
    ASSUME UNCHANGED desc
    PROVE  BoundKept
BY DEF BoundKept, BoundTo, Bound, On

\* An authentication takes the login data of an account that is logged on away only
\* together with marking it, and leaves none behind only when its key was taken.
LEMMA AuthLoginData ==
    ASSUME LoginDataInv, KeepsData, NEW a \in Account, NEW k \in Key, AuthLogin(a, k)
    PROVE  KeepsData' /\ \A b \in Account : Reliable(b)' /\ logon[b] # NoLd => Reliable(b)
<1>1. /\ logon' = logon /\ deleted' = Marked(a)
      /\ \A b \in Account : b # a => byAccount'[b] = byAccount[b]
      /\ FreshKeys => byAccount'[a] # NoLd
  <2>1. byAccount \in [Account -> Ld \cup {NoLd}] BY DEF LoginDataInv, Maps
  <2>2. /\ logon' = logon /\ deleted' = Marked(a)
        /\ \/ ~FreshKeys /\ byAccount' = [byAccount EXCEPT ![a] = NoLd]
           \/ \E l \in Ld : byAccount' = [byAccount EXCEPT ![a] = l]
    BY DEF AuthLogin, Marked
  <2> QED BY <2>1, <2>2, LogonAssumption
<1>2. ASSUME NEW b \in Account, logon[b] # NoLd PROVE logon[b] \notin Freed(a)
  <2>1. CASE b = a BY <1>2, <2>1 DEF Freed
  <2>2. CASE b # a
    <3>1. ld[logon[b]].account = b BY <1>2 DEF LoginDataInv, LoggedOnAsOwn
    <3>2. byAccount[a] # NoLd => ld[byAccount[a]].account = a BY DEF LoginDataInv, ListedAsOwn
    <3> QED BY <1>2, <2>2, <3>1, <3>2 DEF Freed
  <2> QED BY <2>1, <2>2
<1>3. ASSUME NEW b \in Account, logon[b] # NoLd, logon[b] \in deleted PROVE logon[b] \in deleted'
  BY <1>1, <1>2, <1>3 DEF Marked
<1>4. logon[a] # NoLd /\ byAccount[a] = logon[a] => logon[a] \in deleted'
  BY <1>1, <1>2 DEF Marked
<1>5. KeepsData'
  <2> SUFFICES ASSUME NEW b \in Account, logon[b] # NoLd
               PROVE  /\ logon[b] \in deleted' \/ byAccount'[b] = logon[b]
                      /\ FreshKeys => byAccount'[b] # NoLd
    BY <1>1 DEF KeepsData
  <2>1. /\ logon[b] \in deleted \/ byAccount[b] = logon[b]
        /\ FreshKeys => byAccount[b] # NoLd
    BY DEF KeepsData
  <2> QED BY <1>1, <1>3, <1>4, <2>1
<1> QED BY <1>1, <1>3, <1>5 DEF Reliable

LEMMA AuthLoginOwner ==
    ASSUME OwnerInv, SessionInv', NEW a \in Account, NEW k \in Key, AuthLogin(a, k)
    PROVE  OwnerInv'
<1>1. UNCHANGED <<logon, queries, netVars, coreVars, gd, dg>> BY DEF AuthLogin
<1>2. LoginDataInv /\ KeepsData BY DEF OwnerInv, SessionInv
<1>3. KeepsData' /\ \A b \in Account : Reliable(b)' /\ logon[b] # NoLd => Reliable(b)
  BY <1>2, AuthLoginData
<1>4. \A b \in Account : Holder(b)' = Holder(b) BY <1>2, AuthLoginHolder
<1>5. \A b \in Account : Holder(b) # {} => logon[b] # NoLd BY DEF Holder
<1>6. \A c \in Core, b \in Account : Present(c, b) => Present(c, b)'
  BY <1>1, SameBoundKept, PresentKept DEF coreVars
<1> QED BY <1>1, <1>3, <1>4, <1>5, <1>6, NoFewer, OwnerKept DEF netVars

LEMMA LoginByKeyOwner ==
    ASSUME OwnerInv, SessionInv', NEW c \in Core, LoginByKey(c) \/ PlayerLoad(c)
    PROVE  OwnerInv'
<1>1. /\ gd[c] # <<>> /\ Head(gd[c]).type # "logout" /\ Consume(c)
      /\ UNCHANGED <<ld, deleted, byAccount, logon, netVars, coreVars>>
      /\ dg' = dg \/ \E m : ReplyTo(Current(c), m)
  BY DEF LoginByKey, PlayerLoad, Received, HandOut, dbVars
<1>2. Shapes /\ Reports BY DEF OwnerInv, SessionInv
<1>3. \A e \in Core, a \in Account : /\ FewerIn(gd[e], gd'[e], SetupOf(a))
                                     /\ Has(gd[e], LogoutOf(a)) => Has(gd'[e], LogoutOf(a))
  BY <1>1, <1>2, DaemonTaken
<1>4. \A M : \A e \in Core : Has(dg[e], M) => Has(dg'[e], M) BY <1>1, <1>2, ReplyGrows
<1>5. BoundKept BY <1>1, SameBoundKept DEF coreVars
<1> QED BY <1>1, <1>3, <1>4, <1>5, CalmOwner DEF netVars

\* QUERY_LOGOUT releases the lock, unless the account's login data is gone.
LEMMA LogoutOwner ==
    ASSUME OwnerInv, SessionInv', NEW c \in Core, Logout(c)
    PROVE  OwnerInv'
<1> DEFINE m == Head(gd[c])
           gone == IF byAccount[m.account] = NoLd THEN {} ELSE {m.account} \cap LogonOf(Current(c))
<1>1. /\ gd[c] # <<>> /\ m.type = "logout" /\ Consume(c) /\ link[c] # 0
      /\ DeleteLogonAccounts(gone)
      /\ UNCHANGED <<queries, issued, netVars, coreVars, dg>>
  BY DEF Logout, Received
<1>2. Shapes /\ Reports /\ LoginDataInv /\ KeepsData BY DEF OwnerInv, SessionInv
<1>3. /\ m \in ToDaemon /\ Took(gd[c], gd'[c], m)
      /\ \A e \in Core : e # c => gd'[e] = gd[e]
      /\ ~Has(gd'[c], Setups)
      /\ \A M : \A e \in Core : FewerIn(gd[e], gd'[e], M)
  BY <1>1, <1>2, DaemonTakes
<1>4. \A a \in Account : m \in LogoutOf(a) => a = m.account BY <1>1, <1>3, ToDaemonKinds
<1>5. \A a \in Account : /\ Holder(a)' = IF a \in gone THEN {} ELSE Holder(a)
                         /\ a \in gone => logon'[a] = NoLd
                         /\ a \notin gone => logon'[a] = logon[a]
                         /\ a \notin gone /\ logon[a] # NoLd /\ logon[a] \notin deleted'
                            => logon[a] \notin deleted
  <2>1. \A a \in gone : a \in Account /\ logon[a] # NoLd BY DEF LogonOf
  <2> HIDE DEF gone
  <2> QED BY <1>1, <1>2, <2>1, LogoffHolder
<1>6. ASSUME NEW a \in Account, a = m.account, a \notin gone, Holder(a) = {Current(c)}
      PROVE  byAccount[a] = NoLd
  <2>1. a \in LogonOf(Current(c)) BY <1>6 DEF LogonOf, Holder
  <2> QED BY <1>6, <2>1
<1>7. UNCHANGED byAccount BY <1>1 DEF DeleteLogonAccounts
<1> HIDE DEF gone, m
<1>8. KeepsData'
  <2> SUFFICES ASSUME NEW a \in Account, logon'[a] # NoLd
               PROVE  /\ logon'[a] \in deleted' \/ byAccount'[a] = logon'[a]
                      /\ FreshKeys => byAccount'[a] # NoLd
    BY DEF KeepsData
  <2>1. a \notin gone /\ logon'[a] = logon[a] BY <1>5
  <2> QED BY <1>2, <1>5, <1>7, <2>1 DEF KeepsData
<1>9. \A a \in Account : Holder(a)' # {} /\ Reliable(a)' =>
         a \notin gone /\ Holder(a)' = Holder(a) /\ Reliable(a)
  <2> TAKE a \in Account
  <2> SUFFICES ASSUME Holder(a)' # {}, Reliable(a)'
               PROVE  a \notin gone /\ Holder(a)' = Holder(a) /\ Reliable(a)
    OBVIOUS
  <2>1. a \notin gone /\ Holder(a)' = Holder(a) /\ logon'[a] = logon[a] BY <1>5
  <2>2. logon[a] # NoLd BY <2>1 DEF Holder
  <2> QED BY <1>5, <2>1, <2>2 DEF Reliable
<1>10. ASSUME NEW e \in Core, NEW a \in Account, ~(e = c /\ a = m.account)
       PROVE  Present(e, a) => Present(e, a)'
  <2>1. Has(gd[e], LogoutOf(a)) => Has(gd'[e], LogoutOf(a))
    <3>1. CASE e = c BY <1>3, <1>4, <1>10, <3>1 DEF Took
    <3>2. CASE e # c BY <1>3, <3>2
    <3> QED BY <3>1, <3>2
  <2> QED BY <1>1, <2>1, SameBoundKept, PresentKept DEF coreVars
<1>11. Reported'
  <2> SUFFICES ASSUME NEW e \in Core, NEW a \in Account, Has(gd'[e], SetupOf(a))
               PROVE  link'[e] # 0 /\ Present(e, a)'
    BY DEF Reported
  <2>1. e # c BY <1>3 DEF Has, At, SetupOf
  <2>2. Has(gd[e], SetupOf(a)) BY <1>3 DEF FewerIn
  <2> QED BY <1>1, <1>10, <2>1, <2>2 DEF OwnerInv, Reported, netVars
<1>12. Owned'
  <2> SUFFICES ASSUME NEW e \in Core, NEW a \in Account,
                      Holder(a)' = {<<e, link'[e]>>}, link'[e] # 0, Reliable(a)'
               PROVE  Present(e, a)' \/ Has(dg'[e], SuccessOf(a))
    BY DEF Owned, Current
  <2>1. a \notin gone /\ Holder(a)' = Holder(a) /\ Reliable(a) BY <1>9
  <2>2. Holder(a) = {Current(e)} /\ link[e] # 0 BY <1>1, <2>1 DEF Current, netVars
  <2>3. Present(e, a) \/ Has(dg[e], SuccessOf(a)) BY <2>1, <2>2 DEF OwnerInv, Owned
  <2>4. CASE e = c /\ a = m.account
    <3>1. byAccount[a] = NoLd BY <1>6, <2>1, <2>2, <2>4
    <3>2. logon[a] # NoLd BY <2>2 DEF Holder
    <3> QED BY <1>2, <2>1, <3>1, <3>2 DEF KeepsData, Reliable
  <2>5. CASE ~(e = c /\ a = m.account) BY <1>1, <1>10, <2>3, <2>5
  <2> QED BY <2>4, <2>5
<1> QED BY <1>8, <1>11, <1>12 DEF OwnerInv

\* QUERY_SETUP locks only for those who are reported, and they are present.
LEMMA SetupOwner ==
    ASSUME OwnerInv, SessionInv', NEW c \in Core, Setup(c)
    PROVE  OwnerInv'
<1> DEFINE m == Head(gd[c])
<1>1. /\ gd[c] # <<>> /\ m.type = "setup" /\ Consume(c)
      /\ UNCHANGED <<queries, issued, netVars, coreVars, dg, deleted>>
  BY DEF Setup, Received
<1>2. Shapes /\ Reports /\ LoginDataInv /\ KeepsData BY DEF OwnerInv, SessionInv
<1>3. /\ m \in ToDaemon /\ Took(gd[c], gd'[c], m)
      /\ \A e \in Core : e # c => gd'[e] = gd[e]
      /\ ~Has(gd'[c], Setups)
      /\ \A M : \A e \in Core : FewerIn(gd[e], gd'[e], M)
  BY <1>1, <1>2, DaemonTakes
<1>4. \A e \in Core, a \in Account : Has(gd[e], LogoutOf(a)) => Has(gd'[e], LogoutOf(a))
  BY <1>1, <1>2, DaemonTaken
<1>5. \A e \in Core, a \in Account : Present(e, a) => Present(e, a)'
  BY <1>1, <1>4, SameBoundKept, PresentKept DEF coreVars
<1>6. \A a \in Account :
         /\ Holder(a)' = IF logon[a] = NoLd /\ \E x \in m.logins : x.account = a
                         THEN {Current(c)} ELSE Holder(a)
         /\ logon[a] # NoLd => logon'[a] = logon[a]
         /\ logon[a] = NoLd /\ logon'[a] # NoLd => byAccount'[a] = logon'[a]
         /\ byAccount[a] # NoLd => byAccount'[a] = byAccount[a]
  BY <1>2, SetupHolder
<1>7. \A a \in Account : (\E x \in m.logins : x.account = a) => Present(c, a) /\ link[c] # 0
  <2> TAKE a \in Account
  <2> SUFFICES ASSUME \E x \in m.logins : x.account = a PROVE Present(c, a) /\ link[c] # 0 OBVIOUS
  <2>1. m \in SetupOf(a) BY <1>1, <1>3, ToDaemonKinds DEF SetupOf
  <2>2. Has(gd[c], SetupOf(a)) BY <1>3, <2>1 DEF Took
  <2> QED BY <2>2 DEF OwnerInv, Reported
<1> HIDE DEF m
<1>8. KeepsData' BY <1>1, <1>2, <1>6 DEF KeepsData
<1>9. Reported'
  <2> SUFFICES ASSUME NEW e \in Core, NEW a \in Account, Has(gd'[e], SetupOf(a))
               PROVE  link'[e] # 0 /\ Present(e, a)'
    BY DEF Reported
  <2>1. Has(gd[e], SetupOf(a)) BY <1>3 DEF FewerIn
  <2> QED BY <1>1, <1>5, <2>1 DEF OwnerInv, Reported, netVars
<1>10. Owned'
  <2> SUFFICES ASSUME NEW e \in Core, NEW a \in Account,
                      Holder(a)' = {<<e, link'[e]>>}, link'[e] # 0, Reliable(a)'
               PROVE  Present(e, a)' \/ Has(dg'[e], SuccessOf(a))
    BY DEF Owned, Current
  <2>1. CASE logon[a] = NoLd /\ \E x \in m.logins : x.account = a
    <3>1. Holder(a)' = {<<c, link[c]>>} BY <1>6, <2>1 DEF Current
    <3>2. <<e, link'[e]>> = <<c, link[c]>> BY <3>1
    <3>3. e = c BY <3>2
    <3> QED BY <1>5, <1>7, <2>1, <3>3
  <2>2. CASE ~(logon[a] = NoLd /\ \E x \in m.logins : x.account = a)
    <3>1. Holder(a)' = Holder(a) BY <1>6, <2>2
    <3>2. Holder(a) = {Current(e)} /\ link[e] # 0 /\ logon[a] # NoLd
      BY <1>1, <3>1 DEF Current, netVars, Holder
    <3>3. Reliable(a) BY <1>1, <1>6, <3>2 DEF Reliable
    <3> QED BY <1>1, <1>5, <3>2, <3>3 DEF OwnerInv, Owned
  <2> QED BY <2>1, <2>2
<1> QED BY <1>8, <1>9, <1>10 DEF OwnerInv

\* A result that locks nothing.
LEMMA ResultOwner ==
    ASSUME OwnerInv, SessionInv', DropResult \/ ResultLoginByKey \/ ResultPlayerLoad \/ ResultError
    PROVE  OwnerInv'
<1>1. /\ UNCHANGED <<ld, deleted, byAccount, logon, netVars, coreVars, gd>>
      /\ dg' = dg \/ \E p, m : ReplyTo(p, m)
  BY DEF DropResult, ResultLoginByKey, ResultPlayerLoad, ResultError, HandOut, dbVars
<1>2. Shapes BY DEF OwnerInv, SessionInv
<1>3. \A M : \A e \in Core : Has(dg[e], M) => Has(dg'[e], M) BY <1>1, <1>2, ReplyGrows
<1>4. BoundKept BY <1>1, SameBoundKept DEF coreVars
<1> QED BY <1>1, <1>3, <1>4, NoFewer, CalmOwner DEF netVars

\* RESULT_LOGIN locks for the peer the answer goes to.
LEMMA ResultLoginOwner ==
    ASSUME OwnerInv, SessionInv', ResultLogin
    PROVE  OwnerInv'
<1> DEFINE q == Head(queries)
           r == Answer("success", q.desc, q.account)
<1>1. /\ queries # <<>> /\ UNCHANGED <<netVars, coreVars, gd>>
      /\ \/ /\ CanLogOn(q.account)
            /\ logon' = [logon EXCEPT ![q.account] = byAccount[q.account]]
            /\ ld' = [ld EXCEPT ![byAccount[q.account]] = ConnectedTo(@, q.peer)]
            /\ ReplyTo(q.peer, r)
            /\ UNCHANGED <<deleted, byAccount>>
         \/ UNCHANGED dbVars /\ ReplyTo(q.peer, Answer("already", q.desc, q.account))
  BY DEF ResultLogin, Answered
<1>2. Shapes /\ LoginDataInv /\ KeepsData BY DEF OwnerInv, SessionInv
<1>3. q \in Asked BY <1>1, <1>2, Resulting
<1>4. /\ q.account \in Account /\ q.desc \in Desc
      /\ q.peer[1] \in Core /\ q.peer[2] \in Nat /\ q.peer = <<q.peer[1], q.peer[2]>>
  BY <1>3, AskedKinds
<1>5. \A M : \A e \in Core : Has(dg[e], M) => Has(dg'[e], M) BY <1>1, <1>2, ReplyGrows
<1>6. BoundKept BY <1>1, SameBoundKept DEF coreVars
<1>7. CASE UNCHANGED dbVars BY <1>1, <1>5, <1>6, <1>7, NoFewer, CalmOwner DEF netVars, dbVars
<1>8. CASE /\ CanLogOn(q.account)
           /\ logon' = [logon EXCEPT ![q.account] = byAccount[q.account]]
           /\ ld' = [ld EXCEPT ![byAccount[q.account]] = ConnectedTo(@, q.peer)]
           /\ ReplyTo(q.peer, r)
           /\ UNCHANGED <<deleted, byAccount>>
  <2>1. r \in ToCore /\ r \in SuccessOf(q.account) BY <1>4, AnswerKind, ToCoreKinds
  <2> HIDE DEF r
  <2>2. q.peer[2] = link[q.peer[1]] => Put(dg[q.peer[1]], dg'[q.peer[1]], r)
    <3> DEFINE c0 == q.peer[1]
               n0 == q.peer[2]
    <3>1. c0 \in Core /\ n0 \in Nat /\ ReplyTo(<<c0, n0>>, r) BY <1>4, <1>8
    <3> HIDE DEF c0, n0
    <3>2. n0 = link[c0] => Put(dg[c0], dg'[c0], r) BY <1>2, <2>1, <3>1, Replying
    <3> QED BY <3>2 DEF c0, n0
  <2>3. ASSUME NEW a \in Account, a = q.account
        PROVE  /\ Holder(a)' = {q.peer} /\ logon'[a] = byAccount[a] /\ byAccount[a] # NoLd
               /\ \A b \in Account : b # a => Holder(b)' = Holder(b) /\ logon'[b] = logon[b]
    <3>1. logon \in [Account -> Ld \cup {NoLd}] BY <1>2 DEF LoginDataInv, Maps
    <3>2. Holder(a)' = {q.peer} /\ \A b \in Account : b # a => Holder(b)' = Holder(b)
      BY <1>2, <1>8, <2>3, ResultLoginHolder
    <3> QED BY <1>8, <2>3, <3>1, <3>2 DEF CanLogOn
  <2> HIDE DEF q
  <2>4. KeepsData' BY <1>2, <1>4, <1>8, <2>3 DEF KeepsData
  <2>5. \A e \in Core, a \in Account : Present(e, a) => Present(e, a)'
    BY <1>1, <1>6, PresentKept
  <2>6. Reported'
    <3>1. \A e \in Core, a \in Account : Has(gd'[e], SetupOf(a)) => Has(gd[e], SetupOf(a)) BY <1>1
    <3> QED BY <1>1, <2>5, <3>1 DEF OwnerInv, Reported, netVars
  <2>7. Owned'
    <3> SUFFICES ASSUME NEW e \in Core, NEW a \in Account,
                        Holder(a)' = {<<e, link'[e]>>}, link'[e] # 0, Reliable(a)'
                 PROVE  Present(e, a)' \/ Has(dg'[e], SuccessOf(a))
      BY DEF Owned, Current
    <3>1. CASE a = q.account
      <4>1. q.peer = <<e, link[e]>> BY <1>1, <2>3, <3>1 DEF netVars
      <4>2. q.peer[1] = e /\ q.peer[2] = link[e] BY <4>1
      <4>3. Has(dg'[e], SuccessOf(a)) BY <2>1, <2>2, <3>1, <4>2 DEF Put
      <4> QED BY <4>3
    <3>2. CASE a # q.account
      <4>1. Holder(a)' = Holder(a) /\ logon'[a] = logon[a] BY <1>4, <2>3, <3>2
      <4>2. Holder(a) = {Current(e)} /\ link[e] # 0 /\ Reliable(a)
        BY <1>1, <1>8, <4>1 DEF Current, netVars, Reliable
      <4> QED BY <1>5, <2>5, <4>2 DEF OwnerInv, Owned
    <3> QED BY <3>1, <3>2
  <2> QED BY <2>4, <2>6, <2>7 DEF OwnerInv
<1> QED BY <1>1, <1>7, <1>8

LEMMA RemovePeerOwner ==
    ASSUME OwnerInv, SessionInv', NEW p \in Peer, RemovePeer(p)
    PROVE  OwnerInv'
<1>1. /\ UNCHANGED <<link, coreVars, gd, dg>> /\ DeleteLogonAccounts(LogonOf(p))
      /\ UNCHANGED byAccount
  BY DEF RemovePeer, DeleteLogonAccounts
<1>2. LoginDataInv /\ KeepsData BY DEF OwnerInv, SessionInv
<1>3. \A a \in Account : /\ Holder(a)' = IF a \in LogonOf(p) THEN {} ELSE Holder(a)
                         /\ a \in LogonOf(p) => logon'[a] = NoLd
                         /\ a \notin LogonOf(p) => logon'[a] = logon[a]
                         /\ a \notin LogonOf(p) /\ logon[a] # NoLd /\ logon[a] \notin deleted'
                            => logon[a] \notin deleted
  BY <1>1, <1>2, LogoffHolder DEF LogonOf
<1>4. KeepsData'
  <2> SUFFICES ASSUME NEW a \in Account, logon'[a] # NoLd
               PROVE  /\ logon'[a] \in deleted' \/ byAccount'[a] = logon'[a]
                      /\ FreshKeys => byAccount'[a] # NoLd
    BY DEF KeepsData
  <2>1. a \notin LogonOf(p) /\ logon'[a] = logon[a] BY <1>3
  <2> QED BY <1>1, <1>2, <1>3, <2>1 DEF KeepsData
<1>5. ASSUME NEW a \in Account, Holder(a)' # {}, Reliable(a)' PROVE Holder(a)' = Holder(a) /\ Reliable(a)
  <2>1. a \notin LogonOf(p) /\ Holder(a)' = Holder(a) /\ logon'[a] = logon[a] BY <1>3, <1>5
  <2>2. logon[a] # NoLd BY <1>5, <2>1 DEF Holder
  <2> QED BY <1>3, <1>5, <2>1, <2>2 DEF Reliable
<1>6. \A e \in Core, a \in Account : Present(e, a) => Present(e, a)'
  BY <1>1, SameBoundKept, PresentKept DEF coreVars
<1> QED BY <1>1, <1>4, <1>5, <1>6, NoFewer, OwnerKept

\* The answer that binds an account turns into a connection that has it, or a LOGOUT.
LEMMA LoginSuccessOwner ==
    ASSUME OwnerInv, SessionInv', NEW c \in Core, LoginSuccess(c)
    PROVE  OwnerInv'
<1> DEFINE m == Head(dg[c])
           d == m.desc
           a == m.account
           out == [type |-> "logout", account |-> a]
<1>1. /\ dg[c] # <<>> /\ m.type = "success" /\ Taken(c) /\ link[c] # 0
      /\ UNCHANGED <<dbVars, netVars>>
      /\ \/ gd' = LoggedOut(c, a)
         \/ /\ UNCHANGED gd /\ desc[d].phase # "none"
            /\ desc' = [desc EXCEPT ![d].account = a, ![d].phase = "select", ![d].asked = FALSE]
  BY DEF LoginSuccess, Delivered
<1>2. Shapes /\ SessionInv /\ LoginDataInv' BY DEF OwnerInv, SessionInv
<1>3. BoundKept BY <1>2, LoginSuccessSession
<1>4. /\ m \in ToCore /\ Took(dg[c], dg'[c], m) /\ \A e \in Core : e # c => dg'[e] = dg[e]
  BY <1>1, <1>2, CoreTakes
<1>5. /\ d \in Desc /\ a \in Account /\ m \in AnswerOf(d) /\ \A b \in Account : m \in SuccessOf(b) <=> b = a
  BY <1>1, <1>4, ToCoreKinds
<1> HIDE DEF m, d, a, out
<1>6. CASE gd' = LoggedOut(c, a)
  <2>1. out \notin Setups /\ out \in LogoutOf(a) BY DEF Setups, LogoutOf, out
  <2>2. gd' = [gd EXCEPT ![c] = Packet(c, out)] BY <1>1, <1>6 DEF LoggedOut, Packet, out
  <2>3. \A e \in Core, b \in Account : /\ FewerIn(gd[e], gd'[e], SetupOf(b))
                                       /\ Has(gd[e], LogoutOf(b)) => Has(gd'[e], LogoutOf(b))
    BY <1>2, <2>1, <2>2, PacketSent
  <2>4. Has(gd'[c], LogoutOf(a))
    <3>1. out \in ToDaemon BY <1>5 DEF ToDaemon, out
    <3>2. Put(gd[c], gd'[c], out) BY <1>1, <1>2, <2>1, <2>2, <3>1, Sending DEF SessionInv
    <3> QED BY <2>1, <3>2 DEF Put
  <2>5. \A e \in Core, b \in Account :
           Has(dg[e], SuccessOf(b)) => Has(dg'[e], SuccessOf(b)) \/ Has(gd'[e], LogoutOf(b))
    BY <1>4, <1>5, <2>4 DEF Took
  <2> QED BY <1>1, <1>3, <2>3, <2>5, CalmOwner DEF dbVars, netVars
<1>7. CASE /\ UNCHANGED gd /\ desc[d].phase # "none"
           /\ desc' = [desc EXCEPT ![d].account = a, ![d].phase = "select", ![d].asked = FALSE]
  <2>1. On(d) = c
    <3>1. Has(dg[c], AnswerOf(d)) BY <1>4, <1>5 DEF Took
    <3>2. Flow(d, c) BY <1>2, <1>5 DEF SessionInv, LoginFlow
    <3> QED BY <1>7, <3>1, <3>2 DEF Flow, Pending, Waiting
  <2>2. desc[d] \in Connection /\ desc \in [Desc -> Connection] BY <1>2, <1>5 DEF Shapes
  <2>3. desc'[d].phase = "select" /\ desc'[d].account = a /\ desc'[d].core = c
    <3> DEFINE r == [desc[d] EXCEPT !.account = a, !.phase = "select", !.asked = FALSE]
    <3>1. r.phase = "select" /\ r.account = a /\ r.core = desc[d].core BY <2>2 DEF Connection
    <3>2. desc' = [desc EXCEPT ![d] = r] BY <1>7, <2>2 DEF Connection
    <3> HIDE DEF r
    <3>3. desc'[d] = r BY <1>5, <2>2, <3>2
    <3> QED BY <2>1, <3>1, <3>3 DEF On
  <2>4. \A b \in Account : b = a => SomeBound(c, b)'
    <3>1. PICK e \in Desc : e = d BY <1>5
    <3>2. \A b \in Account : b = a => BoundTo(e, c, b)'
      BY <1>5, <2>3, <3>1, LogonAssumption DEF BoundTo, Bound, On
    <3> QED BY <3>2 DEF SomeBound
  <2>5. \A e \in Core, b \in Account :
           Has(dg[e], SuccessOf(b)) => Has(dg'[e], SuccessOf(b)) \/ SomeBound(e, b)'
    BY <1>4, <1>5, <2>4 DEF Took
  <2> QED BY <1>1, <1>3, <1>7, <2>5, NoFewer, CalmOwner DEF dbVars, netVars
<1> QED BY <1>1, <1>6, <1>7

\* The other answers, and what the clients do.
LEMMA AnswerOwner ==
    ASSUME OwnerInv, SessionInv', NEW c \in Core, LoginAlready(c) \/ PlayerLoaded(c) \/ Refused(c)
    PROVE  OwnerInv'
<1>1. /\ dg[c] # <<>> /\ Taken(c) /\ Head(dg[c]).type # "success"
      /\ UNCHANGED <<dbVars, netVars, gd>>
  BY DEF LoginAlready, PlayerLoaded, Refused, Delivered
<1>2. Shapes /\ SessionInv /\ LoginDataInv' BY DEF OwnerInv, SessionInv
<1>3. BoundKept BY <1>2, LoginAlreadySession, PlayerLoadedSession
<1>4. \A e \in Core, a \in Account : Has(dg[e], SuccessOf(a)) => Has(dg'[e], SuccessOf(a))
  BY <1>1, <1>2, CoreTaken
<1> QED BY <1>1, <1>3, <1>4, NoFewer, CalmOwner DEF dbVars, netVars

LEMMA ClientOwner ==
    ASSUME OwnerInv, SessionInv',
           \/ \E d \in Desc, c \in Core : Accept(d, c)
           \/ \E d \in Desc, a \in Account, k \in Key : SendLogin(d, a, k)
           \/ \E d \in Desc : CharacterSelect(d) \/ ClientLeaves(d) \/ EndOfFile(d) \/ DisconnectEvent(d)
           \/ \E c \in Core, a \in Account : P2PDisconnect(c, a)
    PROVE  OwnerInv'
<1>1. UNCHANGED <<dbVars, netVars, dg>>
  BY DEF Accept, SendLogin, CharacterSelect, ClientLeaves, EndOfFile, DisconnectEvent, P2PDisconnect
<1>2. Shapes /\ SessionInv /\ LoginDataInv' BY DEF OwnerInv, SessionInv
<1>3. BoundKept
  BY <1>2, AcceptSession, SendLoginSession, CharacterSelectSession, LeavingSession, P2PDisconnectSession
<1>4. gd' = gd \/ \E m : \E c \in Core : m \notin Setups /\ gd' = [gd EXCEPT ![c] = Packet(c, m)]
  <2>1. ASSUME NEW d \in Desc, NEW a \in Account, NEW k \in Key, SendLogin(d, a, k)
        PROVE  \E m : \E c \in Core : m \notin Setups /\ gd' = [gd EXCEPT ![c] = Packet(c, m)]
    <3> DEFINE m == [type |-> "login", desc |-> d, account |-> a, key |-> k]
    <3>1. gd' = [gd EXCEPT ![On(d)] = Packet(On(d), m)] /\ desc[d].phase = "login" BY <2>1 DEF SendLogin
    <3>2. On(d) \in Core BY <1>2, <3>1 DEF Shapes
    <3>3. m \notin Setups BY DEF Setups
    <3> QED BY <3>1, <3>2, <3>3
  <2>2. ASSUME NEW d \in Desc, CharacterSelect(d)
        PROVE  \E m : \E c \in Core : m \notin Setups /\ gd' = [gd EXCEPT ![c] = Packet(c, m)]
    <3> DEFINE m == [type |-> "load", desc |-> d, account |-> desc[d].account]
    <3>1. gd' = [gd EXCEPT ![On(d)] = Packet(On(d), m)] /\ desc[d].phase = "select"
      BY <2>2 DEF CharacterSelect
    <3>2. On(d) \in Core BY <1>2, <3>1 DEF Shapes
    <3>3. m \notin Setups BY DEF Setups
    <3> QED BY <3>1, <3>2, <3>3
  <2> QED BY <2>1, <2>2 DEF Accept, ClientLeaves, EndOfFile, DisconnectEvent, P2PDisconnect
<1>5. \A e \in Core, a \in Account : /\ FewerIn(gd[e], gd'[e], SetupOf(a))
                                     /\ Has(gd[e], LogoutOf(a)) => Has(gd'[e], LogoutOf(a))
  BY <1>2, <1>4, PacketSent, NoFewer
<1> QED BY <1>1, <1>3, <1>5, CalmOwner DEF dbVars, netVars

\* A connection with an account leaves a LOGOUT behind, if its core is connected.
LEMMA DestroyClosedOwner ==
    ASSUME OwnerInv, SessionInv', NEW c \in Core, DestroyClosed(c)
    PROVE  OwnerInv'
<1>1. /\ UNCHANGED <<dbVars, netVars, dg>>
      /\ desc' = [d \in Desc |-> IF d \in Closing(c) THEN Closed ELSE desc[d]]
  BY DEF DestroyClosed, Closing
<1>2. Shapes /\ Reports /\ KeepsData BY DEF OwnerInv, SessionInv
<1>3. /\ \A e \in Core : e # c => gd'[e] = gd[e]
      /\ \A e \in Core, a \in Account : FewerIn(gd[e], gd'[e], SetupOf(a))
      /\ \A a \in Account :
            /\ Has(gd[c], LogoutOf(a)) => Has(gd'[c], LogoutOf(a))
            /\ link[c] # 0 /\ (\E d \in Leaving(c) : desc[d].account = a) => Has(gd'[c], LogoutOf(a))
  BY <1>2, DestroyFacts
<1>4. ASSUME NEW e \in Core, NEW a \in Account, link[e] # 0, Present(e, a) PROVE Present(e, a)'
  <2>1. CASE Has(gd[e], LogoutOf(a)) BY <1>3, <2>1 DEF Present
  <2>2. CASE SomeBound(e, a)
    <3>1. PICK d \in Desc : BoundTo(d, e, a) BY <2>2 DEF SomeBound
    <3>2. CASE d \in Closing(c)
      <4>1. e = c /\ d \in Leaving(c) /\ desc[d].account = a
        BY <3>1, <3>2 DEF BoundTo, Bound, On, Closing, Leaving
      <4> QED BY <1>3, <1>4, <4>1 DEF Present
    <3>3. CASE d \notin Closing(c)
      <4>1. desc'[d] = desc[d] BY <1>1, <3>3
      <4>2. BoundTo(d, e, a)' BY <3>1, <4>1 DEF BoundTo, Bound, On
      <4> QED BY <4>2 DEF Present, SomeBound
    <3> QED BY <3>2, <3>3
  <2> QED BY <1>4, <2>1, <2>2 DEF Present
<1>5. KeepsData' BY <1>1, <1>2 DEF KeepsData, dbVars
<1>6. \A a \in Account : Holder(a)' = Holder(a) BY <1>1, SameHolder DEF dbVars
<1>7. \A a \in Account : Reliable(a)' <=> Reliable(a) BY <1>1 DEF Reliable, dbVars
<1> QED BY <1>1, <1>3, <1>4, <1>5, <1>6, <1>7, OwnerKept DEF netVars

\* A core that loses the db daemon no longer owes anything.
LEMMA LinkDropsOwner ==
    ASSUME OwnerInv, SessionInv', NEW c \in Core, LinkDrops(c)
    PROVE  OwnerInv'
<1>1. /\ link' = [link EXCEPT ![c] = 0]
      /\ gd' = [gd EXCEPT ![c] = <<>>] /\ dg' = [dg EXCEPT ![c] = <<>>]
      /\ UNCHANGED <<dbVars, coreVars>>
  BY DEF LinkDrops
<1>2. /\ gd \in [Core -> Seq(ToDaemon)] /\ dg \in [Core -> Seq(ToCore)] /\ link \in [Core -> Nat]
  BY DEF OwnerInv, SessionInv, Shapes, Links
<1>3. /\ link'[c] = 0 /\ gd'[c] = <<>>
      /\ \A e \in Core : e # c => gd'[e] = gd[e] /\ dg'[e] = dg[e] /\ link'[e] = link[e]
  BY <1>1, <1>2
<1>4. ASSUME NEW e \in Core, NEW a \in Account, e # c PROVE Present(e, a)' <=> Present(e, a)
  BY <1>1, <1>3, <1>4 DEF Present, SomeBound, BoundTo, Bound, On, coreVars
<1>5. KeepsData' BY <1>1 DEF OwnerInv, KeepsData, dbVars
<1>6. Reported'
  <2> SUFFICES ASSUME NEW e \in Core, NEW a \in Account, Has(gd'[e], SetupOf(a))
               PROVE  link'[e] # 0 /\ Present(e, a)'
    BY DEF Reported
  <2>1. e # c BY <1>3, Emptied
  <2> QED BY <1>3, <1>4, <2>1 DEF OwnerInv, Reported
<1>7. Owned'
  <2> SUFFICES ASSUME NEW e \in Core, NEW a \in Account,
                      Holder(a)' = {<<e, link'[e]>>}, link'[e] # 0, Reliable(a)'
               PROVE  Present(e, a)' \/ Has(dg'[e], SuccessOf(a))
    BY DEF Owned, Current
  <2>1. e # c BY <1>3
  <2>2. Holder(a) = Holder(a)' /\ Reliable(a) BY <1>1, SameHolder DEF Reliable, dbVars
  <2>3. Holder(a) = {Current(e)} /\ link[e] # 0 BY <1>3, <2>1, <2>2 DEF Current
  <2> QED BY <1>3, <1>4, <2>1, <2>2, <2>3 DEF OwnerInv, Owned
<1> QED BY <1>5, <1>6, <1>7 DEF OwnerInv

\* A core that is connected again reports those who are there; nothing is locked for its
\* new peer yet.
LEMMA ReconnectOwner ==
    ASSUME OwnerInv, SessionInv', NEW c \in Core, Reconnect(c)
    PROVE  OwnerInv'
<1>1. /\ link[c] = 0 /\ link' = [link EXCEPT ![c] = drops + 1]
      /\ UNCHANGED <<dbVars, coreVars, dg>>
  BY DEF Reconnect
<1>2. Shapes /\ Links /\ Holders /\ KeepsData BY DEF OwnerInv, SessionInv
<1>3. /\ \A e \in Core : e # c => gd'[e] = gd[e]
      /\ \A a \in Account : Has(gd'[c], SetupOf(a)) => SomeBound(c, a)
  BY <1>2, ReconnectFacts
<1>4. /\ drops \in Nat /\ link'[c] = drops + 1 /\ \A e \in Core : e # c => link'[e] = link[e]
  BY <1>1, <1>2 DEF Links
<1>5. \A e \in Core, a \in Account : SomeBound(e, a)' <=> SomeBound(e, a)
  BY <1>1 DEF SomeBound, BoundTo, Bound, On, coreVars
<1>6. \A e \in Core, a \in Account : e # c => (Present(e, a)' <=> Present(e, a))
  BY <1>3, <1>5 DEF Present
<1>7. KeepsData' BY <1>1, <1>2 DEF KeepsData, dbVars
<1>8. Reported'
  <2> SUFFICES ASSUME NEW e \in Core, NEW a \in Account, Has(gd'[e], SetupOf(a))
               PROVE  link'[e] # 0 /\ Present(e, a)'
    BY DEF Reported
  <2>1. CASE e = c
    <3>1. link'[c] # 0 BY <1>4
    <3> QED BY <1>3, <1>5, <2>1, <3>1 DEF Present
  <2>2. CASE e # c BY <1>3, <1>4, <1>6, <2>2 DEF OwnerInv, Reported
  <2> QED BY <2>1, <2>2
<1>9. Owned'
  <2> SUFFICES ASSUME NEW e \in Core, NEW a \in Account,
                      Holder(a)' = {<<e, link'[e]>>}, link'[e] # 0, Reliable(a)'
               PROVE  Present(e, a)' \/ Has(dg'[e], SuccessOf(a))
    BY DEF Owned, Current
  <2>1. Holder(a) = Holder(a)' /\ Reliable(a) BY <1>1, SameHolder DEF Reliable, dbVars
  <2>2. CASE e = c
    <3>1. <<c, drops + 1>> \in peers BY <1>2, <1>4, <2>1, <2>2 DEF Holders
    <3>2. <<c, drops + 1>>[2] <= Newest(<<c, drops + 1>>[1]) BY <1>2, <3>1 DEF Links
    <3>3. drops + 1 <= Newest(c) BY <3>2
    <3>4. Newest(c) = drops BY <1>1 DEF Newest
    <3> QED BY <1>4, <3>3, <3>4
  <2>3. CASE e # c
    <3>1. Holder(a) = {Current(e)} /\ link[e] # 0 BY <1>4, <2>1, <2>3 DEF Current
    <3> QED BY <1>1, <1>6, <2>1, <2>3, <3>1 DEF OwnerInv, Owned
  <2> QED BY <2>2, <2>3
<1> QED BY <1>7, <1>8, <1>9 DEF OwnerInv

LEMMA InitOwner ==
    ASSUME Init
    PROVE  OwnerInv
<1>1. SessionInv BY InitSession
<1>2. gd = [c \in Core |-> <<>>] /\ logon = [a \in Account |-> NoLd] BY DEF Init
<1>3. Reported BY <1>2, Emptied DEF Reported
<1>4. KeepsData BY <1>2 DEF KeepsData
<1>5. Owned BY <1>2 DEF Owned, Holder
<1> QED BY <1>1, <1>3, <1>4, <1>5 DEF OwnerInv

LEMMA OwnerStep ==
    ASSUME OwnerInv, [Next]_vars
    PROVE  OwnerInv'
<1>0. SessionInv' BY SessionStep DEF OwnerInv
<1>1. CASE UNCHANGED vars
  <2>1. UNCHANGED <<dbVars, netVars, coreVars, gd, dg>> BY <1>1 DEF vars
  <2> QED BY <1>0, <2>1, NoFewer, SameBoundKept, CalmOwner DEF dbVars, netVars, coreVars
<1>2. ASSUME NEW a \in Account, NEW k \in Key, AuthLogin(a, k) PROVE OwnerInv'
  BY <1>0, <1>2, AuthLoginOwner
<1>3. ASSUME NEW c \in Core, DbStep(c) PROVE OwnerInv'
  BY <1>0, <1>3, LoginByKeyOwner, LogoutOwner, SetupOwner DEF DbStep
<1>4. ASSUME NEW c \in Core, CoreStep(c) PROVE OwnerInv'
  BY <1>0, <1>4, LoginSuccessOwner, AnswerOwner DEF CoreStep
<1>5. ASSUME NEW c \in Core, DestroyClosed(c) \/ LinkDrops(c) \/ Reconnect(c) PROVE OwnerInv'
  BY <1>0, <1>5, DestroyClosedOwner, LinkDropsOwner, ReconnectOwner
<1>6. ASSUME ResultStep PROVE OwnerInv'
  BY <1>0, <1>6, ResultOwner, ResultLoginOwner DEF ResultStep
<1>7. ASSUME NEW p \in Peer, RemovePeer(p) PROVE OwnerInv'
  BY <1>0, <1>7, RemovePeerOwner
<1>8. ASSUME \/ \E d \in Desc, c \in Core : Accept(d, c)
             \/ \E d \in Desc, a \in Account, k \in Key : SendLogin(d, a, k)
             \/ \E d \in Desc : CharacterSelect(d) \/ ClientLeaves(d) \/ EndOfFile(d) \/ DisconnectEvent(d)
             \/ \E c \in Core, a \in Account : P2PDisconnect(c, a)
      PROVE  OwnerInv'
  BY <1>0, <1>8, ClientOwner
<1> QED BY <1>1, <1>2, <1>3, <1>4, <1>5, <1>6, <1>7, <1>8 DEF Next

\* Whatever logins, logouts, lost connections and reports come in which order, an account
\* that is logged on through a core's connection to the db daemon has somebody on that core,
\* or a packet under way, that will log it off.
THEOREM LockHasOwnerHolds == Spec => []LockHasOwner
<1>1. OwnerInv => LockHasOwner
  <2> SUFFICES ASSUME OwnerInv, NEW a \in Account, logon[a] # NoLd,
                      ld[logon[a]].peer = Current(ld[logon[a]].peer[1]),
                      FreshKeys \/ logon[a] \notin deleted
               PROVE  LET c == ld[logon[a]].peer[1]
                      IN \/ \E d \in Desc : Bound(d) /\ On(d) = c /\ desc[d].account = a
                         \/ \E i \in 1 .. Len(dg[c]) : dg[c][i].type = "success" /\ dg[c][i].account = a
                         \/ \E i \in 1 .. Len(gd[c]) : gd[c][i].type = "logout" /\ gd[c][i].account = a
    BY DEF LockHasOwner
  <2> DEFINE p == ld[logon[a]].peer
             c == p[1]
  <2>1. Shapes /\ Links /\ Holders BY DEF OwnerInv, SessionInv
  <2>2. Holder(a) = {p} BY DEF Holder
  <2>3. p \in peers BY <2>1, <2>2 DEF Holders
  <2>4. p \in Core \X Nat /\ 1 <= p[2] BY <2>1, <2>3 DEF Links
  <2>5. p = <<c, link[c]>> BY DEF Current
  <2> HIDE DEF p
  <2>6. c \in Core /\ link[c] # 0 BY <2>4, <2>5
  <2>7. Present(c, a) \/ Has(dg[c], SuccessOf(a))
    BY <2>2, <2>5, <2>6 DEF OwnerInv, Owned, Current, Reliable
  <2> HIDE DEF c
  <2>8. DOMAIN gd[c] = 1 .. Len(gd[c]) /\ DOMAIN dg[c] = 1 .. Len(dg[c])
    <3>1. gd[c] \in Seq(ToDaemon) /\ dg[c] \in Seq(ToCore) BY <2>1, <2>6 DEF Shapes
    <3> QED BY <3>1
  <2>9. SomeBound(c, a) => \E d \in Desc : Bound(d) /\ On(d) = c /\ desc[d].account = a
    BY DEF SomeBound, BoundTo
  <2>10. Has(dg[c], SuccessOf(a)) =>
            \E i \in 1 .. Len(dg[c]) : dg[c][i].type = "success" /\ dg[c][i].account = a
    BY <2>8 DEF Has, At, SuccessOf
  <2>11. Has(gd[c], LogoutOf(a)) =>
            \E i \in 1 .. Len(gd[c]) : gd[c][i].type = "logout" /\ gd[c][i].account = a
    BY <2>8 DEF Has, At, LogoutOf
  <2> QED BY <2>7, <2>9, <2>10, <2>11 DEF Present, c, p
<1>2. Init => OwnerInv BY InitOwner
<1>3. OwnerInv /\ [Next]_vars => OwnerInv' BY OwnerStep
<1> QED BY <1>1, <1>2, <1>3, PTL DEF Spec
=============================================================================
