---------------------------- MODULE Party_proofs ----------------------------
(***************************************************************************)
(* Proofs about the parties of a channel, for any number of players, cores *)
(* and parties.  Where a player is, and who is told of in the packets on   *)
(* their way, decide what a packet can meet when it is read: a player is   *)
(* in one place, a core that made somebody a member had him, and another   *)
(* core hears of it before he comes there.  From that the pointers of the  *)
(* characters agree with the parties of their core.                        *)
(***************************************************************************)
EXTENDS Party, FiniteSetTheorems, WellFoundedInduction, TLAPS

\* The packets about parties, and all that connections carry.
PartyOp == {"create", "delete", "add", "remove", "level"}
Pack == [op : PartyOp \cup {"load", "logout", "setup"}, no : Nat, pid : Pid \cup Core]
Load(p) == Packet("load", 0, p)
Goodbye(p) == Packet("logout", 0, p)

-----------------------------------------------------------------------------
(* Queues *)

LEMMA SetIs ==
    ASSUME NEW S, NEW q \in Seq(S)
    PROVE  /\ Len(q) \in Nat /\ \A i \in 1 .. Len(q) : q[i] \in S
           /\ \A m : m \in ToSet(q) <=> \E i \in 1 .. Len(q) : q[i] = m
  BY DEF ToSet

LEMMA ConcatIs ==
    ASSUME NEW S, NEW q \in Seq(S), NEW s \in Seq(S)
    PROVE  /\ q \o s \in Seq(S) /\ Len(q) \in Nat /\ Len(s) \in Nat
           /\ Len(q \o s) = Len(q) + Len(s)
           /\ \A i \in 1 .. Len(q) : i \in 1 .. Len(q \o s) /\ (q \o s)[i] = q[i]
           /\ \A i \in 1 .. Len(s) : Len(q) + i \in 1 .. Len(q \o s) /\ (q \o s)[Len(q) + i] = s[i]
           /\ \A i \in 1 .. Len(q \o s) : i > Len(q) =>
                 i - Len(q) \in 1 .. Len(s) /\ (q \o s)[i] = s[i - Len(q)]
           /\ \A i \in 1 .. Len(q \o s) : ~ i > Len(q) => i \in 1 .. Len(q)
  OBVIOUS

LEMMA ConcatSet ==
    ASSUME NEW S, NEW q \in Seq(S), NEW s \in Seq(S)
    PROVE  ToSet(q \o s) = ToSet(q) \cup ToSet(s)
  <1> DEFINE r == q \o s
  <1>1. /\ r \in Seq(S) /\ Len(q) \in Nat /\ Len(s) \in Nat /\ Len(r) = Len(q) + Len(s)
        /\ \A i \in 1 .. Len(q) : i \in 1 .. Len(r) /\ r[i] = q[i]
        /\ \A i \in 1 .. Len(s) : Len(q) + i \in 1 .. Len(r) /\ r[Len(q) + i] = s[i]
        /\ \A i \in 1 .. Len(r) : i > Len(q) => i - Len(q) \in 1 .. Len(s) /\ r[i] = s[i - Len(q)]
        /\ \A i \in 1 .. Len(r) : ~ i > Len(q) => i \in 1 .. Len(q)
    BY ConcatIs
  <1> HIDE DEF r
  <1>2. ASSUME NEW m PROVE m \in ToSet(r) <=> m \in ToSet(q) \/ m \in ToSet(s)
    <2>1. ASSUME NEW i \in 1 .. Len(r), r[i] = m PROVE m \in ToSet(q) \/ m \in ToSet(s)
      BY <1>1, <2>1, SetIs
    <2>2. ASSUME NEW i \in 1 .. Len(q), q[i] = m PROVE m \in ToSet(r) BY <1>1, <2>2, SetIs
    <2>3. ASSUME NEW i \in 1 .. Len(s), s[i] = m PROVE m \in ToSet(r) BY <1>1, <2>3, SetIs
    <2> QED BY <1>1, <2>1, <2>2, <2>3, SetIs
  <1> QED BY <1>2 DEF r

LEMMA AppendIs ==
    ASSUME NEW S, NEW q \in Seq(S), NEW m \in S
    PROVE  <<m>> \in Seq(S) /\ Append(q, m) = q \o <<m>> /\ Len(<<m>>) = 1 /\ <<m>>[1] = m
           /\ ToSet(<<m>>) = {m}
  <1>1. <<m>> \in Seq(S) /\ Len(<<m>>) = 1 /\ <<m>>[1] = m OBVIOUS
  <1>2. ASSUME NEW x PROVE x \in ToSet(<<m>>) <=> x = m
    <2>1. 1 \in 1 .. 1 /\ \A i \in 1 .. 1 : i = 1 OBVIOUS
    <2> QED BY <1>1, <2>1, SetIs
  <1>3. q \o <<m>> = Append(q, m) OBVIOUS
  <1> QED BY <1>1, <1>2, <1>3

\* The queue without its first packet.
LEMMA TailIs ==
    ASSUME NEW S, NEW q \in Seq(S), q # <<>>
    PROVE  /\ Tail(q) \in Seq(S) /\ Len(q) \in Nat /\ Len(Tail(q)) = Len(q) - 1 /\ Len(q) > 0
           /\ 1 \in 1 .. Len(q) /\ Head(q) = q[1] /\ Head(q) \in S
           /\ \A i \in 1 .. Len(Tail(q)) : i + 1 \in 1 .. Len(q) /\ Tail(q)[i] = q[i + 1]
           /\ \A i \in 1 .. Len(q) : i # 1 => i - 1 \in 1 .. Len(Tail(q)) /\ Tail(q)[i - 1] = q[i]
  OBVIOUS

LEMMA TailSet ==
    ASSUME NEW S, NEW q \in Seq(S), q # <<>>
    PROVE  ToSet(q) = {Head(q)} \cup ToSet(Tail(q))
  <1> DEFINE t == Tail(q)
             h == Head(q)
  <1>1. /\ t \in Seq(S) /\ Len(q) \in Nat /\ 1 \in 1 .. Len(q) /\ h = q[1]
        /\ \A i \in 1 .. Len(t) : i + 1 \in 1 .. Len(q) /\ t[i] = q[i + 1]
        /\ \A i \in 1 .. Len(q) : i # 1 => i - 1 \in 1 .. Len(t) /\ t[i - 1] = q[i]
    BY TailIs
  <1> HIDE DEF t, h
  <1>2. ASSUME NEW m PROVE m \in ToSet(q) <=> m = h \/ m \in ToSet(t)
    <2>1. ASSUME NEW i \in 1 .. Len(q), q[i] = m PROVE m = h \/ m \in ToSet(t)
      BY <1>1, <2>1, SetIs
    <2>2. ASSUME NEW i \in 1 .. Len(t), t[i] = m PROVE m \in ToSet(q) BY <1>1, <2>2, SetIs
    <2> QED BY <1>1, <2>1, <2>2, SetIs
  <1> QED BY <1>2 DEF t, h

\* A packet that stands once in a queue.
Once(q, m) == \A i, j \in 1 .. Len(q) : q[i] = m /\ q[j] = m => i = j
\* Behind the i-th packet there is an m; or all of them are.
After(q, i, m) == \E j \in 1 .. Len(q) : j > i /\ q[j] = m
AllAfter(q, i, m) == \A j \in 1 .. Len(q) : q[j] = m => j > i

LEMMA OnceConcat ==
    ASSUME NEW S, NEW q \in Seq(S), NEW s \in Seq(S), NEW m,
           (Once(q, m) /\ m \notin ToSet(s)) \/ (Once(s, m) /\ m \notin ToSet(q))
    PROVE  Once(q \o s, m)
  <1> DEFINE r == q \o s
  <1>1. /\ r \in Seq(S) /\ Len(q) \in Nat /\ Len(s) \in Nat /\ Len(r) = Len(q) + Len(s)
        /\ \A i \in 1 .. Len(r) : i > Len(q) => i - Len(q) \in 1 .. Len(s) /\ r[i] = s[i - Len(q)]
        /\ \A i \in 1 .. Len(q) : r[i] = q[i]
        /\ \A i \in 1 .. Len(r) : ~ i > Len(q) => i \in 1 .. Len(q)
    BY ConcatIs
  <1> HIDE DEF r
  <1> SUFFICES ASSUME NEW i \in 1 .. Len(r), NEW j \in 1 .. Len(r), r[i] = m, r[j] = m
               PROVE  i = j
    BY DEF Once, r
  <1>2. CASE m \notin ToSet(s)
    <2>1. ~ i > Len(q) /\ ~ j > Len(q) BY <1>1, <1>2, SetIs
    <2>2. i \in 1 .. Len(q) /\ j \in 1 .. Len(q) /\ q[i] = m /\ q[j] = m BY <1>1, <2>1
    <2>3. Once(q, m) \/ m \notin ToSet(q) BY <1>2
    <2> QED BY <2>2, <2>3, SetIs DEF Once
  <1>3. CASE m \notin ToSet(q)
    <2>1. i > Len(q) /\ j > Len(q) BY <1>1, <1>3, SetIs
    <2>2. /\ i - Len(q) \in 1 .. Len(s) /\ j - Len(q) \in 1 .. Len(s)
          /\ s[i - Len(q)] = m /\ s[j - Len(q)] = m
      BY <1>1, <2>1
    <2>3. Once(s, m) \/ m \notin ToSet(s) BY <1>3
    <2>4. i - Len(q) = j - Len(q) BY <2>2, <2>3, SetIs DEF Once
    <2> QED BY <1>1, <2>4
  <1> QED BY <1>2, <1>3

LEMMA OnceTail ==
    ASSUME NEW S, NEW q \in Seq(S), q # <<>>, NEW m, Once(q, m)
    PROVE  Once(Tail(q), m) /\ (Head(q) = m => m \notin ToSet(Tail(q)))
  <1> DEFINE t == Tail(q)
  <1>1. /\ t \in Seq(S) /\ Len(q) \in Nat /\ 1 \in 1 .. Len(q) /\ Head(q) = q[1] /\ Len(t) = Len(q) - 1
        /\ \A i \in 1 .. Len(t) : i + 1 \in 1 .. Len(q) /\ t[i] = q[i + 1]
    BY TailIs
  <1> HIDE DEF t
  <1>2. ASSUME NEW i \in 1 .. Len(t), NEW j \in 1 .. Len(t), t[i] = m, t[j] = m PROVE i = j
    <2>1. i + 1 = j + 1 BY <1>1, <1>2 DEF Once
    <2> QED BY <1>1, <2>1
  <1>3. ASSUME Head(q) = m, NEW i \in 1 .. Len(t), t[i] = m PROVE FALSE
    <2>1. i + 1 = 1 BY <1>1, <1>3 DEF Once
    <2> QED BY <1>1, <2>1
  <1>4. Once(t, m) BY <1>2 DEF Once
  <1>5. Head(q) = m => m \notin ToSet(t) BY <1>1, <1>3, SetIs
  <1> QED BY <1>4, <1>5 DEF t

LEMMA AfterConcat ==
    ASSUME NEW S, NEW q \in Seq(S), NEW s \in Seq(S), NEW m, NEW i \in Nat
    PROVE  /\ After(q, i, m) => After(q \o s, i, m)
           /\ i <= Len(q) /\ m \in ToSet(s) => After(q \o s, i, m)
           /\ i <= Len(q) /\ AllAfter(q, i, m) => AllAfter(q \o s, i, m)
           /\ After(s, i, m) => After(q \o s, Len(q) + i, m)
           /\ m \notin ToSet(q) /\ AllAfter(s, i, m) => AllAfter(q \o s, Len(q) + i, m)
  <1> DEFINE r == q \o s
  <1>1. /\ r \in Seq(S) /\ Len(q) \in Nat /\ Len(s) \in Nat /\ Len(r) = Len(q) + Len(s)
        /\ \A k \in 1 .. Len(r) : k > Len(q) => k - Len(q) \in 1 .. Len(s) /\ r[k] = s[k - Len(q)]
        /\ \A k \in 1 .. Len(q) : k \in 1 .. Len(r) /\ r[k] = q[k]
        /\ \A k \in 1 .. Len(s) : Len(q) + k \in 1 .. Len(r) /\ r[Len(q) + k] = s[k]
        /\ \A k \in 1 .. Len(r) : ~ k > Len(q) => k \in 1 .. Len(q)
    BY ConcatIs
  <1> HIDE DEF r
  <1>2. After(q, i, m) => After(r, i, m) BY <1>1 DEF After
  <1>3. ASSUME i <= Len(q), m \in ToSet(s) PROVE After(r, i, m)
    <2>1. PICK k \in 1 .. Len(s) : s[k] = m BY <1>3, SetIs
    <2>2. Len(q) + k \in 1 .. Len(r) /\ r[Len(q) + k] = m BY <1>1, <2>1
    <2>3. Len(q) + k > i BY <1>1, <1>3
    <2> QED BY <2>2, <2>3 DEF After
  <1>4. ASSUME i <= Len(q), AllAfter(q, i, m) PROVE AllAfter(r, i, m)
    <2> SUFFICES ASSUME NEW k \in 1 .. Len(r), r[k] = m PROVE k > i BY DEF AllAfter
    <2>1. CASE k > Len(q) BY <1>1, <1>4, <2>1
    <2>2. CASE ~ k > Len(q) BY <1>1, <1>4, <2>2 DEF AllAfter
    <2> QED BY <2>1, <2>2
  <1>5. ASSUME After(s, i, m) PROVE After(r, Len(q) + i, m)
    <2>1. PICK k \in 1 .. Len(s) : k > i /\ s[k] = m BY <1>5 DEF After
    <2>2. Len(q) + k \in 1 .. Len(r) /\ r[Len(q) + k] = m /\ Len(q) + k > Len(q) + i BY <1>1, <2>1
    <2> QED BY <2>2 DEF After
  <1>6. ASSUME m \notin ToSet(q), AllAfter(s, i, m) PROVE AllAfter(r, Len(q) + i, m)
    <2> SUFFICES ASSUME NEW k \in 1 .. Len(r), r[k] = m PROVE k > Len(q) + i BY DEF AllAfter
    <2>1. k > Len(q) BY <1>1, <1>6, SetIs
    <2>2. k - Len(q) \in 1 .. Len(s) /\ s[k - Len(q)] = m BY <1>1, <2>1
    <2>3. k - Len(q) > i BY <1>6, <2>2 DEF AllAfter
    <2> QED BY <1>1, <2>3
  <1> QED BY <1>2, <1>3, <1>4, <1>5, <1>6 DEF r

LEMMA AfterTail ==
    ASSUME NEW S, NEW q \in Seq(S), q # <<>>, NEW m, NEW i \in Nat
    PROVE  /\ After(q, i + 1, m) => After(Tail(q), i, m)
           /\ AllAfter(q, i + 1, m) => AllAfter(Tail(q), i, m)
  <1> DEFINE t == Tail(q)
  <1>1. /\ t \in Seq(S) /\ Len(q) \in Nat /\ Len(t) = Len(q) - 1
        /\ \A k \in 1 .. Len(t) : k + 1 \in 1 .. Len(q) /\ t[k] = q[k + 1]
        /\ \A k \in 1 .. Len(q) : k # 1 => k - 1 \in 1 .. Len(t) /\ t[k - 1] = q[k]
    BY TailIs
  <1> HIDE DEF t
  <1>2. ASSUME After(q, i + 1, m) PROVE After(t, i, m)
    <2>1. PICK k \in 1 .. Len(q) : k > i + 1 /\ q[k] = m BY <1>2 DEF After
    <2>2. k # 1 /\ k - 1 > i BY <2>1
    <2> QED BY <1>1, <2>1, <2>2 DEF After
  <1>3. ASSUME AllAfter(q, i + 1, m) PROVE AllAfter(t, i, m)
    <2> SUFFICES ASSUME NEW k \in 1 .. Len(t), t[k] = m PROVE k > i BY DEF AllAfter
    <2>1. k + 1 > i + 1 BY <1>1, <1>3 DEF AllAfter
    <2> QED BY <2>1
  <1> QED BY <1>2, <1>3 DEF t

-----------------------------------------------------------------------------
(* What the state is made of *)

Numbers == 1 .. Len(leaders)

Named(m, ls) ==
    /\ m.op \in PartyOp => m.no \in 1 .. Len(ls) /\ m.pid \in Pid
    /\ m.op \in {"create", "delete"} => m.pid = ls[m.no]
    /\ m.op \notin PartyOp => m.no = 0
    /\ m.op \in {"load", "logout"} => m.pid \in Pid
DbPack(ls) == {m \in Pack : m.op # "load" /\ Named(m, ls)}
CorePack(ls) == {m \in Pack : m.op \notin {"logout", "setup"} /\ Named(m, ls)}

RosterInv ==
    \A p \in Pid : /\ roster[p].no = 0 => roster[p].members = {}
                   /\ roster[p].no # 0 => roster[p].no \in Numbers /\ leaders[roster[p].no] = p

DaemonType ==
    /\ roster \in [Pid -> [no : Nat, members : SUBSET Pid]] /\ RosterInv
    /\ locked \in SUBSET Pid /\ peer \in SUBSET Core
CoreType ==
    /\ of \in [Core -> [Pid -> 0 .. Len(leaders)]] /\ link \in [Pid -> 0 .. Len(leaders)]
    /\ loading \in [Core -> SUBSET Pid] /\ in \in [Core -> SUBSET Pid]
NetType ==
    /\ up \in [Core -> BOOLEAN]
    /\ toDb \in [Core -> Seq(DbPack(leaders))] /\ toCore \in [Core -> Seq(CorePack(leaders))]
HistoryType ==
    /\ leaders \in Seq(Pid) /\ stray \in BOOLEAN /\ undefined \in BOOLEAN
    /\ stranded \in SUBSET Pid
TypeInv == DaemonType /\ CoreType /\ NetType /\ HistoryType

-----------------------------------------------------------------------------
(* The parties in a SETUP, one after the other *)

LEMMA ToldAre ==
    ASSUME TypeInv
    PROVE  /\ IsFiniteSet(Told)
           /\ \A m \in Told : \E l \in Pid :
                 /\ roster[l].no \in Numbers /\ leaders[roster[l].no] = l /\ m.no = roster[l].no
                 /\ \/ m = Packet("create", roster[l].no, l)
                    \/ m.pid \in roster[l].members /\ m = Add(roster[l].no, m.pid)
                    \/ m.pid \in roster[l].members /\ m = Level(roster[l].no, m.pid)
           /\ \A l \in Pid : roster[l].no # 0 =>
                 /\ Packet("create", roster[l].no, l) \in Told
                 /\ \A p \in roster[l].members : Add(roster[l].no, p) \in Told
  <1>1. /\ roster \in [Pid -> [no : Nat, members : SUBSET Pid]]
        /\ \A l \in Pid : roster[l].no # 0 => roster[l].no \in Numbers /\ leaders[roster[l].no] = l
    BY DEF TypeInv, DaemonType, RosterInv
  <1> DEFINE of_(l) == {Packet("create", roster[l].no, l)}
                       \cup {Add(roster[l].no, p) : p \in roster[l].members}
                       \cup {Level(roster[l].no, p) : p \in roster[l].members}
             filed == {x \in Pid : roster[x].no # 0}
  <1>2. Told = UNION {of_(l) : l \in filed} BY DEF Told
  <1>3. \A m : m \in Told <=> \E l \in filed : m \in of_(l)
    <2> HIDE DEF filed, of_
    <2> QED BY <1>2
  <1>4. ASSUME NEW l \in Pid, NEW m
        PROVE  m \in of_(l) <=> \/ m = Packet("create", roster[l].no, l)
                                \/ \E p \in roster[l].members : m = Add(roster[l].no, p)
                                \/ \E p \in roster[l].members : m = Level(roster[l].no, p)
    OBVIOUS
  <1> HIDE DEF of_
  <1>5. ASSUME NEW m \in Told
        PROVE  \E l \in Pid :
                 /\ roster[l].no \in Numbers /\ leaders[roster[l].no] = l /\ m.no = roster[l].no
                 /\ \/ m = Packet("create", roster[l].no, l)
                    \/ m.pid \in roster[l].members /\ m = Add(roster[l].no, m.pid)
                    \/ m.pid \in roster[l].members /\ m = Level(roster[l].no, m.pid)
    <2>1. PICK l \in filed : m \in of_(l) BY <1>3
    <2>2. roster[l].no \in Numbers /\ leaders[roster[l].no] = l BY <1>1
    <2>3. CASE m = Packet("create", roster[l].no, l) BY <2>2, <2>3 DEF Packet
    <2>4. CASE \E p \in roster[l].members : m = Add(roster[l].no, p)
      <3>1. PICK p \in roster[l].members : m = Add(roster[l].no, p) BY <2>4
      <3>2. m.pid = p /\ m.no = roster[l].no BY <3>1 DEF Add, Packet
      <3> QED BY <2>2, <3>1, <3>2
    <2>5. CASE \E p \in roster[l].members : m = Level(roster[l].no, p)
      <3>1. PICK p \in roster[l].members : m = Level(roster[l].no, p) BY <2>5
      <3>2. m.pid = p /\ m.no = roster[l].no BY <3>1 DEF Level, Packet
      <3> QED BY <2>2, <3>1, <3>2
    <2> QED BY <1>4, <2>1, <2>3, <2>4, <2>5
  <1>6. ASSUME NEW l \in Pid, roster[l].no # 0
        PROVE  /\ Packet("create", roster[l].no, l) \in Told
               /\ \A p \in roster[l].members : Add(roster[l].no, p) \in Told
    <2>1. l \in filed BY <1>6
    <2>2. Packet("create", roster[l].no, l) \in of_(l) BY <1>4
    <2>3. \A p \in roster[l].members : Add(roster[l].no, p) \in of_(l) BY <1>4
    <2> HIDE DEF filed
    <2> QED BY <1>3, <2>1, <2>2, <2>3
  <1>7. IsFiniteSet(Told)
    <2> DEFINE D == ({"create", "add", "level"} \X Pid) \X Pid
               h == [d \in D |-> Packet(d[1][1], roster[d[1][2]].no, d[2])]
               T == {h[d] : d \in D}
    <2>1. IsFiniteSet({"create", "add", "level"})
      <3>1. IsFiniteSet({"create"}) BY FS_Singleton
      <3>2. IsFiniteSet({"create"} \cup {"add"}) BY <3>1, FS_AddElement
      <3>3. IsFiniteSet(({"create"} \cup {"add"}) \cup {"level"}) BY <3>2, FS_AddElement
      <3>4. ({"create"} \cup {"add"}) \cup {"level"} = {"create", "add", "level"} OBVIOUS
      <3> QED BY <3>3, <3>4
    <2>2. IsFiniteSet({"create", "add", "level"} \X Pid) BY <2>1, PartyAssumption, FS_Product
    <2>3. IsFiniteSet(D) BY <2>2, PartyAssumption, FS_Product
    <2>4. h \in Surjection(D, T)
      <3> HIDE DEF D
      <3> QED BY DEF Surjection
    <2>5. IsFiniteSet(T)
      <3> HIDE DEF D, T, h
      <3> QED BY <2>3, <2>4, FS_Surjection
    <2>6. \A o \in {"create", "add", "level"}, l \in Pid, p \in Pid :
             Packet(o, roster[l].no, p) \in T
      <3> SUFFICES ASSUME NEW o \in {"create", "add", "level"}, NEW l \in Pid, NEW p \in Pid
                   PROVE  Packet(o, roster[l].no, p) \in T
        OBVIOUS
      <3> DEFINE d == <<<<o, l>>, p>>
      <3>1. d \in D /\ d[1][1] = o /\ d[1][2] = l /\ d[2] = p OBVIOUS
      <3>2. h[d] = Packet(o, roster[l].no, p) BY <3>1
      <3> HIDE DEF d, D, h
      <3> QED BY <3>1, <3>2
    <2>7. Told \subseteq T
      <3> HIDE DEF T
      <3> SUFFICES ASSUME NEW m \in Told PROVE m \in T OBVIOUS
      <3>1. PICK l \in Pid :
              \/ m = Packet("create", roster[l].no, l)
              \/ m.pid \in roster[l].members /\ m = Add(roster[l].no, m.pid)
              \/ m.pid \in roster[l].members /\ m = Level(roster[l].no, m.pid)
        BY <1>5
      <3>2. roster[l].members \subseteq Pid BY <1>1
      <3> QED BY <2>6, <3>1, <3>2 DEF Add, Level
    <2> HIDE DEF T
    <2> QED BY <2>5, <2>7, FS_Subset
  <1> QED BY <1>5, <1>6, <1>7

\* A strict order of finitely many packets has one that k of them are sooner than.
LEMMA SnapshotIs ==
    ASSUME TypeInv, NEW id \in Bijection(Pid, 1 .. Cardinality(Pid))
    PROVE  /\ Snapshot(id) \in Seq(CorePack(leaders)) /\ ToSet(Snapshot(id)) = Told
           /\ \A i, j \in 1 .. Len(Snapshot(id)) :
                 Snapshot(id)[i].op = "create" /\ Snapshot(id)[j].no = Snapshot(id)[i].no => i <= j
  <1> DEFINE T == Told
             N == Cardinality(T)
             down(x) == {m \in T : Sooner(id, m, x)}
             r == [x \in T |-> Cardinality(down(x))]
             s == Snapshot(id)
             line(y) == IF y.op = "create" THEN 0 ELSE 2 * id[y.pid] + (IF y.op = "add" THEN 0 ELSE 1)
             block(y) == id[leaders[y.no]]
  <1>1. IsFiniteSet(T) /\ N \in Nat BY ToldAre, FS_CardinalityType
  <1>2. /\ \A p \in Pid : id[p] \in Nat /\ id[p] >= 1
        /\ \A p, q \in Pid : id[p] = id[q] => p = q
    BY DEF Bijection, Injection, IsInjective
  <1>3. roster \in [Pid -> [no : Nat, members : SUBSET Pid]] BY DEF TypeInv, DaemonType
  <1>4. ASSUME NEW x \in T
        PROVE  /\ x.op \in {"create", "add", "level"} /\ x.no \in Numbers
               /\ x = Packet(x.op, x.no, x.pid) /\ x.pid \in Pid /\ leaders[x.no] \in Pid
               /\ roster[leaders[x.no]].no = x.no
               /\ x.op = "create" => x.pid = leaders[x.no]
    <2>1. PICK l \in Pid :
            /\ roster[l].no \in Numbers /\ leaders[roster[l].no] = l /\ x.no = roster[l].no
            /\ \/ x = Packet("create", roster[l].no, l)
               \/ x.pid \in roster[l].members /\ x = Add(roster[l].no, x.pid)
               \/ x.pid \in roster[l].members /\ x = Level(roster[l].no, x.pid)
      BY ToldAre
    <2>2. roster[l].members \subseteq Pid BY <1>3
    <2>3. CASE x = Packet("create", roster[l].no, l) BY <2>1, <2>3 DEF Packet
    <2>4. CASE x.pid \in roster[l].members /\ x = Add(roster[l].no, x.pid)
      <3>1. x.op = "add" BY <2>4 DEF Add, Packet
      <3> QED BY <2>1, <2>2, <2>4, <3>1 DEF Add
    <2>5. CASE x.pid \in roster[l].members /\ x = Level(roster[l].no, x.pid)
      <3>1. x.op = "level" BY <2>5 DEF Level, Packet
      <3> QED BY <2>1, <2>2, <2>5, <3>1 DEF Level
    <2> QED BY <2>1, <2>3, <2>4, <2>5
  <1>5. \A x, y : Sooner(id, x, y) <=> block(x) < block(y) \/ (block(x) = block(y) /\ line(x) < line(y))
    BY DEF Sooner
  <1>6. \A x \in T : block(x) \in Nat /\ line(x) \in Nat BY <1>2, <1>4
  <1>7. ASSUME NEW x \in T, NEW y \in T, block(x) = block(y), line(x) = line(y) PROVE x = y
    <2>1. leaders[x.no] = leaders[y.no] /\ x.no = y.no BY <1>2, <1>4, <1>7
    <2>2. CASE x.op = "create"
      <3>1. y.op = "create"
        <4>1. line(x) = 0 BY <2>2
        <4>2. y.op # "create" => line(y) > 0 BY <1>2, <1>4
        <4> QED BY <1>7, <4>1, <4>2
      <3> QED BY <1>4, <2>1, <2>2, <3>1
    <2>3. CASE x.op # "create"
      <3>1. y.op # "create"
        <4>1. line(x) > 0 BY <1>2, <1>4, <2>3
        <4>2. y.op = "create" => line(y) = 0 OBVIOUS
        <4> QED BY <1>7, <4>1, <4>2
      <3>2. 2 * id[x.pid] + (IF x.op = "add" THEN 0 ELSE 1) = 2 * id[y.pid] + (IF y.op = "add" THEN 0 ELSE 1)
        BY <1>7, <2>3, <3>1
      <3>3. id[x.pid] \in Nat /\ id[y.pid] \in Nat BY <1>2, <1>4
      <3> HIDE DEF line, block
      <3>4. id[x.pid] = id[y.pid] /\ (x.op = "add" <=> y.op = "add") BY <3>2, <3>3
      <3>5. x.pid = y.pid /\ x.op = y.op BY <1>2, <1>4, <2>3, <3>1, <3>4
      <3> QED BY <1>4, <2>1, <3>5
    <2> QED BY <2>2, <2>3
  <1> HIDE DEF line, block, T, N
  <1>8. \A x \in T : ~Sooner(id, x, x) BY <1>5, <1>6
  <1>9. \A x, y, z \in T : Sooner(id, x, y) /\ Sooner(id, y, z) => Sooner(id, x, z) BY <1>5, <1>6
  <1>10. \A x, y \in T : x # y => Sooner(id, x, y) \/ Sooner(id, y, x) BY <1>5, <1>6, <1>7
  <1>11. ASSUME NEW x \in T PROVE IsFiniteSet(down(x)) /\ r[x] \in Nat /\ r[x] = Cardinality(down(x)) /\ r[x] < N
    <2>1. down(x) \in SUBSET T OBVIOUS
    <2>2. IsFiniteSet(down(x)) /\ Cardinality(down(x)) \in Nat
      BY <1>1, <2>1, FS_Subset, FS_CardinalityType
    <2>3. down(x) # T BY <1>8
    <2>4. Cardinality(down(x)) < N
      <3> DEFINE D == down(x)
      <3>1. D \in SUBSET T /\ D # T BY <2>1, <2>3
      <3> HIDE DEF D
      <3>2. Cardinality(D) <= Cardinality(T) /\ (Cardinality(D) = Cardinality(T) => D = T)
            /\ Cardinality(D) \in Nat
        BY <1>1, <3>1, FS_Subset, FS_CardinalityType
      <3> QED BY <1>1, <3>1, <3>2 DEF D, N
    <2> QED BY <2>2, <2>4
  <1>12. ASSUME NEW x \in T, NEW y \in T, Sooner(id, x, y) PROVE r[x] < r[y]
    <2> DEFINE X == down(x)
               Y == down(y)
    <2>1. X \subseteq Y /\ x \in Y /\ x \notin X BY <1>8, <1>9, <1>12
    <2>2. IsFiniteSet(X) /\ IsFiniteSet(Y) /\ r[x] = Cardinality(X) /\ r[y] = Cardinality(Y)
      BY <1>11
    <2> HIDE DEF X, Y, r
    <2>3. Cardinality(X) <= Cardinality(Y) /\ (Cardinality(X) = Cardinality(Y) => X = Y)
      BY <2>1, <2>2, FS_Subset
    <2>4. Cardinality(X) \in Nat /\ Cardinality(Y) \in Nat BY <2>2, FS_CardinalityType
    <2> QED BY <2>1, <2>2, <2>3, <2>4
  <1>13. \A x, y \in T : r[x] = r[y] => x = y
    <2> HIDE DEF r
    <2> SUFFICES ASSUME NEW x \in T, NEW y \in T, r[x] = r[y], x # y PROVE FALSE OBVIOUS
    <2>1. r[x] \in Nat /\ r[y] \in Nat BY <1>11
    <2> QED BY <1>10, <1>12, <2>1
  <1>14. ASSUME NEW k \in 0 .. N - 1 PROVE \E x \in T : r[x] = k
    <2> SUFFICES ASSUME \A x \in T : r[x] # k PROVE FALSE OBVIOUS
    <2> DEFINE R == (0 .. N - 1) \ {k}
    <2>1. r \in [T -> R]
      <3>1. \A x \in T : r[x] \in R
        <4> HIDE DEF r
        <4>1. ASSUME NEW x \in T PROVE r[x] \in Nat /\ r[x] < N /\ r[x] # k BY <1>11
        <4>2. \A y \in Nat : y < N /\ y # k => y \in R BY <1>1
        <4> HIDE DEF R
        <4> QED BY <4>1, <4>2
      <3>2. r = [x \in T |-> r[x]] OBVIOUS
      <3> HIDE DEF r
      <3> QED BY <3>1, <3>2
    <2>2. IsFiniteSet(0 .. N - 1) /\ Cardinality(0 .. N - 1) = N
      BY <1>1, FS_Interval
    <2>3. IsFiniteSet(R) /\ Cardinality(R) = N - 1 BY <1>1, <2>2, FS_RemoveElement
    <2>4. Cardinality(R) < Cardinality(T) BY <1>1, <2>3 DEF N
    <2> HIDE DEF R, r
    <2>5. \E x, y \in T : x # y /\ r[x] = r[y] BY <1>1, <2>1, <2>3, <2>4, FS_PigeonHole
    <2> QED BY <1>13, <2>5
  <1>15. s = [i \in 1 .. N |-> CHOOSE x \in T : Cardinality(down(x)) = i - 1] BY DEF Snapshot, T, N
  <1>16. ASSUME NEW i \in 1 .. N PROVE s[i] \in T /\ r[s[i]] = i - 1
    <2>1. i - 1 \in 0 .. N - 1 BY <1>1
    <2>2. \E x \in T : Cardinality(down(x)) = i - 1
      <3>1. PICK x \in T : r[x] = i - 1 BY <1>14, <2>1
      <3>2. r[x] = Cardinality(down(x)) BY <1>11
      <3> QED BY <3>1, <3>2
    <2> DEFINE y == CHOOSE x \in T : Cardinality(down(x)) = i - 1
    <2>3. y \in T /\ Cardinality(down(y)) = i - 1 BY <2>2
    <2>4. s[i] = y BY <1>15
    <2> HIDE DEF y, s
    <2>5. r[y] = Cardinality(down(y)) BY <1>11, <2>3
    <2> QED BY <2>3, <2>4, <2>5
  <1> HIDE DEF down, r, s
  <1>17. s \in Seq(T) /\ Len(s) = N
    <2>1. s = [i \in 1 .. N |-> s[i]] BY <1>15
    <2>2. \A i \in 1 .. N : s[i] \in T BY <1>16
    <2> QED BY <1>1, <2>1, <2>2
  <1>18. ToSet(s) = T
    <2>1. ASSUME NEW x \in T PROVE x \in ToSet(s)
      <3> DEFINE i == r[x] + 1
      <3>1. r[x] \in Nat /\ r[x] < N BY <1>11
      <3>2. i \in 1 .. N /\ i - 1 = r[x] BY <1>1, <3>1
      <3>3. s[i] \in T /\ r[s[i]] = r[x] BY <1>16, <3>2
      <3>4. s[i] = x BY <1>13, <3>3
      <3> HIDE DEF i
      <3> QED BY <1>17, <3>2, <3>4, SetIs
    <2>2. ASSUME NEW x \in ToSet(s) PROVE x \in T BY <1>17, <2>2, SetIs
    <2> QED BY <2>1, <2>2
  <1>19. ASSUME NEW i \in 1 .. Len(s), NEW j \in 1 .. Len(s), s[i].op = "create", s[j].no = s[i].no
         PROVE  i <= j
    <2>1. s[i] \in T /\ s[j] \in T /\ r[s[i]] = i - 1 /\ r[s[j]] = j - 1 BY <1>16, <1>17, <1>19
    <2>2. block(s[i]) = block(s[j]) /\ line(s[i]) = 0 BY <1>19 DEF block, line
    <2>3. CASE s[i] = s[j] BY <2>1, <2>3
    <2>4. CASE s[i] # s[j]
      <3>1. ~Sooner(id, s[j], s[i]) BY <1>5, <1>6, <2>1, <2>2
      <3>2. r[s[i]] < r[s[j]] BY <1>10, <1>12, <2>1, <2>4, <3>1
      <3> QED BY <2>1, <3>2
    <2> QED BY <2>3, <2>4
  <1>20. T \subseteq CorePack(leaders)
    <2> SUFFICES ASSUME NEW x \in T PROVE x \in CorePack(leaders) OBVIOUS
    <2>1. /\ x.op \in {"create", "add", "level"} /\ x.no \in Numbers
          /\ x = Packet(x.op, x.no, x.pid) /\ x.pid \in Pid
          /\ x.op = "create" => x.pid = leaders[x.no]
      BY <1>4
    <2>2. x.no \in Nat BY <2>1 DEF Numbers
    <2>3. x \in Pack BY <2>1, <2>2 DEF Packet, Pack, PartyOp
    <2> QED BY <2>1, <2>3 DEF CorePack, Named, PartyOp, Numbers
  <1>21. s \in Seq(CorePack(leaders)) BY <1>17, <1>20
  <1> QED BY <1>18, <1>19, <1>21 DEF s, T

-----------------------------------------------------------------------------
(* What the steps do to the queues *)

LEMMA Grown ==
    ASSUME NEW ls \in Seq(Pid), NEW a \in Pid
    PROVE  /\ DbPack(ls) \subseteq DbPack(Append(ls, a))
           /\ CorePack(ls) \subseteq CorePack(Append(ls, a))
           /\ Len(Append(ls, a)) = Len(ls) + 1 /\ Len(ls) \in Nat
           /\ \A n \in 1 .. Len(ls) : Append(ls, a)[n] = ls[n]
           /\ Append(ls, a)[Len(ls) + 1] = a
  <1>1. /\ Len(Append(ls, a)) = Len(ls) + 1 /\ Len(ls) \in Nat
        /\ \A n \in 1 .. Len(ls) : n \in 1 .. Len(Append(ls, a)) /\ Append(ls, a)[n] = ls[n]
        /\ Append(ls, a)[Len(ls) + 1] = a
    OBVIOUS
  <1>2. \A m \in Pack : Named(m, ls) => Named(m, Append(ls, a)) BY <1>1 DEF Named, PartyOp
  <1> QED BY <1>1, <1>2 DEF DbPack, CorePack

LEMMA SendIs ==
    ASSUME NEW L, toDb \in [Core -> Seq(L)], NEW c \in Core, NEW s \in Seq(L), Send(c, s)
    PROVE  /\ toDb' \in [Core -> Seq(L)]
           /\ \A d \in Core : d # c => toDb'[d] = toDb[d]
           /\ up[c] => toDb'[c] = toDb[c] \o s
           /\ ~up[c] => toDb'[c] = toDb[c]
  <1>1. toDb[c] \o s \in Seq(L) BY ConcatIs
  <1> QED BY <1>1 DEF Send

LEMMA SendNothing ==
    ASSUME NEW L, toDb \in [Core -> Seq(L)], NEW c \in Core
    PROVE  <<>> \in Seq(L) /\ (Send(c, <<>>) <=> toDb' = toDb)
  <1>1. toDb[c] \in Seq(L) BY DEF Send
  <1>2. toDb[c] \o <<>> = toDb[c] BY <1>1
  <1>3. [toDb EXCEPT ![c] = toDb[c]] = toDb OBVIOUS
  <1> QED BY <1>2, <1>3 DEF Send

LEMMA ForwardIs ==
    ASSUME NEW L, toCore \in [Core -> Seq(L)], NEW to, NEW m \in L, Forward(to, m)
    PROVE  /\ toCore' \in [Core -> Seq(L)]
           /\ \A d \in Core : d \in to => toCore'[d] = toCore[d] \o <<m>>
           /\ \A d \in Core : d \notin to => toCore'[d] = toCore[d]
  <1>1. \A d \in Core : Append(toCore[d], m) = toCore[d] \o <<m>> /\ toCore[d] \o <<m>> \in Seq(L)
    <2> SUFFICES ASSUME NEW d \in Core
                 PROVE  Append(toCore[d], m) = toCore[d] \o <<m>> /\ toCore[d] \o <<m>> \in Seq(L)
      OBVIOUS
    <2>1. toCore[d] \in Seq(L) OBVIOUS
    <2> QED BY <2>1, AppendIs, ConcatIs
  <1> QED BY <1>1 DEF Forward

\* The first packet of a queue is read.
Read(q, r, c) == q[c] # <<>> /\ r = [q EXCEPT ![c] = Tail(@)]

LEMMA ReadIs ==
    ASSUME NEW L, NEW q \in [Core -> Seq(L)], NEW r, NEW c \in Core, Read(q, r, c)
    PROVE  /\ r \in [Core -> Seq(L)] /\ r[c] = Tail(q[c]) /\ Head(q[c]) \in L /\ q[c] # <<>>
           /\ \A d \in Core : d # c => r[d] = q[d]
  <1>1. q[c] \in Seq(L) /\ q[c] # <<>> BY DEF Read
  <1>2. Tail(q[c]) \in Seq(L) /\ Head(q[c]) \in L BY <1>1, TailIs
  <1> QED BY <1>1, <1>2 DEF Read

\* A party that the core has, or a character of it points to.
Has(c, n) == \E p \in Pid : of[c][p] = n \/ (p \in in[c] /\ link[p] = n)
\* What the core c says about its parties.
Said(c, s) ==
    \A i \in 1 .. Len(s) :
       LET m == s[i]
           l == leaders'[m.no]
       IN /\ m.op \in PartyOp
          /\ m.op \in {"create", "add"} => m.pid \in in[c] /\ l \in in[c]
          /\ m.op = "remove" => IF m.pid = l THEN i = 2 /\ s[1].op = "delete" /\ s[1].no = m.no
                                ELSE m.pid \in in[c] \/ l \in in[c]
          /\ m.op = "create" => i = 1 /\ m.no = Len(leaders) + 1
          /\ m.no = Len(leaders) + 1 \/ Has(c, m.no)
\* It works on its parties: what it was asked for, or a packet other than a load.
Worked(c, s) ==
    /\ c \in Core /\ s \in Seq(DbPack(leaders')) /\ Send(c, s) /\ Said(c, s)
    /\ toCore' = toCore \/ (Read(toCore, toCore', c) /\ Head(toCore[c]).op # "load")
    /\ UNCHANGED <<daemon, players, up, stranded>>
\* The daemon reads a packet about a party and forwards it, if at all, to others.
Filing(c, to) ==
    /\ c \in Core /\ Read(toDb, toDb', c) /\ Head(toDb[c]).op \in PartyOp
    /\ \/ toCore' = toCore
       \/ /\ Forward(to, Head(toDb[c])) /\ to \subseteq peer
          /\ Head(toDb[c]).op # "level" => c \notin to
    /\ UNCHANGED <<copies, players, up, leaders, stranded, locked, peer>>

LEMMA PartyPacketIs ==
    ASSUME NEW ls \in Seq(Pid), NEW n \in 1 .. Len(ls), NEW p \in Pid
    PROVE  /\ Packet("create", n, ls[n]) \in DbPack(ls) /\ Packet("delete", n, ls[n]) \in DbPack(ls)
           /\ Add(n, p) \in DbPack(ls) /\ Leave(n, p) \in DbPack(ls) /\ Level(n, p) \in DbPack(ls)
  <1>1. ls[n] \in Pid /\ n \in Nat OBVIOUS
  <1> QED BY <1>1 DEF Add, Leave, Level, Packet, DbPack, Pack, Named, PartyOp

-----------------------------------------------------------------------------
(* The types *)

LEMMA WorkTypes ==
    ASSUME TypeInv, NEW c, NEW s, Worked(c, s),
           leaders' = leaders \/ \E a \in Pid : leaders' = Append(leaders, a)
    PROVE  DaemonType' /\ NetType' /\ leaders' \in Seq(Pid) /\ Len(leaders) \in Nat
           /\ Len(leaders') \in Nat /\ Len(leaders) <= Len(leaders')
           /\ 0 .. Len(leaders) \subseteq 0 .. Len(leaders')
  <1> USE DEF TypeInv, DaemonType, CoreType, NetType, HistoryType
  <1>1. /\ leaders' \in Seq(Pid) /\ Len(leaders) \in Nat /\ Len(leaders') \in Nat
        /\ Len(leaders) <= Len(leaders')
        /\ DbPack(leaders) \subseteq DbPack(leaders') /\ CorePack(leaders) \subseteq CorePack(leaders')
        /\ \A n \in Numbers : n \in Numbers' /\ leaders'[n] = leaders[n]
    <2>1. CASE leaders' = leaders
      <3>1. \A n \in Numbers : n \in Numbers' BY <2>1 DEF Numbers
      <3> QED BY <2>1, <3>1
    <2>2. CASE \E a \in Pid : leaders' = Append(leaders, a)
      <3>1. PICK a \in Pid : leaders' = Append(leaders, a) BY <2>2
      <3>2. Append(leaders, a) \in Seq(Pid) OBVIOUS
      <3> QED BY <3>1, <3>2, Grown DEF Numbers
    <2> QED BY <2>1, <2>2
  <1>2. DaemonType' BY <1>1 DEF Worked, daemon, RosterInv
  <1>3. toDb \in [Core -> Seq(DbPack(leaders'))] /\ toCore \in [Core -> Seq(CorePack(leaders'))]
    BY <1>1
  <1>4. toDb' \in [Core -> Seq(DbPack(leaders'))]
    <2> DEFINE L == DbPack(leaders')
    <2>1. toDb \in [Core -> Seq(L)] /\ c \in Core /\ s \in Seq(L) /\ Send(c, s) BY <1>3 DEF Worked
    <2> HIDE DEF L
    <2>2. toDb' \in [Core -> Seq(L)] BY <2>1, SendIs
    <2> QED BY <2>2 DEF L
  <1>5. toCore' \in [Core -> Seq(CorePack(leaders'))]
    <2> DEFINE L == CorePack(leaders')
    <2>1. toCore \in [Core -> Seq(L)] BY <1>3
    <2> HIDE DEF L
    <2>2. CASE toCore' = toCore BY <2>1, <2>2 DEF L
    <2>3. CASE Read(toCore, toCore', c)
      <3>1. c \in Core BY DEF Worked
      <3>2. toCore' \in [Core -> Seq(L)] BY <2>1, <2>3, <3>1, ReadIs
      <3> QED BY <3>2 DEF L
    <2> QED BY <2>2, <2>3 DEF Worked
  <1>6. up' \in [Core -> BOOLEAN] BY DEF Worked
  <1>7. NetType' BY <1>4, <1>5, <1>6
  <1>8. 0 .. Len(leaders) \subseteq 0 .. Len(leaders') BY <1>1
  <1> QED BY <1>1, <1>2, <1>7, <1>8

LEMMA OutTypes ==
    ASSUME CoreType, leaders \in Seq(Pid), NEW c \in Core, NEW who, Out(c, who)
    PROVE  /\ of' \in [Core -> [Pid -> 0 .. Len(leaders)]] /\ link' \in [Pid -> 0 .. Len(leaders)]
           /\ \A d \in Core, p \in Pid : of'[d][p] = IF d = c /\ p \in who THEN 0 ELSE of[d][p]
           /\ \A p \in Pid : link'[p] = IF p \in who /\ p \in in[c] /\ link[p] = of[c][p]
                                        THEN 0 ELSE link[p]
  <1> USE DEF CoreType
  <1>1. Len(leaders) \in Nat OBVIOUS
  <1>2. of' = [of EXCEPT ![c] = [p \in Pid |-> IF p \in who THEN 0 ELSE of[c][p]]] BY DEF Out
  <1>3. [p \in Pid |-> IF p \in who THEN 0 ELSE of[c][p]] \in [Pid -> 0 .. Len(leaders)] BY <1>1
  <1>4. link' = [p \in Pid |-> IF p \in who \cap in[c] /\ link[p] = of[c][p] THEN 0 ELSE link[p]]
    BY DEF Out
  <1> QED BY <1>1, <1>2, <1>3, <1>4

LEMMA InviteShape ==
    ASSUME TypeInv, NEW c \in Core, NEW a \in Pid, NEW b \in Pid, InviteAccept(c, a, b)
    PROVE  TypeInv' /\ \E s : Worked(c, s)
  <1> USE DEF TypeInv, HistoryType, CoreType
  <1>1. /\ a \in in[c] /\ b \in in[c] /\ toCore' = toCore
        /\ UNCHANGED <<daemon, players, up, stranded>>
    BY DEF InviteAccept, Request
  <1>2. toDb \in [Core -> Seq(DbPack(leaders))] BY DEF NetType
  <1>3. CASE Undefined
    <2>1. <<>> \in Seq(DbPack(leaders')) /\ Send(c, <<>>) /\ Len(<<>>) = 0
      BY <1>2, <1>3, SendNothing DEF Undefined
    <2>2. Worked(c, <<>>) BY <1>1, <2>1 DEF Worked, Said
    <2>3. leaders' = leaders BY <1>3 DEF Undefined
    <2>4. DaemonType' /\ NetType' BY <2>2, <2>3, WorkTypes
    <2>5. CoreType' BY <1>1, <1>3 DEF Undefined, copies, players
    <2>6. HistoryType' BY <1>1, <1>3 DEF Undefined
    <2> QED BY <2>2, <2>4, <2>5, <2>6
  <1>4. CASE /\ link[a] # 0 /\ leaders[link[a]] = a /\ Joined(c, link[a], {b})
             /\ Send(c, <<Add(link[a], b), Level(link[a], b)>>)
             /\ UNCHANGED <<leaders, stray, undefined>>
    <2> DEFINE n == link[a]
               s == <<Add(n, b), Level(n, b)>>
    <2>1. n \in 1 .. Len(leaders) BY <1>4
    <2>2. Add(n, b) \in DbPack(leaders') /\ Level(n, b) \in DbPack(leaders')
      BY <1>4, <2>1, PartyPacketIs
    <2>3. /\ s \in Seq(DbPack(leaders')) /\ Len(s) = 2 /\ s[1] = Add(n, b) /\ s[2] = Level(n, b)
          /\ \A i \in 1 .. Len(s) : i = 1 \/ i = 2
      BY <2>2
    <2>4. \A i \in 1 .. Len(s) : s[i].op \in {"add", "level"} /\ s[i].pid \in in[c] /\ s[i].no = n
      BY <1>1, <2>3 DEF Add, Level, Packet
    <2>5. Send(c, s) BY <1>4
    <2>7. leaders' = leaders BY <1>4
    <2>6. Worked(c, s)
      <3>1. leaders'[n] \in in[c] /\ Has(c, n) BY <1>1, <1>4, <2>7 DEF Has
      <3> HIDE DEF s, n
      <3>2. Said(c, s) BY <2>4, <3>1 DEF Said, PartyOp
      <3> QED BY <1>1, <2>3, <2>5, <3>2 DEF Worked
    <2>8. DaemonType' /\ NetType' BY <2>6, <2>7, WorkTypes
    <2>9. CoreType'
      <3>1. of' = [of EXCEPT ![c] = [p \in Pid |-> IF p \in {b} THEN n ELSE @[p]]] BY <1>4 DEF Joined
      <3>2. [p \in Pid |-> IF p \in {b} THEN n ELSE of[c][p]] \in [Pid -> 0 .. Len(leaders)] BY <2>1
      <3>3. link' = [p \in Pid |-> IF p \in {b} THEN n ELSE link[p]] BY <1>4 DEF Joined
      <3> QED BY <1>1, <2>1, <2>7, <3>1, <3>2, <3>3 DEF players
    <2>10. HistoryType' BY <1>1, <1>4
    <2> QED BY <2>6, <2>8, <2>9, <2>10
  <1>5. CASE LET n == Len(leaders) + 1
             IN /\ leaders' = Append(leaders, a)
                /\ Joined(c, n, {a, b})
                /\ Send(c, <<Create(n), Add(n, a), Level(n, a), Add(n, b), Level(n, b)>>)
                /\ UNCHANGED <<stray, undefined>>
    <2> DEFINE n == Len(leaders) + 1
               s == <<Create(n), Add(n, a), Level(n, a), Add(n, b), Level(n, b)>>
    <2>1. /\ leaders' = Append(leaders, a) /\ leaders' \in Seq(Pid) /\ n \in 1 .. Len(leaders')
          /\ leaders'[n] = a /\ n \in Nat
      BY <1>5
    <2>2. /\ Create(n) \in DbPack(leaders') /\ Create(n) = Packet("create", n, a)
          /\ Add(n, a) \in DbPack(leaders') /\ Level(n, a) \in DbPack(leaders')
          /\ Add(n, b) \in DbPack(leaders') /\ Level(n, b) \in DbPack(leaders')
      <3> HIDE DEF n
      <3> QED BY <2>1, PartyPacketIs DEF Create
    <2>3. /\ s \in Seq(DbPack(leaders')) /\ Len(s) = 5
          /\ s[1] = Create(n) /\ s[2] = Add(n, a) /\ s[3] = Level(n, a)
          /\ s[4] = Add(n, b) /\ s[5] = Level(n, b)
          /\ \A i \in 1 .. Len(s) : i \in {1, 2, 3, 4, 5}
      <3> HIDE DEF n
      <3> QED BY <2>2
    <2>4. \A i \in 1 .. Len(s) : /\ s[i].op \in {"create", "add", "level"} /\ s[i].pid \in in[c]
                                 /\ s[i].no = n /\ (s[i].op = "create" => i = 1)
      <3>1. \A i \in {1, 2, 3, 4, 5} : /\ s[i].op \in {"create", "add", "level"} /\ s[i].pid \in in[c]
                                       /\ s[i].no = n /\ (s[i].op = "create" => i = 1)
        <4> HIDE DEF n
        <4> QED BY <1>1, <2>2, <2>3 DEF Add, Level, Packet
      <3> HIDE DEF s
      <3> QED BY <2>3, <3>1
    <2>5. Send(c, s) BY <1>5
    <2>6. Worked(c, s)
      <3>1. leaders'[n] \in in[c] /\ n = Len(leaders) + 1 BY <1>1, <2>1
      <3> HIDE DEF s, n
      <3>2. Said(c, s) BY <2>4, <3>1 DEF Said, PartyOp
      <3> QED BY <1>1, <2>3, <2>5, <3>2 DEF Worked
    <2>7. leaders' = Append(leaders, a) BY <1>5
    <2>8. DaemonType' /\ NetType' /\ 0 .. Len(leaders) \subseteq 0 .. Len(leaders')
      BY <2>6, <2>7, WorkTypes
    <2>9. CoreType'
      <3>1. /\ of' = [of EXCEPT ![c] = [p \in Pid |-> IF p \in {a, b} THEN n ELSE of[c][p]]]
            /\ link' = [p \in Pid |-> IF p \in {a, b} THEN n ELSE link[p]]
        BY <1>5 DEF Joined
      <3>2. n \in 0 .. Len(leaders') BY <2>1
      <3> HIDE DEF n
      <3>3. [p \in Pid |-> IF p \in {a, b} THEN n ELSE of[c][p]] \in [Pid -> 0 .. Len(leaders')]
        BY <2>8, <3>2
      <3> QED BY <1>1, <2>8, <3>1, <3>2, <3>3 DEF players
    <2>10. HistoryType' BY <1>1, <1>5, <2>1
    <2> QED BY <2>6, <2>8, <2>9, <2>10
  <1> QED BY <1>3, <1>4, <1>5 DEF InviteAccept

\* A core takes players out of a party, and says so or not.
LEMMA OutShape ==
    ASSUME TypeInv, NEW c \in Core, NEW who, Out(c, who), NEW s, Worked(c, s),
           leaders' = leaders, undefined' = undefined, stray' \in BOOLEAN
    PROVE  TypeInv'
  <1> USE DEF TypeInv, HistoryType
  <1>1. DaemonType' /\ NetType' BY WorkTypes
  <1>2. UNCHANGED <<players, stranded>> BY DEF Worked
  <1>3. CoreType'
    <2>1. of' \in [Core -> [Pid -> 0 .. Len(leaders)]] /\ link' \in [Pid -> 0 .. Len(leaders)]
      BY OutTypes
    <2> QED BY <1>2, <2>1 DEF CoreType, players
  <1> QED BY <1>1, <1>2, <1>3

\* What DeleteParty and Quit do.
LEMMA PartingIs ==
    ASSUME TypeInv, NEW c \in Core, NEW n \in Numbers, NEW p \in Pid, Has(c, n),
           leaders' = leaders, UNCHANGED <<daemon, players, up, stranded>>, toCore' = toCore,
           p = leaders[n] \/ p \in in[c] \/ leaders[n] \in in[c],
           DeleteParty(c, n) \/ Quit(c, n, p)
    PROVE  \E s : /\ Worked(c, s)
                  /\ \/ /\ Out(c, Members(c, n))
                        /\ s = <<Delete(n)>> \/ s = <<Delete(n), Leave(n, leaders[n])>>
                     \/ /\ p # leaders[n] /\ Out(c, {p} \cap Members(c, n)) /\ s = <<Leave(n, p)>>
  <1> USE DEF TypeInv, HistoryType, NetType
  <1>1. /\ Delete(n) \in DbPack(leaders) /\ Leave(n, p) \in DbPack(leaders)
    <2>1. Delete(n) = Packet("delete", n, leaders[n]) BY DEF Delete
    <2> QED BY <2>1, PartyPacketIs DEF Numbers
  <1>2. /\ Delete(n).op = "delete" /\ Delete(n).no = n
        /\ Leave(n, p).op = "remove" /\ Leave(n, p).no = n /\ Leave(n, p).pid = p
    BY DEF Delete, Leave, Packet
  <1>3. n # Len(leaders) + 1 BY DEF Numbers
  <1>4. ASSUME NEW s \in Seq(DbPack(leaders)), Send(c, s),
               \/ s = <<Delete(n)>>
               \/ s = <<Delete(n), Leave(n, p)>> /\ p = leaders[n]
               \/ s = <<Leave(n, p)>> /\ p # leaders[n]
        PROVE  Worked(c, s)
    <2>1. Said(c, s)
      <3>1. CASE s = <<Delete(n)>>
        <4>1. Len(s) = 1 /\ s[1] = Delete(n) /\ \A i \in 1 .. Len(s) : i = 1 BY <3>1
        <4> QED BY <1>2, <4>1 DEF Said, PartyOp
      <3>2. CASE s = <<Delete(n), Leave(n, p)>> /\ p = leaders[n]
        <4>1. /\ Len(s) = 2 /\ s[1] = Delete(n) /\ s[2] = Leave(n, p)
              /\ \A i \in 1 .. Len(s) : i = 1 \/ i = 2
          BY <3>2
        <4> QED BY <1>2, <3>2, <4>1 DEF Said, PartyOp
      <3>3. CASE s = <<Leave(n, p)>> /\ p # leaders[n]
        <4>1. Len(s) = 1 /\ s[1] = Leave(n, p) /\ \A i \in 1 .. Len(s) : i = 1 BY <3>3
        <4> QED BY <1>2, <3>3, <4>1 DEF Said, PartyOp
      <3> QED BY <1>4, <3>1, <3>2, <3>3
    <2> QED BY <1>4, <2>1 DEF Worked
  <1>5. CASE DeleteParty(c, n)
    <2>1. <<Delete(n)>> \in Seq(DbPack(leaders)) BY <1>1
    <2>2. Send(c, <<Delete(n)>>) /\ Out(c, Members(c, n)) BY <1>5 DEF DeleteParty
    <2>3. Worked(c, <<Delete(n)>>) BY <1>4, <2>1, <2>2
    <2> QED BY <2>2, <2>3
  <1>6. CASE Quit(c, n, p) /\ p # leaders[n]
    <2>1. <<Leave(n, p)>> \in Seq(DbPack(leaders)) BY <1>1
    <2>2. Send(c, <<Leave(n, p)>>) /\ Out(c, {p} \cap Members(c, n)) BY <1>6 DEF Quit
    <2>3. Worked(c, <<Leave(n, p)>>) BY <1>4, <1>6, <2>1, <2>2
    <2> QED BY <1>6, <2>2, <2>3
  <1>7. CASE Quit(c, n, p) /\ p = leaders[n]
    <2>1. <<Delete(n)>> \in Seq(DbPack(leaders)) /\ <<Delete(n), Leave(n, p)>> \in Seq(DbPack(leaders))
      BY <1>1
    <2>2. Out(c, Members(c, n)) BY <1>7 DEF Quit
    <2>3. Send(c, <<Delete(n)>>) \/ Send(c, <<Delete(n), Leave(n, p)>>) BY <1>7 DEF Quit
    <2>4. CASE Send(c, <<Delete(n)>>)
      <3>1. Worked(c, <<Delete(n)>>) BY <1>4, <2>1, <2>4
      <3> QED BY <2>2, <3>1
    <2>5. CASE Send(c, <<Delete(n), Leave(n, p)>>)
      <3>1. Worked(c, <<Delete(n), Leave(n, p)>>) BY <1>4, <1>7, <2>1, <2>5
      <3> QED BY <1>7, <2>2, <3>1
    <2> QED BY <2>3, <2>4, <2>5
  <1> QED BY <1>5, <1>6, <1>7

\* The parting of one player, or of all: what Ungroup and PartyRemove come to.
Parting(c, n, p, s) ==
    /\ n \in Numbers /\ p \in Pid /\ leaders' = leaders /\ toCore' = toCore
    /\ undefined' = undefined
    /\ \E x \in in[c] : link[x] = n
    /\ stray' = (stray \/ Add(n, p) \in ToSet(toCore[c]))
    /\ \/ /\ Out(c, Members(c, n))
          /\ s = <<Delete(n)>> \/ s = <<Delete(n), Leave(n, leaders[n])>>
       \/ /\ p # leaders[n] /\ Out(c, {p} \cap Members(c, n)) /\ s = <<Leave(n, p)>>

LEMMA UngroupShape ==
    ASSUME TypeInv, NEW c \in Core, NEW p \in Pid, Ungroup(c, p)
    PROVE  TypeInv' /\ \E s : Worked(c, s) /\ Parting(c, link[p], p, s)
  <1> USE DEF TypeInv, HistoryType, CoreType
  <1> DEFINE n == link[p]
  <1>1. /\ p \in in[c] /\ n # 0 /\ toCore' = toCore /\ UNCHANGED <<daemon, players, up, stranded>>
        /\ UNCHANGED <<leaders, undefined>>
        /\ stray' = (stray \/ Add(n, p) \in ToSet(toCore[c]))
    BY DEF Ungroup, Request
  <1>2. n \in Numbers BY <1>1 DEF Numbers
  <1>3. Has(c, n) BY <1>1 DEF Has
  <1>4. DeleteParty(c, n) \/ Quit(c, n, p) BY DEF Ungroup
  <1>5. PICK s : /\ Worked(c, s)
                 /\ \/ /\ Out(c, Members(c, n))
                       /\ s = <<Delete(n)>> \/ s = <<Delete(n), Leave(n, leaders[n])>>
                    \/ /\ p # leaders[n] /\ Out(c, {p} \cap Members(c, n)) /\ s = <<Leave(n, p)>>
    <2> HIDE DEF n
    <2> QED BY <1>1, <1>2, <1>3, <1>4, PartingIs
  <1>6. stray' \in BOOLEAN BY <1>1
  <1>7. TypeInv'
    <2> HIDE DEF n, TypeInv
    <2> QED BY <1>1, <1>5, <1>6, OutShape
  <1> QED BY <1>1, <1>2, <1>5, <1>7 DEF Parting

LEMMA PartyRemoveShape ==
    ASSUME TypeInv, NEW c \in Core, NEW p \in Pid, NEW q \in Pid, PartyRemove(c, p, q)
    PROVE  TypeInv' /\ \E s : Worked(c, s) /\ Parting(c, link[p], q, s)
  <1> USE DEF TypeInv, HistoryType, CoreType
  <1> DEFINE n == link[p]
  <1>1. /\ p \in in[c] /\ n # 0 /\ leaders[n] = p
        /\ toCore' = toCore /\ UNCHANGED <<daemon, players, up, stranded>>
        /\ UNCHANGED <<leaders, undefined>>
        /\ stray' = (stray \/ Add(n, q) \in ToSet(toCore[c]))
    BY DEF PartyRemove, Request
  <1>2. n \in Numbers BY <1>1 DEF Numbers
  <1>3. Has(c, n) BY <1>1 DEF Has
  <1>4. DeleteParty(c, n) \/ Quit(c, n, q) BY DEF PartyRemove
  <1>5. PICK s : /\ Worked(c, s)
                 /\ \/ /\ Out(c, Members(c, n))
                       /\ s = <<Delete(n)>> \/ s = <<Delete(n), Leave(n, leaders[n])>>
                    \/ /\ q # leaders[n] /\ Out(c, {q} \cap Members(c, n)) /\ s = <<Leave(n, q)>>
    <2> HIDE DEF n
    <2> QED BY <1>1, <1>2, <1>3, <1>4, PartingIs
  <1>6. stray' \in BOOLEAN BY <1>1
  <1>7. TypeInv'
    <2> HIDE DEF n, TypeInv
    <2> QED BY <1>1, <1>5, <1>6, OutShape
  <1> QED BY <1>1, <1>2, <1>5, <1>7 DEF Parting

LEMMA LevelUpShape ==
    ASSUME TypeInv, NEW c \in Core, NEW p \in Pid, LevelUp(c, p)
    PROVE  /\ TypeInv' /\ UNCHANGED <<copies, leaders, stray, undefined, toCore>>
           /\ \E s : Worked(c, s) /\ s = <<Level(link[p], p)>>
  <1> USE DEF TypeInv, HistoryType, CoreType
  <1> DEFINE n == link[p]
             s == <<Level(n, p)>>
  <1>1. /\ p \in in[c] /\ n # 0 /\ toCore' = toCore /\ UNCHANGED <<daemon, players, up, stranded>>
        /\ UNCHANGED <<copies, leaders, stray, undefined>> /\ Send(c, s)
    BY DEF LevelUp, Request
  <1>2. n \in 1 .. Len(leaders) BY <1>1
  <1>3. Level(n, p) \in DbPack(leaders') BY <1>1, <1>2, PartyPacketIs
  <1>4. s \in Seq(DbPack(leaders')) /\ Len(s) = 1 /\ s[1] = Level(n, p) /\ \A i \in 1 .. Len(s) : i = 1
    BY <1>3
  <1>5. Has(c, n) BY <1>1 DEF Has
  <1>6. Level(n, p).op = "level" /\ Level(n, p).no = n BY DEF Level, Packet
  <1> HIDE DEF s, n
  <1>7. Said(c, s) BY <1>4, <1>5, <1>6 DEF Said, PartyOp
  <1>8. Worked(c, s) BY <1>1, <1>4, <1>7 DEF Worked
  <1>9. DaemonType' /\ NetType' BY <1>1, <1>8, WorkTypes
  <1>10. CoreType' /\ HistoryType' BY <1>1 DEF copies, players
  <1> QED BY <1>1, <1>8, <1>9, <1>10 DEF s, n

\* A core reads a packet.
LEMMA ReceiveIs ==
    ASSUME TypeInv, NEW c \in Core, NEW op \in PartyOp \cup {"load"}, Receive(c, op)
    PROVE  LET m == Head(toCore[c])
           IN /\ Read(toCore, toCore', c) /\ m \in CorePack(leaders) /\ m.op = op
              /\ op \in PartyOp => m.no \in Numbers /\ m.pid \in Pid /\ leaders[m.no] \in Pid
              /\ op \in {"create", "delete"} => m.pid = leaders[m.no]
              /\ op = "load" => m.no = 0 /\ m.pid \in Pid /\ m = Load(m.pid)
              /\ UNCHANGED <<daemon, up, leaders, stranded, bounds>>
  <1> DEFINE m == Head(toCore[c])
  <1>1. toCore \in [Core -> Seq(CorePack(leaders))] /\ leaders \in Seq(Pid)
    BY DEF TypeInv, NetType, HistoryType
  <1>2. Read(toCore, toCore', c) /\ m.op = op BY DEF Receive, Read
  <1>3. m \in CorePack(leaders)
    <2> DEFINE L == CorePack(leaders)
    <2>1. toCore \in [Core -> Seq(L)] BY <1>1
    <2> HIDE DEF L
    <2>2. m \in L BY <1>2, <2>1, ReadIs
    <2> QED BY <2>2 DEF L
  <1> HIDE DEF m
  <1>4. Named(m, leaders) /\ m \in Pack BY <1>3 DEF CorePack
  <1>5. op \in PartyOp => m.no \in Numbers /\ m.pid \in Pid /\ leaders[m.no] \in Pid
    BY <1>1, <1>2, <1>4 DEF Named, Numbers
  <1>6. op \in {"create", "delete"} => m.pid = leaders[m.no] BY <1>2, <1>4 DEF Named
  <1>7. op = "load" => m.no = 0 /\ m.pid \in Pid /\ m = Load(m.pid)
    BY <1>2, <1>4 DEF Named, PartyOp, Load, Packet, Pack
  <1>8. UNCHANGED <<daemon, up, leaders, stranded, bounds>> BY DEF Receive
  <1> QED BY <1>2, <1>3, <1>5, <1>6, <1>7, <1>8 DEF m

\* A core that says nothing.
LEMMA Silent ==
    ASSUME TypeInv, NEW c \in Core, leaders' = leaders, toDb' = toDb,
           toCore' = toCore \/ (Read(toCore, toCore', c) /\ Head(toCore[c]).op # "load"),
           UNCHANGED <<daemon, players, up, stranded>>
    PROVE  Worked(c, <<>>)
  <1>1. toDb \in [Core -> Seq(DbPack(leaders'))] BY DEF TypeInv, NetType
  <1>2. <<>> \in Seq(DbPack(leaders')) /\ Send(c, <<>>) /\ Len(<<>>) = 0
    <2> DEFINE L == DbPack(leaders')
    <2>1. toDb \in [Core -> Seq(L)] BY <1>1
    <2> HIDE DEF L
    <2>2. <<>> \in Seq(L) /\ Send(c, <<>>) BY <2>1, SendNothing
    <2> QED BY <2>2 DEF L
  <1> QED BY <1>2 DEF Worked, Said

\* A core puts a player into a party, or does nothing, at a packet.
LEMMA PutShape ==
    ASSUME TypeInv, NEW c \in Core, NEW p \in Pid, NEW n \in Numbers,
           of' = of \/ of' = [of EXCEPT ![c][p] = n],
           UNCHANGED <<link, players, toDb, leaders, stranded, daemon, up>>,
           stray' \in BOOLEAN, undefined' \in BOOLEAN,
           Read(toCore, toCore', c), Head(toCore[c]).op # "load"
    PROVE  TypeInv' /\ Worked(c, <<>>)
           /\ \A d \in Core, x \in Pid : of'[d][x] = of[d][x] \/ (of'[d][x] = n /\ d = c /\ x = p)
  <1>1. Worked(c, <<>>) BY Silent
  <1>2. DaemonType' /\ NetType' BY <1>1, WorkTypes
  <1>3. of \in [Core -> [Pid -> 0 .. Len(leaders)]] /\ n \in 0 .. Len(leaders)
    BY DEF TypeInv, CoreType, HistoryType, Numbers
  <1>4. /\ of' \in [Core -> [Pid -> 0 .. Len(leaders)]]
        /\ \A d \in Core, x \in Pid : of'[d][x] = of[d][x] \/ (of'[d][x] = n /\ d = c /\ x = p)
    <2>1. CASE of' = of BY <1>3, <2>1
    <2>2. CASE of' = [of EXCEPT ![c][p] = n]
      <3>1. [of[c] EXCEPT ![p] = n] \in [Pid -> 0 .. Len(leaders)] BY <1>3
      <3>2. of' = [of EXCEPT ![c] = [of[c] EXCEPT ![p] = n]] BY <2>2
      <3> QED BY <1>3, <3>1, <3>2
    <2> QED BY <2>1, <2>2
  <1>5. CoreType' BY <1>4 DEF TypeInv, CoreType, players
  <1>6. HistoryType' BY DEF TypeInv, HistoryType
  <1> QED BY <1>1, <1>2, <1>4, <1>5, <1>6 DEF TypeInv

LEMMA P2PCreateShape ==
    ASSUME TypeInv, NEW c \in Core, P2PCreateParty(c)
    PROVE  TypeInv' /\ Worked(c, <<>>)
  <1> DEFINE m == Head(toCore[c])
  <1>1. Receive(c, "create") /\ UNCHANGED <<link, players, toDb, undefined>> BY DEF P2PCreateParty
  <1>2. /\ Read(toCore, toCore', c) /\ m.op = "create" /\ m.no \in Numbers /\ m.pid \in Pid
        /\ UNCHANGED <<daemon, up, leaders, stranded>>
    BY <1>1, ReceiveIs DEF PartyOp
  <1>3. stray' \in BOOLEAN /\ undefined' \in BOOLEAN
    BY <1>1 DEF P2PCreateParty, TypeInv, HistoryType
  <1>4. of' = of \/ of' = [of EXCEPT ![c][m.pid] = m.no] BY DEF P2PCreateParty
  <1> HIDE DEF m
  <1>5. Head(toCore[c]).op # "load" BY <1>2 DEF m
  <1> QED BY <1>1, <1>2, <1>3, <1>4, <1>5, PutShape

LEMMA P2PJoinShape ==
    ASSUME TypeInv, NEW c \in Core, P2PJoinParty(c)
    PROVE  TypeInv' /\ Worked(c, <<>>)
  <1> DEFINE m == Head(toCore[c])
             n == of[c][leaders[m.no]]
  <1>1. Receive(c, "add") /\ UNCHANGED <<link, players, toDb>> BY DEF P2PJoinParty
  <1>2. /\ Read(toCore, toCore', c) /\ m.op = "add" /\ m.no \in Numbers /\ m.pid \in Pid
        /\ leaders[m.no] \in Pid /\ UNCHANGED <<daemon, up, leaders, stranded>>
    BY <1>1, ReceiveIs DEF PartyOp
  <1>3. stray' \in BOOLEAN /\ undefined' \in BOOLEAN
    BY DEF P2PJoinParty, TypeInv, HistoryType
  <1>4. n \in 0 .. Len(leaders) BY <1>2 DEF TypeInv, CoreType
  <1>5. of' = of \/ (n # 0 /\ of' = [of EXCEPT ![c][m.pid] = n]) BY DEF P2PJoinParty
  <1> HIDE DEF m, n
  <1>6. Head(toCore[c]).op # "load" BY <1>2 DEF m
  <1>7. CASE n # 0
    <2>1. n \in Numbers BY <1>4, <1>7 DEF Numbers
    <2> QED BY <1>1, <1>2, <1>3, <1>5, <1>6, <2>1, PutShape
  <1>8. CASE n = 0
    <2>1. of' = of BY <1>5, <1>8
    <2> QED BY <1>1, <1>2, <1>3, <1>6, <2>1, PutShape
  <1> QED BY <1>7, <1>8

LEMMA SetMemberLevelShape ==
    ASSUME TypeInv, NEW c \in Core, PartySetMemberLevel(c)
    PROVE  TypeInv' /\ Worked(c, <<>>)
  <1> DEFINE m == Head(toCore[c])
             l == leaders[m.no]
  <1>1. Receive(c, "level") /\ UNCHANGED <<link, players, toDb, undefined>> BY DEF PartySetMemberLevel
  <1>2. /\ Read(toCore, toCore', c) /\ m.op = "level" /\ m.no \in Numbers /\ l \in Pid
        /\ UNCHANGED <<daemon, up, leaders, stranded>>
    BY <1>1, ReceiveIs DEF PartyOp
  <1>3. stray' \in BOOLEAN /\ undefined' \in BOOLEAN
    BY <1>1 DEF PartySetMemberLevel, TypeInv, HistoryType
  <1>4. of' = of \/ of' = [of EXCEPT ![c][l] = m.no] BY DEF PartySetMemberLevel
  <1> HIDE DEF m, l
  <1>5. Head(toCore[c]).op # "load" BY <1>2 DEF m
  <1> QED BY <1>1, <1>2, <1>3, <1>4, <1>5, PutShape

LEMMA P2PQuitShape ==
    ASSUME TypeInv, NEW c \in Core, P2PQuitParty(c)
    PROVE  TypeInv' /\ \E s : Worked(c, s)
  <1> DEFINE m == Head(toCore[c])
             n == of[c][m.pid]
  <1>1. Receive(c, "remove") /\ UNCHANGED <<players, undefined>> BY DEF P2PQuitParty
  <1>2. /\ Read(toCore, toCore', c) /\ m.op = "remove" /\ m.no \in Numbers /\ m.pid \in Pid
        /\ UNCHANGED <<daemon, up, leaders, stranded>>
    BY <1>1, ReceiveIs DEF PartyOp
  <1>3. stray' \in BOOLEAN BY DEF P2PQuitParty, TypeInv, HistoryType
  <1>4. n \in 0 .. Len(leaders) BY <1>2 DEF TypeInv, CoreType
  <1>5. CASE n # 0 /\ leaders[n] = m.pid /\ DeleteParty(c, n)
    <2>1. Out(c, Members(c, n)) /\ Send(c, <<Delete(n)>>) BY <1>5 DEF DeleteParty
    <2>2. n \in Numbers BY <1>4, <1>5 DEF Numbers
    <2>3. Delete(n) \in DbPack(leaders')
      <3>1. Delete(n) = Packet("delete", n, leaders[n]) BY DEF Delete
      <3>2. leaders \in Seq(Pid) BY DEF TypeInv, HistoryType
      <3> HIDE DEF n
      <3>3. Packet("delete", n, leaders[n]) \in DbPack(leaders)
        BY <2>2, <3>2, PartyPacketIs DEF Numbers
      <3> QED BY <1>2, <3>1, <3>3
    <2>4. Delete(n).op = "delete" /\ Delete(n).no = n BY DEF Delete, Packet
    <2>5. Has(c, n) BY <1>2 DEF Has
    <2> DEFINE s == <<Delete(n)>>
    <2>6. s \in Seq(DbPack(leaders')) /\ Len(s) = 1 /\ s[1] = Delete(n) /\ \A i \in 1 .. Len(s) : i = 1
      BY <2>3
    <2> HIDE DEF s, n
    <2>7. Said(c, s) BY <2>4, <2>5, <2>6 DEF Said, PartyOp
    <2>8. Worked(c, s) BY <1>1, <1>2, <2>1, <2>6, <2>7 DEF Worked, m, s
    <2> QED BY <1>1, <1>2, <1>3, <2>1, <2>8, OutShape
  <1>6. CASE Out(c, {m.pid}) /\ UNCHANGED toDb
    <2>1. Head(toCore[c]).op # "load" BY <1>2
    <2> HIDE DEF m
    <2>2. Worked(c, <<>>) BY <1>1, <1>2, <1>6, <2>1, Silent
    <2> QED BY <1>1, <1>2, <1>3, <1>6, <2>2, OutShape
  <1> QED BY <1>5, <1>6 DEF P2PQuitParty

LEMMA P2PDeleteShape ==
    ASSUME TypeInv, NEW c \in Core, P2PDeleteParty(c)
    PROVE  TypeInv' /\ Worked(c, <<>>)
  <1> DEFINE m == Head(toCore[c])
             n == of[c][m.pid]
  <1>1. Receive(c, "delete") /\ UNCHANGED <<players, toDb, undefined>> BY DEF P2PDeleteParty
  <1>2. /\ Read(toCore, toCore', c) /\ m.op = "delete" /\ m.no \in Numbers /\ m.pid \in Pid
        /\ UNCHANGED <<daemon, up, leaders, stranded>>
    BY <1>1, ReceiveIs DEF PartyOp
  <1>3. stray' \in BOOLEAN BY DEF P2PDeleteParty, TypeInv, HistoryType
  <1>4. Head(toCore[c]).op # "load" BY <1>2
  <1>5. Worked(c, <<>>)
    <2> HIDE DEF m
    <2> QED BY <1>1, <1>2, <1>4, Silent
  <1>6. CASE UNCHANGED copies
    <2>1. DaemonType' /\ NetType' BY <1>2, <1>5, WorkTypes
    <2>2. CoreType' BY <1>1, <1>2, <1>6 DEF copies, players, CoreType, TypeInv
    <2>3. HistoryType' BY <1>1, <1>2, <1>3 DEF HistoryType, TypeInv
    <2> QED BY <1>5, <2>1, <2>2, <2>3 DEF TypeInv
  <1>7. CASE Out(c, Members(c, n))
    <2> HIDE DEF m, n
    <2> QED BY <1>1, <1>2, <1>3, <1>5, <1>7, OutShape
  <1> QED BY <1>6, <1>7 DEF P2PDeleteParty

\* The daemon reads a packet.
LEMMA HandleIs ==
    ASSUME TypeInv, NEW c \in Core, NEW op \in PartyOp \cup {"logout", "setup"}, Handle(c, op)
    PROVE  LET m == Head(toDb[c])
           IN /\ Read(toDb, toDb', c) /\ m \in DbPack(leaders) /\ m.op = op
              /\ op \in PartyOp => /\ m.no \in Numbers /\ m.pid \in Pid /\ leaders[m.no] \in Pid
                                   /\ m \in CorePack(leaders)
              /\ op \in {"create", "delete"} => m.pid = leaders[m.no]
              /\ op = "logout" => m.no = 0 /\ m.pid \in Pid /\ m = Goodbye(m.pid)
              /\ op = "setup" => m.no = 0
              /\ UNCHANGED <<copies, players, up, leaders, undefined, stranded, bounds>>
  <1> DEFINE m == Head(toDb[c])
  <1>1. toDb \in [Core -> Seq(DbPack(leaders))] /\ leaders \in Seq(Pid)
    BY DEF TypeInv, NetType, HistoryType
  <1>2. Read(toDb, toDb', c) /\ m.op = op BY DEF Handle, Read
  <1>3. m \in DbPack(leaders)
    <2> DEFINE L == DbPack(leaders)
    <2>1. toDb \in [Core -> Seq(L)] BY <1>1
    <2> HIDE DEF L
    <2>2. m \in L BY <1>2, <2>1, ReadIs
    <2> QED BY <2>2 DEF L
  <1> HIDE DEF m
  <1>4. Named(m, leaders) /\ m \in Pack BY <1>3 DEF DbPack
  <1>5. op \in PartyOp => /\ m.no \in Numbers /\ m.pid \in Pid /\ leaders[m.no] \in Pid
                          /\ m \in CorePack(leaders)
    BY <1>1, <1>2, <1>4 DEF Named, Numbers, CorePack, PartyOp
  <1>6. op \in {"create", "delete"} => m.pid = leaders[m.no] BY <1>2, <1>4 DEF Named
  <1>7. op = "logout" => m.no = 0 /\ m.pid \in Pid /\ m = Goodbye(m.pid)
    BY <1>2, <1>4 DEF Named, PartyOp, Goodbye, Packet, Pack
  <1>8. UNCHANGED <<copies, players, up, leaders, undefined, stranded, bounds>> BY DEF Handle
  <1>9. op = "setup" => m.no = 0 BY <1>2, <1>4 DEF Named, PartyOp
  <1> QED BY <1>2, <1>3, <1>5, <1>6, <1>7, <1>8, <1>9 DEF m

LEMMA HandleTypes ==
    ASSUME TypeInv, NEW c \in Core, NEW op \in PartyOp \cup {"logout", "setup"}, Handle(c, op),
           stray' \in BOOLEAN
    PROVE  /\ CoreType' /\ HistoryType' /\ up' \in [Core -> BOOLEAN] /\ leaders' = leaders
           /\ toDb' \in [Core -> Seq(DbPack(leaders'))]
  <1> DEFINE L == DbPack(leaders)
  <1>1. Read(toDb, toDb', c) /\ UNCHANGED <<copies, players, up, leaders, undefined, stranded>>
    BY HandleIs
  <1>2. toDb \in [Core -> Seq(L)] BY DEF TypeInv, NetType
  <1>3. toDb' \in [Core -> Seq(L)]
    <2> HIDE DEF L
    <2> QED BY <1>1, <1>2, ReadIs
  <1>4. CoreType' BY <1>1 DEF TypeInv, CoreType, copies, players
  <1>5. HistoryType' BY <1>1 DEF TypeInv, HistoryType
  <1>6. up' \in [Core -> BOOLEAN] BY <1>1 DEF TypeInv, NetType
  <1> QED BY <1>1, <1>3, <1>4, <1>5, <1>6

\* What is filed is forwarded, or is not.
LEMMA FilingShape ==
    ASSUME TypeInv, NEW c \in Core, NEW op \in PartyOp, Handle(c, op), NEW to \in SUBSET peer,
           op # "level" => c \notin to,
           Forward(to, Head(toDb[c])) \/ toCore' = toCore,
           UNCHANGED <<locked, peer>>, stray' \in BOOLEAN,
           roster' \in [Pid -> [no : Nat, members : SUBSET Pid]], RosterInv'
    PROVE  TypeInv' /\ Filing(c, to)
  <1> DEFINE m == Head(toDb[c])
             L == CorePack(leaders)
  <1>1. /\ Read(toDb, toDb', c) /\ m.op = op /\ m \in L
        /\ UNCHANGED <<copies, players, up, leaders, stranded>>
    BY HandleIs
  <1>2. /\ CoreType' /\ HistoryType' /\ up' \in [Core -> BOOLEAN] /\ leaders' = leaders
        /\ toDb' \in [Core -> Seq(DbPack(leaders'))]
    BY HandleTypes
  <1>3. toCore \in [Core -> Seq(L)] BY DEF TypeInv, NetType
  <1>4. toCore' \in [Core -> Seq(L)]
    <2> HIDE DEF L, m
    <2>1. CASE Forward(to, m) BY <1>1, <1>3, <2>1, ForwardIs
    <2> QED BY <1>3, <2>1 DEF m
  <1>5. NetType' BY <1>2, <1>4 DEF NetType
  <1>6. DaemonType' BY DEF DaemonType, TypeInv
  <1>7. Filing(c, to) BY <1>1 DEF Filing
  <1> QED BY <1>2, <1>5, <1>6, <1>7 DEF TypeInv

LEMMA FiledTypes ==
    ASSUME TypeInv, leaders' = leaders, NEW l \in Pid, NEW r,
           r \in [no : Nat, members : SUBSET Pid],
           r.no = 0 => r.members = {}, r.no # 0 => r.no \in Numbers /\ leaders[r.no] = l,
           roster' = [roster EXCEPT ![l] = r]
    PROVE  /\ roster' \in [Pid -> [no : Nat, members : SUBSET Pid]] /\ RosterInv'
           /\ \A x \in Pid : roster'[x] = IF x = l THEN r ELSE roster[x]
  <1>1. /\ roster \in [Pid -> [no : Nat, members : SUBSET Pid]]
        /\ \A p \in Pid : /\ roster[p].no = 0 => roster[p].members = {}
                          /\ roster[p].no # 0 => roster[p].no \in Numbers /\ leaders[roster[p].no] = p
    BY DEF TypeInv, DaemonType, RosterInv
  <1>2. Numbers' = Numbers BY DEF Numbers
  <1>3. /\ roster' \in [Pid -> [no : Nat, members : SUBSET Pid]]
        /\ \A x \in Pid : roster'[x] = IF x = l THEN r ELSE roster[x]
    BY <1>1
  <1>4. ASSUME NEW p \in Pid
        PROVE  /\ roster'[p].no = 0 => roster'[p].members = {}
               /\ roster'[p].no # 0 => roster'[p].no \in Numbers' /\ leaders'[roster'[p].no] = p
    BY <1>1, <1>2, <1>3
  <1> QED BY <1>3, <1>4 DEF RosterInv

\* What Apply does.
LEMMA ApplyShape ==
    ASSUME TypeInv, NEW c \in Core, NEW op \in PartyOp, Handle(c, op), NEW to \in SUBSET peer,
           op # "level" => c \notin to, NEW found \in BOOLEAN, NEW r,
           Apply(c, found, r, to),
           LET o == roster[leaders[Head(toDb[c]).no]]
           IN found => \/ r = NoParty
                       \/ o.no # 0 /\ r.no = o.no /\ r \in [no : Nat, members : SUBSET Pid]
    PROVE  TypeInv' /\ Filing(c, to) /\ (stray => stray')
  <1> DEFINE m == Head(toDb[c])
             l == leaders[m.no]
  <1>1. m.no \in Numbers /\ l \in Pid /\ leaders' = leaders BY HandleIs
  <1>2. stray' \in BOOLEAN /\ (stray => stray') /\ UNCHANGED <<locked, peer>>
    BY DEF Apply, TypeInv, HistoryType
  <1>3. CASE found
    <2>1. roster' = [roster EXCEPT ![l] = r] /\ Forward(to, m) BY <1>3 DEF Apply
    <2>2. roster[l].no # 0 => roster[l].no \in Numbers /\ leaders[roster[l].no] = l
      BY <1>1 DEF TypeInv, DaemonType, RosterInv
    <2>3. /\ r \in [no : Nat, members : SUBSET Pid] /\ (r.no = 0 => r.members = {})
          /\ r.no # 0 => r.no \in Numbers /\ leaders[r.no] = l
      <3>1. CASE r = NoParty BY <3>1 DEF NoParty
      <3>2. CASE r # NoParty BY <1>3, <2>2, <3>2
      <3> QED BY <3>1, <3>2
    <2> HIDE DEF m, l
    <2>4. roster' \in [Pid -> [no : Nat, members : SUBSET Pid]] /\ RosterInv'
      BY <1>1, <2>1, <2>3, FiledTypes
    <2>5. Forward(to, Head(toDb[c])) BY <2>1 DEF m
    <2> QED BY <1>2, <2>4, <2>5, FilingShape
  <1>4. CASE ~found
    <2>1. UNCHANGED <<roster, toCore>> BY <1>4 DEF Apply
    <2>2. roster' \in [Pid -> [no : Nat, members : SUBSET Pid]] /\ RosterInv'
      <3>1. Numbers' = Numbers BY <1>1 DEF Numbers
      <3> QED BY <1>1, <2>1, <3>1 DEF TypeInv, DaemonType, RosterInv
    <2> QED BY <1>2, <2>1, <2>2, FilingShape
  <1> QED BY <1>3, <1>4

LEMMA FiledShape ==
    ASSUME TypeInv, NEW c \in Core,
           \/ QUERY_PARTY_CREATE(c) \/ QUERY_PARTY_DELETE(c) \/ QUERY_PARTY_ADD(c)
           \/ QUERY_PARTY_REMOVE(c) \/ QUERY_PARTY_SET_MEMBER_LEVEL(c)
    PROVE  TypeInv' /\ (\E to : Filing(c, to)) /\ (stray => stray')
  <1> DEFINE m == Head(toDb[c])
             l == leaders[m.no]
             r == roster[l]
  <1>0. Others(c) \in SUBSET peer /\ c \notin Others(c) /\ peer \in SUBSET peer BY DEF Others
  <1>1. roster \in [Pid -> [no : Nat, members : SUBSET Pid]] BY DEF TypeInv, DaemonType
  <1>2. CASE QUERY_PARTY_CREATE(c)
    <2>1. Handle(c, "create") /\ UNCHANGED <<locked, peer>> BY <1>2 DEF QUERY_PARTY_CREATE
    <2>2. m.no \in Numbers /\ l \in Pid /\ leaders' = leaders BY <2>1, HandleIs DEF PartyOp
    <2>3. CASE r.no # 0
      <3>1. stray' = TRUE /\ UNCHANGED <<roster, toCore>> BY <1>2, <2>3 DEF QUERY_PARTY_CREATE
      <3>2. Numbers' = Numbers BY <2>2 DEF Numbers
      <3>3. roster' \in [Pid -> [no : Nat, members : SUBSET Pid]] /\ RosterInv'
        BY <2>2, <3>1, <3>2 DEF TypeInv, DaemonType, RosterInv
      <3> QED BY <1>0, <2>1, <3>1, <3>3, FilingShape DEF PartyOp
    <2>4. CASE r.no = 0
      <3> DEFINE n == [no |-> m.no, members |-> {}]
      <3>1. roster' = [roster EXCEPT ![l] = n] /\ Forward(Others(c), m) /\ UNCHANGED stray
        BY <1>2, <2>4 DEF QUERY_PARTY_CREATE
      <3>2. /\ n \in [no : Nat, members : SUBSET Pid] /\ n.members = {}
            /\ n.no \in Numbers /\ leaders[n.no] = l
        BY <2>2 DEF Numbers
      <3>3. roster' \in [Pid -> [no : Nat, members : SUBSET Pid]] /\ RosterInv'
        <4> HIDE DEF n, l, m, r
        <4> QED BY <2>2, <3>1, <3>2, FiledTypes
      <3>4. stray' \in BOOLEAN /\ (stray => stray') BY <3>1 DEF TypeInv, HistoryType
      <3>5. Forward(Others(c), Head(toDb[c])) BY <3>1
      <3> HIDE DEF n, m, l, r
      <3> QED BY <1>0, <2>1, <3>3, <3>4, <3>5, FilingShape DEF PartyOp
    <2> QED BY <2>3, <2>4
  <1>3. CASE QUERY_PARTY_DELETE(c)
    <2>1. Handle(c, "delete") /\ Apply(c, r.no # 0, NoParty, Others(c)) BY <1>3 DEF QUERY_PARTY_DELETE
    <2> HIDE DEF r
    <2>2. (r.no # 0) \in BOOLEAN OBVIOUS
    <2> QED BY <1>0, <2>1, <2>2, ApplyShape DEF PartyOp
  <1>4. CASE QUERY_PARTY_ADD(c)
    <2> DEFINE f == r.no # 0 /\ m.pid \notin r.members
               n == [r EXCEPT !.members = @ \cup {m.pid}]
    <2>1. Handle(c, "add") /\ Apply(c, f, n, Others(c)) BY <1>4 DEF QUERY_PARTY_ADD
    <2>2. l \in Pid /\ m.pid \in Pid BY <2>1, HandleIs DEF PartyOp
    <2>3. f => r.no # 0 /\ n.no = r.no /\ n \in [no : Nat, members : SUBSET Pid]
      <3>1. r \in [no : Nat, members : SUBSET Pid] BY <1>1, <2>2
      <3> HIDE DEF r, m
      <3> QED BY <2>2, <3>1
    <2>4. f \in BOOLEAN OBVIOUS
    <2> HIDE DEF f, n
    <2>5. LET o == roster[leaders[Head(toDb[c]).no]]
          IN f => o.no # 0 /\ n.no = o.no /\ n \in [no : Nat, members : SUBSET Pid]
      BY <2>3
    <2> HIDE DEF r, l, m
    <2> QED BY <1>0, <2>1, <2>4, <2>5, ApplyShape DEF PartyOp
  <1>5. CASE QUERY_PARTY_REMOVE(c)
    <2> DEFINE f == m.pid \in r.members
               n == [r EXCEPT !.members = @ \ {m.pid}]
    <2>1. Handle(c, "remove") /\ Apply(c, f, n, Others(c)) BY <1>5 DEF QUERY_PARTY_REMOVE
    <2>2. l \in Pid /\ m.pid \in Pid BY <2>1, HandleIs DEF PartyOp
    <2>3. f => r.no # 0 /\ n.no = r.no /\ n \in [no : Nat, members : SUBSET Pid]
      <3>1. r \in [no : Nat, members : SUBSET Pid] BY <1>1, <2>2
      <3>2. r.no = 0 => r.members = {} BY <2>2 DEF TypeInv, DaemonType, RosterInv
      <3> HIDE DEF r, m
      <3> QED BY <2>2, <3>1, <3>2
    <2>4. f \in BOOLEAN OBVIOUS
    <2> HIDE DEF f, n
    <2>5. LET o == roster[leaders[Head(toDb[c]).no]]
          IN f => o.no # 0 /\ n.no = o.no /\ n \in [no : Nat, members : SUBSET Pid]
      BY <2>3
    <2> HIDE DEF r, l, m
    <2> QED BY <1>0, <2>1, <2>4, <2>5, ApplyShape DEF PartyOp
  <1>6. CASE QUERY_PARTY_SET_MEMBER_LEVEL(c)
    <2> DEFINE f == m.pid \in r.members
    <2>1. Handle(c, "level") /\ Apply(c, f, r, peer) BY <1>6 DEF QUERY_PARTY_SET_MEMBER_LEVEL
    <2>2. l \in Pid BY <2>1, HandleIs DEF PartyOp
    <2>3. f => r.no # 0 /\ r \in [no : Nat, members : SUBSET Pid]
      <3>1. r \in [no : Nat, members : SUBSET Pid] BY <1>1, <2>2
      <3>2. r.no = 0 => r.members = {} BY <2>2 DEF TypeInv, DaemonType, RosterInv
      <3> HIDE DEF r, m
      <3> QED BY <3>1, <3>2
    <2>4. f \in BOOLEAN OBVIOUS
    <2> HIDE DEF f
    <2>5. LET o == roster[leaders[Head(toDb[c]).no]]
          IN f => o.no # 0 /\ r.no = o.no /\ r \in [no : Nat, members : SUBSET Pid]
      BY <2>3
    <2> HIDE DEF r, l, m
    <2> QED BY <1>0, <2>1, <2>4, <2>5, ApplyShape DEF PartyOp
  <1> QED BY <1>2, <1>3, <1>4, <1>5, <1>6

LEMMA SetupShape ==
    ASSUME TypeInv, NEW c \in Core, QUERY_SETUP(c)
    PROVE  /\ TypeInv' /\ stray' = stray
           /\ \E id \in Bijection(Pid, 1 .. Cardinality(Pid)) :
                 /\ toCore'[c] = toCore[c] \o Snapshot(id)
                 /\ \A d \in Core : d # c => toCore'[d] = toCore[d]
  <1> DEFINE L == CorePack(leaders)
  <1>1. /\ Handle(c, "setup") /\ peer' = peer \cup {c} /\ UNCHANGED <<roster, locked, stray>>
    BY DEF QUERY_SETUP
  <1>2. PICK id \in Bijection(Pid, 1 .. Cardinality(Pid)) :
           toCore' = [toCore EXCEPT ![c] = @ \o Snapshot(id)]
    BY DEF QUERY_SETUP
  <1>3. stray' \in BOOLEAN BY <1>1 DEF TypeInv, HistoryType
  <1>4. /\ CoreType' /\ HistoryType' /\ up' \in [Core -> BOOLEAN] /\ leaders' = leaders
        /\ toDb' \in [Core -> Seq(DbPack(leaders'))]
    BY <1>1, <1>3, HandleTypes
  <1>5. toCore \in [Core -> Seq(L)] BY DEF TypeInv, NetType
  <1>6. Snapshot(id) \in Seq(L) BY SnapshotIs
  <1>7. /\ toCore' \in [Core -> Seq(L)] /\ toCore'[c] = toCore[c] \o Snapshot(id)
        /\ \A d \in Core : d # c => toCore'[d] = toCore[d]
    <2> HIDE DEF L
    <2>1. toCore[c] \o Snapshot(id) \in Seq(L) BY <1>5, <1>6, ConcatIs
    <2> QED BY <1>2, <1>5, <2>1
  <1>8. NetType' BY <1>4, <1>7 DEF NetType
  <1>9. Numbers' = Numbers BY <1>4 DEF Numbers
  <1>10. DaemonType' BY <1>1, <1>4, <1>9 DEF DaemonType, TypeInv, RosterInv
  <1> QED BY <1>1, <1>4, <1>7, <1>8, <1>10 DEF TypeInv

LEMMA LoggedOutTypes ==
    ASSUME TypeInv, NEW c \in Core, QUERY_LOGOUT(c)
    PROVE  TypeInv'
  <1>1. Handle(c, "logout") /\ UNCHANGED <<roster, peer, toCore, stray>> BY DEF QUERY_LOGOUT
  <1>2. locked' \in SUBSET Pid BY DEF QUERY_LOGOUT, TypeInv, DaemonType
  <1>3. stray' \in BOOLEAN BY <1>1 DEF TypeInv, HistoryType
  <1>4. /\ CoreType' /\ HistoryType' /\ up' \in [Core -> BOOLEAN] /\ leaders' = leaders
        /\ toDb' \in [Core -> Seq(DbPack(leaders'))]
    BY <1>1, <1>3, HandleTypes
  <1>5. NetType' BY <1>1, <1>4 DEF NetType, TypeInv
  <1>6. Numbers' = Numbers BY <1>4 DEF Numbers
  <1>7. DaemonType' BY <1>1, <1>2, <1>4, <1>6 DEF DaemonType, TypeInv, RosterInv
  <1> QED BY <1>4, <1>5, <1>7 DEF TypeInv

LEMMA PlayerLoadTypes ==
    ASSUME TypeInv, NEW c \in Core, PlayerLoad(c)
    PROVE  TypeInv'
  <1> DEFINE m == Head(toCore[c])
             L == CorePack(leaders)
  <1>1. Receive(c, "load") /\ UNCHANGED <<in, copies, toDb, stray, undefined>> BY DEF PlayerLoad
  <1>2. Read(toCore, toCore', c) /\ m.pid \in Pid /\ UNCHANGED <<daemon, up, leaders, stranded>>
    BY <1>1, ReceiveIs
  <1>3. toCore \in [Core -> Seq(L)] BY DEF TypeInv, NetType
  <1>4. toCore' \in [Core -> Seq(L)]
    <2> HIDE DEF L
    <2> QED BY <1>2, <1>3, ReadIs
  <1>5. NetType' BY <1>1, <1>2, <1>4 DEF NetType, TypeInv
  <1>6. loading' = [loading EXCEPT ![c] = @ \cup {m.pid}] BY DEF PlayerLoad
  <1>7. loading \in [Core -> SUBSET Pid] BY DEF TypeInv, CoreType
  <1>8. loading' \in [Core -> SUBSET Pid]
    <2> HIDE DEF m
    <2> QED BY <1>2, <1>6, <1>7
  <1>9. CoreType' BY <1>1, <1>2, <1>8 DEF CoreType, TypeInv, copies
  <1>10. Numbers' = Numbers BY <1>2 DEF Numbers
  <1>11. DaemonType' BY <1>2, <1>10 DEF DaemonType, TypeInv, RosterInv, daemon
  <1>12. HistoryType' BY <1>1, <1>2 DEF HistoryType, TypeInv
  <1> QED BY <1>5, <1>9, <1>11, <1>12 DEF TypeInv

LEMMA LoginTypes ==
    ASSUME TypeInv, NEW c \in Core, NEW p \in Pid, Login(c, p)
    PROVE  TypeInv' /\ Load(p) \in CorePack(leaders)
  <1> DEFINE L == CorePack(leaders)
  <1>1. /\ Forward({c}, Load(p)) /\ locked' = locked \cup {p}
        /\ UNCHANGED <<roster, peer, copies, players, up, toDb, history>>
    BY DEF Login, Load
  <1>2. Load(p) \in L BY DEF Load, Packet, CorePack, Pack, Named, PartyOp
  <1>3. toCore \in [Core -> Seq(L)] BY DEF TypeInv, NetType
  <1>4. toCore' \in [Core -> Seq(L)]
    <2> HIDE DEF L
    <2> QED BY <1>1, <1>2, <1>3, ForwardIs
  <1>5. NetType' BY <1>1, <1>4 DEF NetType, TypeInv, history
  <1>6. CoreType' BY <1>1 DEF CoreType, TypeInv, copies, players, history
  <1>7. Numbers' = Numbers BY <1>1 DEF Numbers, history
  <1>8. DaemonType' BY <1>1, <1>7 DEF DaemonType, TypeInv, RosterInv, history
  <1>9. HistoryType' BY <1>1 DEF HistoryType, TypeInv, history
  <1> QED BY <1>2, <1>5, <1>6, <1>8, <1>9 DEF TypeInv

\* ENTERGAME may tell the level of a member.
LEMMA EnterGameShape ==
    ASSUME TypeInv, NEW c \in Core, NEW p \in Pid, EnterGame(c, p)
    PROVE  /\ TypeInv' /\ UNCHANGED <<daemon, of, up, toCore, history>>
           /\ \E s \in Seq(DbPack(leaders)) :
                 /\ Send(c, s)
                 /\ \A i \in 1 .. Len(s) : s[i].op = "level" /\ s[i].no = of[c][p]
  <1> DEFINE L == DbPack(leaders)
             n == of[c][p]
             s == IF n = 0 THEN <<>> ELSE <<Level(n, p)>>
  <1>1. /\ loading' = [loading EXCEPT ![c] = @ \ {p}] /\ in' = [in EXCEPT ![c] = @ \cup {p}]
        /\ link' = [link EXCEPT ![p] = n] /\ Send(c, s)
        /\ UNCHANGED <<daemon, of, up, toCore, history>>
    BY DEF EnterGame
  <1>2. n \in 0 .. Len(leaders) BY DEF TypeInv, CoreType
  <1>3. s \in Seq(L) /\ \A i \in 1 .. Len(s) : s[i].op = "level" /\ s[i].no = n
    <2>1. CASE n = 0 BY <2>1
    <2>2. CASE n # 0
      <3>1. n \in 1 .. Len(leaders) /\ leaders \in Seq(Pid) BY <1>2, <2>2 DEF TypeInv, HistoryType
      <3> HIDE DEF n
      <3>2. Level(n, p) \in L BY <3>1, PartyPacketIs
      <3>3. Level(n, p).op = "level" /\ Level(n, p).no = n BY DEF Level, Packet
      <3>4. s = <<Level(n, p)>> BY <2>2
      <3> HIDE DEF L
      <3> QED BY <3>2, <3>3, <3>4
    <2> QED BY <2>1, <2>2
  <1>4. toDb \in [Core -> Seq(L)] BY DEF TypeInv, NetType
  <1>5. toDb' \in [Core -> Seq(L)]
    <2> HIDE DEF L, s
    <2> QED BY <1>1, <1>3, <1>4, SendIs
  <1>6. NetType' BY <1>1, <1>5 DEF NetType, TypeInv, history
  <1>7. CoreType'
    <2> HIDE DEF n
    <2> QED BY <1>1, <1>2 DEF CoreType, TypeInv, history
  <1>8. Numbers' = Numbers BY <1>1 DEF Numbers, history
  <1>9. DaemonType' BY <1>1, <1>8 DEF DaemonType, TypeInv, RosterInv, history, daemon
  <1>10. HistoryType' BY <1>1 DEF HistoryType, TypeInv, history
  <1>11. TypeInv' BY <1>6, <1>7, <1>9, <1>10 DEF TypeInv
  <1> HIDE DEF s
  <1> QED BY <1>1, <1>3, <1>11

LEMMA LogoutTypes ==
    ASSUME TypeInv, NEW c \in Core, NEW p \in Pid, Logout(c, p)
    PROVE  TypeInv' /\ Send(c, <<Goodbye(p)>>) /\ <<Goodbye(p)>> \in Seq(DbPack(leaders))
  <1> DEFINE L == DbPack(leaders)
  <1>1. /\ loading' = [loading EXCEPT ![c] = @ \ {p}] /\ in' = [in EXCEPT ![c] = @ \ {p}]
        /\ link' = [link EXCEPT ![p] = 0] /\ Send(c, <<Goodbye(p)>>)
        /\ locked' = IF up[c] THEN locked ELSE locked \ {p}
        /\ stranded' = stranded \ {p}
        /\ UNCHANGED <<roster, peer, of, up, toCore, leaders, stray, undefined>>
    BY DEF Logout, Goodbye
  <1>2. Goodbye(p) \in L BY DEF Goodbye, Packet, DbPack, Pack, Named, PartyOp
  <1>3. toDb \in [Core -> Seq(L)] BY DEF TypeInv, NetType
  <1>4. toDb' \in [Core -> Seq(L)] /\ <<Goodbye(p)>> \in Seq(L)
    <2> HIDE DEF L
    <2>1. <<Goodbye(p)>> \in Seq(L) BY <1>2
    <2> QED BY <1>1, <1>3, <2>1, SendIs
  <1>5. NetType' BY <1>1, <1>4 DEF NetType, TypeInv
  <1>6. CoreType' BY <1>1 DEF CoreType, TypeInv, HistoryType
  <1>7. Numbers' = Numbers BY <1>1 DEF Numbers
  <1>8. DaemonType' BY <1>1, <1>7 DEF DaemonType, TypeInv, RosterInv
  <1>9. HistoryType' BY <1>1 DEF HistoryType, TypeInv
  <1> QED BY <1>1, <1>4, <1>5, <1>6, <1>8, <1>9 DEF TypeInv

LEMMA CutIs ==
    ASSUME TypeInv, NEW cores \in SUBSET Core, Cut(cores),
           players' \in [Core -> SUBSET Pid] \X [Core -> SUBSET Pid],
           locked' \in SUBSET Pid, stranded' \in SUBSET Pid,
           roster' = roster \/ roster' = [p \in Pid |-> NoParty]
    PROVE  /\ TypeInv' /\ UNCHANGED <<leaders, stray, undefined>> /\ peer' = peer \ cores
           /\ \A c \in Core : /\ c \in cores => /\ ~up'[c] /\ toDb'[c] = <<>> /\ toCore'[c] = <<>>
                                                /\ \A p \in Pid : of'[c][p] = 0
                              /\ c \notin cores => /\ up'[c] = up[c] /\ toDb'[c] = toDb[c]
                                                   /\ toCore'[c] = toCore[c] /\ of'[c] = of[c]
           /\ \A p \in Pid : link'[p] = IF \E c \in cores : p \in in[c] THEN 0 ELSE link[p]
  <1>1. /\ up' = [c \in Core |-> up[c] /\ c \notin cores]
        /\ peer' = peer \ cores
        /\ toDb' = [c \in Core |-> IF c \in cores THEN <<>> ELSE toDb[c]]
        /\ toCore' = [c \in Core |-> IF c \in cores THEN <<>> ELSE toCore[c]]
        /\ of' = [c \in Core |-> IF c \in cores THEN [p \in Pid |-> 0] ELSE of[c]]
        /\ link' = [p \in Pid |-> IF \E c \in cores : p \in in[c] THEN 0 ELSE link[p]]
        /\ UNCHANGED <<leaders, stray, undefined>>
    BY DEF Cut
  <1>2. NetType'
    <2> DEFINE L == DbPack(leaders)
               K == CorePack(leaders)
    <2>1. toDb \in [Core -> Seq(L)] /\ toCore \in [Core -> Seq(K)] /\ up \in [Core -> BOOLEAN]
      BY DEF TypeInv, NetType
    <2>2. toDb' \in [Core -> Seq(L)] /\ toCore' \in [Core -> Seq(K)]
      <3> HIDE DEF L, K
      <3> QED BY <1>1, <2>1
    <2>3. up' \in [Core -> BOOLEAN] BY <1>1
    <2> QED BY <1>1, <2>2, <2>3 DEF NetType
  <1>3. of' \in [Core -> [Pid -> 0 .. Len(leaders)]] /\ link' \in [Pid -> 0 .. Len(leaders)]
    <2>1. Len(leaders) \in Nat BY DEF TypeInv, HistoryType
    <2> QED BY <1>1, <2>1 DEF TypeInv, CoreType
  <1>4. CoreType' BY <1>1, <1>3 DEF CoreType, players
  <1>5. Numbers' = Numbers BY <1>1 DEF Numbers
  <1>6. roster' \in [Pid -> [no : Nat, members : SUBSET Pid]] /\ RosterInv'
    BY <1>1, <1>5 DEF TypeInv, DaemonType, RosterInv, NoParty
  <1>7. DaemonType' BY <1>1, <1>6 DEF DaemonType, TypeInv
  <1>8. HistoryType' BY <1>1 DEF HistoryType, TypeInv
  <1>9. \A c \in Core : /\ c \in cores => /\ ~up'[c] /\ toDb'[c] = <<>> /\ toCore'[c] = <<>>
                                          /\ \A p \in Pid : of'[c][p] = 0
                        /\ c \notin cores => /\ up'[c] = up[c] /\ toDb'[c] = toDb[c]
                                             /\ toCore'[c] = toCore[c] /\ of'[c] = of[c]
    BY <1>1 DEF TypeInv, NetType
  <1> QED BY <1>1, <1>2, <1>4, <1>7, <1>8, <1>9 DEF TypeInv

\* What the three faults have in common.
Fault(cores) ==
    /\ cores \in SUBSET Core /\ Cut(cores)
    /\ players' \in [Core -> SUBSET Pid] \X [Core -> SUBSET Pid]
    /\ locked' \in SUBSET Pid /\ stranded' \in SUBSET Pid
    /\ roster' = roster \/ roster' = [p \in Pid |-> NoParty]

LEMMA FaultShape ==
    ASSUME TypeInv
    PROVE  /\ \A c \in Core : /\ LinkDrops(c) => Fault({c}) /\ roster' = roster
                              /\ CoreCrash(c) => Fault({c}) /\ roster' = roster
           /\ DaemonRestart => Fault(Core)
  <1> USE DEF TypeInv, CoreType, DaemonType, HistoryType, Fault
  <1>1. \A c \in Core : LinkDrops(c) => Fault({c}) /\ roster' = roster BY DEF LinkDrops, players
  <1>2. \A c \in Core : CoreCrash(c) => Fault({c}) /\ roster' = roster BY DEF CoreCrash, players
  <1>3. DaemonRestart => Fault(Core)
    <2> SUFFICES ASSUME DaemonRestart PROVE Fault(Core) OBVIOUS
    <2>1. Cut(Core) /\ UNCHANGED players /\ roster' = [p \in Pid |-> NoParty] BY DEF DaemonRestart
    <2>2. locked' \in SUBSET Pid BY DEF DaemonRestart
    <2>3. stranded' \in SUBSET Pid BY DEF DaemonRestart
    <2> QED BY <2>1, <2>2, <2>3 DEF players
  <1> QED BY <1>1, <1>2, <1>3

LEMMA ReconnectTypes ==
    ASSUME TypeInv, NEW c \in Core, Reconnect(c)
    PROVE  /\ TypeInv' /\ ~up[c] /\ up' = [up EXCEPT ![c] = TRUE]
           /\ UNCHANGED <<daemon, copies, players, toCore, history>>
           /\ toDb'[c] = <<Packet("setup", 0, c)>>
           /\ \A d \in Core : d # c => toDb'[d] = toDb[d]
  <1> DEFINE L == DbPack(leaders)
             m == Packet("setup", 0, c)
  <1>1. /\ ~up[c] /\ up' = [up EXCEPT ![c] = TRUE] /\ toDb' = [toDb EXCEPT ![c] = <<m>>]
        /\ UNCHANGED <<daemon, copies, players, toCore, history>>
    BY DEF Reconnect
  <1>2. m \in L BY DEF Packet, DbPack, Pack, Named, PartyOp
  <1>3. toDb \in [Core -> Seq(L)] /\ up \in [Core -> BOOLEAN] BY DEF TypeInv, NetType
  <1>4. toDb' \in [Core -> Seq(L)] /\ toDb'[c] = <<m>> /\ \A d \in Core : d # c => toDb'[d] = toDb[d]
    <2> HIDE DEF L, m
    <2>1. <<m>> \in Seq(L) BY <1>2
    <2> QED BY <1>1, <1>3, <2>1
  <1>5. up' \in [Core -> BOOLEAN] BY <1>1, <1>3
  <1>6. NetType' BY <1>1, <1>4, <1>5 DEF NetType, TypeInv, history
  <1>7. CoreType' BY <1>1 DEF CoreType, TypeInv, copies, players, history
  <1>8. Numbers' = Numbers BY <1>1 DEF Numbers, history
  <1>9. DaemonType' BY <1>1, <1>8 DEF DaemonType, TypeInv, RosterInv, history, daemon
  <1>10. HistoryType' BY <1>1 DEF HistoryType, TypeInv, history
  <1> QED BY <1>1, <1>4, <1>6, <1>7, <1>9, <1>10 DEF TypeInv

LEMMA TypeInit == Init => TypeInv
  <1> SUFFICES ASSUME Init PROVE TypeInv OBVIOUS
  <1>1. PICK core \in [Pid -> Core] : in = [c \in Core |-> {p \in Pid : core[p] = c}] BY DEF Init
  <1>2. leaders = <<>> /\ Len(leaders) = 0 /\ leaders \in Seq(Pid) BY DEF Init
  <1>3. HistoryType BY <1>2 DEF Init, HistoryType
  <1>4. DaemonType BY DEF Init, DaemonType, RosterInv, NoParty
  <1>5. CoreType BY <1>1, <1>2 DEF Init, CoreType
  <1>6. NetType
    <2> DEFINE L == DbPack(leaders)
               K == CorePack(leaders)
    <2>1. <<>> \in Seq(L) /\ <<>> \in Seq(K)
      <3> HIDE DEF L, K
      <3> QED OBVIOUS
    <2>2. toDb = [c \in Core |-> <<>>] /\ toCore = [c \in Core |-> <<>>] BY DEF Init
    <2>3. toDb \in [Core -> Seq(L)] /\ toCore \in [Core -> Seq(K)]
      <3> HIDE DEF L, K
      <3> QED BY <2>1, <2>2
    <2> QED BY <2>3 DEF Init, NetType
  <1> QED BY <1>3, <1>4, <1>5, <1>6 DEF TypeInv

\* Every step is one of these, as far as players and packets go.
Kinds ==
    \/ \E c \in Core : \E s : Worked(c, s)
    \/ \E c \in Core : \E to : Filing(c, to)
    \/ \E c \in Core : \/ QUERY_LOGOUT(c) \/ QUERY_SETUP(c) \/ PlayerLoad(c) \/ Reconnect(c)
                       \/ LinkDrops(c) \/ CoreCrash(c)
    \/ \E c \in Core, p \in Pid : Login(c, p) \/ EnterGame(c, p) \/ Logout(c, p)
    \/ DaemonRestart
    \/ UNCHANGED vars

LEMMA FaultTypes ==
    ASSUME TypeInv, NEW cores, Fault(cores)
    PROVE  TypeInv' /\ UNCHANGED <<leaders, stray, undefined>>
  BY CutIs DEF Fault

LEMMA TypeNext ==
    ASSUME TypeInv, [Next]_vars
    PROVE  TypeInv' /\ Kinds /\ (stray => stray')
  <1>1. CASE UNCHANGED vars
    <2>1. UNCHANGED <<daemon, copies, players, net, history>> BY <1>1 DEF vars
    <2>2. TypeInv'
      <3> USE <2>1 DEF TypeInv, daemon, copies, players, net, history
      <3>1. Numbers' = Numbers BY DEF Numbers
      <3>2. DaemonType' BY <3>1 DEF DaemonType, RosterInv
      <3>3. CoreType' BY DEF CoreType
      <3>4. NetType' BY DEF NetType
      <3>5. HistoryType' BY DEF HistoryType
      <3> QED BY <3>2, <3>3, <3>4, <3>5
    <2> QED BY <1>1, <2>1, <2>2 DEF Kinds, history
  <1>2. CASE DaemonRestart BY <1>2, FaultShape, FaultTypes DEF Kinds
  <1>3. ASSUME NEW c \in Core, NEW p \in Pid, NEW q \in Pid, InviteAccept(c, p, q)
        PROVE  TypeInv' /\ Kinds /\ (stray => stray')
    <2>1. stray => stray' BY <1>3 DEF InviteAccept, Undefined
    <2> QED BY <1>3, <2>1, InviteShape DEF Kinds
  <1>4. ASSUME NEW c \in Core, NEW p \in Pid, NEW q \in Pid, PartyRemove(c, p, q)
        PROVE  TypeInv' /\ Kinds /\ (stray => stray')
    <2>1. stray => stray' BY <1>4 DEF PartyRemove
    <2> QED BY <1>4, <2>1, PartyRemoveShape DEF Kinds
  <1>5. ASSUME NEW c \in Core, NEW p \in Pid,
               \/ Ungroup(c, p) \/ LevelUp(c, p) \/ Login(c, p) \/ EnterGame(c, p) \/ Logout(c, p)
        PROVE  TypeInv' /\ Kinds /\ (stray => stray')
    <2>1. CASE Ungroup(c, p)
      <3>1. stray => stray' BY <2>1 DEF Ungroup
      <3> QED BY <2>1, <3>1, UngroupShape DEF Kinds
    <2>2. CASE LevelUp(c, p) BY <2>2, LevelUpShape DEF Kinds
    <2>3. CASE Login(c, p)
      <3>1. stray' = stray BY <2>3 DEF Login, history
      <3> QED BY <2>3, <3>1, LoginTypes DEF Kinds
    <2>4. CASE EnterGame(c, p)
      <3>1. stray' = stray BY <2>4 DEF EnterGame, history
      <3> QED BY <2>4, <3>1, EnterGameShape DEF Kinds
    <2>5. CASE Logout(c, p)
      <3>1. stray' = stray BY <2>5 DEF Logout
      <3> QED BY <2>5, <3>1, LogoutTypes DEF Kinds
    <2> QED BY <1>5, <2>1, <2>2, <2>3, <2>4, <2>5
  <1>6. ASSUME NEW c \in Core, DaemonReads(c)
        PROVE  TypeInv' /\ Kinds /\ (stray => stray')
    <2>1. CASE QUERY_LOGOUT(c)
      <3>1. stray' = stray BY <2>1 DEF QUERY_LOGOUT
      <3> QED BY <2>1, <3>1, LoggedOutTypes DEF Kinds
    <2>2. CASE QUERY_SETUP(c) BY <2>2, SetupShape DEF Kinds
    <2>3. CASE ~QUERY_LOGOUT(c) /\ ~QUERY_SETUP(c)
      <3>1. TypeInv' /\ (\E to : Filing(c, to)) /\ (stray => stray')
        BY <1>6, <2>3, FiledShape DEF DaemonReads
      <3> QED BY <3>1 DEF Kinds
    <2> QED BY <2>1, <2>2, <2>3
  <1>7. ASSUME NEW c \in Core, CoreReads(c)
        PROVE  TypeInv' /\ Kinds /\ (stray => stray')
    <2>1. CASE P2PCreateParty(c)
      <3>1. stray => stray' BY <2>1 DEF P2PCreateParty
      <3> QED BY <2>1, <3>1, P2PCreateShape DEF Kinds
    <2>2. CASE P2PJoinParty(c)
      <3>1. stray => stray' BY <2>2 DEF P2PJoinParty
      <3> QED BY <2>2, <3>1, P2PJoinShape DEF Kinds
    <2>3. CASE P2PQuitParty(c)
      <3>1. stray => stray' BY <2>3 DEF P2PQuitParty
      <3> QED BY <2>3, <3>1, P2PQuitShape DEF Kinds
    <2>4. CASE P2PDeleteParty(c)
      <3>1. stray => stray' BY <2>4 DEF P2PDeleteParty
      <3> QED BY <2>4, <3>1, P2PDeleteShape DEF Kinds
    <2>5. CASE PartySetMemberLevel(c)
      <3>1. stray => stray' BY <2>5 DEF PartySetMemberLevel
      <3> QED BY <2>5, <3>1, SetMemberLevelShape DEF Kinds
    <2>6. CASE PlayerLoad(c)
      <3>1. stray' = stray BY <2>6 DEF PlayerLoad
      <3> QED BY <2>6, <3>1, PlayerLoadTypes DEF Kinds
    <2> QED BY <1>7, <2>1, <2>2, <2>3, <2>4, <2>5, <2>6 DEF CoreReads
  <1>8. ASSUME NEW c \in Core, LinkDrops(c) \/ CoreCrash(c) \/ Reconnect(c)
        PROVE  TypeInv' /\ Kinds /\ (stray => stray')
    <2>1. CASE LinkDrops(c) BY <2>1, FaultShape, FaultTypes DEF Kinds
    <2>2. CASE CoreCrash(c) BY <2>2, FaultShape, FaultTypes DEF Kinds
    <2>3. CASE Reconnect(c)
      <3>1. stray' = stray BY <2>3 DEF Reconnect, history
      <3> QED BY <2>3, <3>1, ReconnectTypes DEF Kinds
    <2> QED BY <1>8, <2>1, <2>2, <2>3
  <1>9. ASSUME NEW c \in Core, Step(c)
        PROVE  TypeInv' /\ Kinds /\ (stray => stray')
    <2> HIDE DEF Kinds, TypeInv
    <2> QED BY <1>3, <1>4, <1>5, <1>6, <1>7, <1>8, <1>9 DEF Step
  <1> QED BY <1>1, <1>2, <1>9 DEF Next

-----------------------------------------------------------------------------
(* A player is in one place *)

At(c, p) == p \in loading[c] \/ p \in in[c]
Coming(c, p) == Load(p) \in ToSet(toCore[c])
Going(c, p) == Goodbye(p) \in ToSet(toDb[c])
On(c, p) == At(c, p) \/ Coming(c, p) \/ Going(c, p)

\* On at most one core, once, and the daemon knows it.
PlaceLocked == \A c \in Core, p \in Pid : On(c, p) => p \in locked
PlaceOne == \A c, d \in Core, p \in Pid : On(c, p) /\ On(d, p) => c = d
PlaceApart ==
    \A c \in Core, p \in Pid : /\ p \in loading[c] => p \notin in[c]
                               /\ At(c, p) => ~Coming(c, p) /\ ~Going(c, p)
                               /\ Coming(c, p) => ~Going(c, p)
PlaceOnce == \A c \in Core, p \in Pid : Once(toCore[c], Load(p)) /\ Once(toDb[c], Goodbye(p))
PlaceInv == PlaceLocked /\ PlaceOne /\ PlaceApart /\ PlaceOnce

\* A core that is not set up yet hears nothing, and whoever is on it was there when its
\* connection broke; SETUP is the first thing it says.
PeerInv ==
    \A c \in Core :
       /\ c \notin peer => toCore[c] = <<>> /\ \A p \in Pid : At(c, p) => p \in stranded
       /\ ~up[c] => c \notin peer /\ toDb[c] = <<>>
       /\ \A i \in 1 .. Len(toDb[c]) : toDb[c][i].op = "setup" => i = 1 /\ c \notin peer
       /\ c \notin peer /\ up[c] => toDb[c] # <<>> /\ toDb[c][1].op = "setup"

\* The queue r has the packet m as the queue q has.
Quiet(q, r, m) == (m \in ToSet(r) <=> m \in ToSet(q)) /\ (Once(q, m) => Once(r, m))

LEMMA QuietConcat ==
    ASSUME NEW S, NEW q \in Seq(S), NEW s \in Seq(S), NEW m, \A i \in 1 .. Len(s) : s[i] # m
    PROVE  Quiet(q, q \o s, m)
  <1>1. m \notin ToSet(s) BY SetIs
  <1>2. m \in ToSet(q \o s) <=> m \in ToSet(q) BY <1>1, ConcatSet
  <1>3. Once(q, m) => Once(q \o s, m) BY <1>1, OnceConcat
  <1> QED BY <1>2, <1>3 DEF Quiet

LEMMA QuietTail ==
    ASSUME NEW S, NEW q \in Seq(S), q # <<>>, NEW m, Head(q) # m
    PROVE  Quiet(q, Tail(q), m)
  <1>1. m \in ToSet(Tail(q)) <=> m \in ToSet(q) BY TailSet
  <1>2. Once(q, m) => Once(Tail(q), m) BY OnceTail
  <1> QED BY <1>1, <1>2 DEF Quiet

LEMMA QuietSame == \A q, m : Quiet(q, q, m)
  BY DEF Quiet

\* Work, files and SETUP leave the players where they are.
StillQueues ==
    \A c \in Core, p \in Pid : /\ Quiet(toCore[c], toCore'[c], Load(p))
                               /\ Quiet(toDb[c], toDb'[c], Goodbye(p))

LEMMA NotPlayers ==
    ASSUME NEW m, m.op \in PartyOp \/ m.op = "setup"
    PROVE  \A p : m # Load(p) /\ m # Goodbye(p)
  BY DEF Load, Goodbye, Packet, PartyOp

LEMMA SentStill ==
    ASSUME TypeInv, NEW c \in Core, NEW L, toDb \in [Core -> Seq(L)], NEW s \in Seq(L), Send(c, s),
           \A i \in 1 .. Len(s) : s[i].op \in PartyOp
    PROVE  \A d \in Core, p \in Pid : Quiet(toDb[d], toDb'[d], Goodbye(p))
  <1> SUFFICES ASSUME NEW d \in Core, NEW p \in Pid PROVE Quiet(toDb[d], toDb'[d], Goodbye(p))
    OBVIOUS
  <1>1. CASE d = c /\ up[c]
    <2>1. toDb'[d] = toDb[d] \o s BY <1>1, SendIs
    <2>2. \A i \in 1 .. Len(s) : s[i] # Goodbye(p) BY NotPlayers
    <2> QED BY <2>1, <2>2, QuietConcat
  <1>2. CASE ~(d = c /\ up[c])
    <2>1. toDb'[d] = toDb[d] BY <1>2, SendIs
    <2> QED BY <2>1, QuietSame
  <1> QED BY <1>1, <1>2

LEMMA WorkStill ==
    ASSUME TypeInv, NEW c, NEW s, Worked(c, s),
           leaders' = leaders \/ \E a \in Pid : leaders' = Append(leaders, a)
    PROVE  StillQueues
  <1> DEFINE L == DbPack(leaders')
             K == CorePack(leaders)
  <1>1. /\ c \in Core /\ s \in Seq(L) /\ Send(c, s) /\ \A i \in 1 .. Len(s) : s[i].op \in PartyOp
    BY DEF Worked, Said
  <1>2. toDb \in [Core -> Seq(L)]
    <2>1. toDb \in [Core -> Seq(DbPack(leaders))] /\ leaders \in Seq(Pid)
      BY DEF TypeInv, NetType, HistoryType
    <2>2. DbPack(leaders) \subseteq L
      <3>1. CASE leaders' = leaders BY <3>1
      <3>2. CASE \E a \in Pid : leaders' = Append(leaders, a) BY <2>1, <3>2, Grown
      <3> QED BY <3>1, <3>2
    <2> QED BY <2>1, <2>2
  <1>3. \A d \in Core, p \in Pid : Quiet(toDb[d], toDb'[d], Goodbye(p))
    <2> HIDE DEF L
    <2> QED BY <1>1, <1>2, SentStill
  <1>4. toCore \in [Core -> Seq(K)] BY DEF TypeInv, NetType
  <1>5. ASSUME NEW d \in Core, NEW p \in Pid PROVE Quiet(toCore[d], toCore'[d], Load(p))
    <2> HIDE DEF K, L
    <2>1. CASE toCore' = toCore BY <2>1, QuietSame
    <2>2. CASE Read(toCore, toCore', c) /\ Head(toCore[c]).op # "load"
      <3>0. toCore[c] \in Seq(K) BY <1>1, <1>4
      <3>1. /\ toCore'[c] = Tail(toCore[c]) /\ toCore[c] # <<>>
            /\ d # c => toCore'[d] = toCore[d]
        BY <1>1, <1>4, <2>2 DEF Read
      <3>2. Head(toCore[c]) # Load(p) BY <2>2 DEF Load, Packet
      <3>3. CASE d = c BY <3>0, <3>1, <3>2, <3>3, QuietTail
      <3>4. CASE d # c BY <3>1, <3>4, QuietSame
      <3> QED BY <3>3, <3>4
    <2> QED BY <2>1, <2>2 DEF Worked
  <1> QED BY <1>3, <1>5 DEF StillQueues

\* The daemon reads what is not a logout.
LEMMA ReadStill ==
    ASSUME TypeInv, NEW c \in Core, Read(toDb, toDb', c), Head(toDb[c]).op # "logout"
    PROVE  \A d \in Core, p \in Pid : Quiet(toDb[d], toDb'[d], Goodbye(p))
  <1> DEFINE L == DbPack(leaders)
  <1>1. toDb \in [Core -> Seq(L)] BY DEF TypeInv, NetType
  <1> HIDE DEF L
  <1> SUFFICES ASSUME NEW d \in Core, NEW p \in Pid PROVE Quiet(toDb[d], toDb'[d], Goodbye(p))
    OBVIOUS
  <1>2. toDb[c] \in Seq(L) BY <1>1
  <1>6. toDb'[c] = Tail(toDb[c]) /\ toDb[c] # <<>> /\ \A e \in Core : e # c => toDb'[e] = toDb[e]
    BY <1>1 DEF Read
  <1>3. Head(toDb[c]) # Goodbye(p) BY DEF Goodbye, Packet
  <1>4. CASE d = c BY <1>2, <1>3, <1>4, <1>6, QuietTail
  <1>5. CASE d # c BY <1>5, <1>6, QuietSame
  <1> QED BY <1>4, <1>5

LEMMA FilingStill ==
    ASSUME TypeInv, NEW c, NEW to, Filing(c, to)
    PROVE  StillQueues
  <1> DEFINE K == CorePack(leaders)
             m == Head(toDb[c])
  <1>1. c \in Core /\ Read(toDb, toDb', c) /\ m.op \in PartyOp BY DEF Filing
  <1>2. \A d \in Core, p \in Pid : Quiet(toDb[d], toDb'[d], Goodbye(p))
    <2>1. Head(toDb[c]).op # "logout" BY <1>1 DEF PartyOp
    <2> QED BY <1>1, <2>1, ReadStill
  <1>3. toCore \in [Core -> Seq(K)] BY DEF TypeInv, NetType
  <1>4. m \in K
    <2>1. toDb \in [Core -> Seq(DbPack(leaders))] BY DEF TypeInv, NetType
    <2>2. m \in DbPack(leaders)
      <3> DEFINE L == DbPack(leaders)
      <3>1. toDb \in [Core -> Seq(L)] BY <2>1
      <3> HIDE DEF L
      <3>2. m \in L BY <1>1, <3>1, ReadIs
      <3> QED BY <3>2 DEF L
    <2> HIDE DEF m
    <2> QED BY <1>1, <2>2 DEF DbPack, CorePack, PartyOp
  <1>5. ASSUME NEW d \in Core, NEW p \in Pid PROVE Quiet(toCore[d], toCore'[d], Load(p))
    <2> HIDE DEF K, m
    <2>1. CASE toCore' = toCore BY <2>1, QuietSame
    <2>2. CASE Forward(to, m)
      <3>1. CASE d \in to
        <4>1. toCore'[d] = toCore[d] \o <<m>> BY <1>3, <1>4, <2>2, <3>1, ForwardIs
        <4>2. <<m>> \in Seq(K) /\ Len(<<m>>) = 1 /\ <<m>>[1] = m BY <1>4
        <4>3. m # Load(p) BY <1>1, NotPlayers
        <4>4. \A i \in 1 .. Len(<<m>>) : <<m>>[i] # Load(p)
          <5>1. \A i \in 1 .. 1 : i = 1 OBVIOUS
          <5> QED BY <4>2, <4>3, <5>1
        <4> QED BY <1>3, <4>1, <4>2, <4>4, QuietConcat
      <3>2. CASE d \notin to
        <4>1. toCore'[d] = toCore[d] BY <1>3, <1>4, <2>2, <3>2, ForwardIs
        <4> QED BY <4>1, QuietSame
      <3> QED BY <3>1, <3>2
    <2> QED BY <2>1, <2>2 DEF Filing, m
  <1> QED BY <1>2, <1>5 DEF StillQueues

LEMMA SetupStill ==
    ASSUME TypeInv, NEW c \in Core, QUERY_SETUP(c)
    PROVE  StillQueues
  <1> DEFINE K == CorePack(leaders)
  <1>1. Handle(c, "setup") BY DEF QUERY_SETUP
  <1>2. Read(toDb, toDb', c) /\ Head(toDb[c]).op = "setup" BY <1>1, HandleIs
  <1>3. \A d \in Core, p \in Pid : Quiet(toDb[d], toDb'[d], Goodbye(p))
    <2>1. Head(toDb[c]).op # "logout" BY <1>2
    <2> QED BY <1>2, <2>1, ReadStill
  <1>4. PICK id \in Bijection(Pid, 1 .. Cardinality(Pid)) :
           /\ toCore'[c] = toCore[c] \o Snapshot(id)
           /\ \A d \in Core : d # c => toCore'[d] = toCore[d]
    BY SetupShape
  <1>5. Snapshot(id) \in Seq(K) /\ ToSet(Snapshot(id)) = Told BY SnapshotIs
  <1>6. \A m \in Told : m.op \in PartyOp BY ToldAre DEF Add, Level, Packet, PartyOp
  <1>7. \A i \in 1 .. Len(Snapshot(id)) : Snapshot(id)[i].op \in PartyOp
    <2> HIDE DEF K
    <2> QED BY <1>5, <1>6, SetIs
  <1>8. toCore \in [Core -> Seq(K)] BY DEF TypeInv, NetType
  <1>9. ASSUME NEW d \in Core, NEW p \in Pid PROVE Quiet(toCore[d], toCore'[d], Load(p))
    <2> HIDE DEF K
    <2>1. CASE d = c
      <3>1. \A i \in 1 .. Len(Snapshot(id)) : Snapshot(id)[i] # Load(p) BY <1>7, NotPlayers
      <3> QED BY <1>4, <1>5, <1>8, <2>1, <3>1, QuietConcat
    <2>2. CASE d # c BY <1>4, <2>2, QuietSame
    <2> QED BY <2>1, <2>2
  <1> QED BY <1>3, <1>9 DEF StillQueues

LEMMA EnterGameStill ==
    ASSUME TypeInv, NEW c \in Core, NEW p \in Pid, EnterGame(c, p)
    PROVE  StillQueues
  <1> DEFINE L == DbPack(leaders)
  <1>1. toCore' = toCore BY EnterGameShape
  <1>2. PICK s \in Seq(L) : Send(c, s) /\ \A i \in 1 .. Len(s) : s[i].op = "level" BY EnterGameShape
  <1>3. toDb \in [Core -> Seq(L)] BY DEF TypeInv, NetType
  <1>4. \A i \in 1 .. Len(s) : s[i].op \in PartyOp BY <1>2 DEF PartyOp
  <1> HIDE DEF L
  <1>5. \A d \in Core, x \in Pid : Quiet(toDb[d], toDb'[d], Goodbye(x))
    BY <1>2, <1>3, <1>4, SentStill
  <1> QED BY <1>1, <1>5, QuietSame DEF StillQueues

LEMMA ReconnectStill ==
    ASSUME TypeInv, PeerInv, NEW c \in Core, Reconnect(c)
    PROVE  StillQueues
  <1> DEFINE L == DbPack(leaders')
             m == Packet("setup", 0, c)
  <1>1. /\ TypeInv' /\ ~up[c] /\ toCore' = toCore /\ toDb'[c] = <<m>>
        /\ \A d \in Core : d # c => toDb'[d] = toDb[d]
    BY ReconnectTypes DEF m
  <1>2. toDb[c] = <<>> BY <1>1 DEF PeerInv
  <1>3. toDb' \in [Core -> Seq(L)] BY <1>1 DEF TypeInv, NetType
  <1>4. <<m>> \in Seq(L) /\ Len(<<m>>) = 1 /\ <<m>>[1] = m /\ \A i \in 1 .. Len(<<m>>) : i = 1
    <2>1. <<m>> \in Seq(L)
      <3> HIDE DEF L, m
      <3> QED BY <1>1, <1>3
    <2> HIDE DEF m
    <2> QED BY <2>1
  <1>5. m.op = "setup" BY DEF Packet
  <1>6. <<>> \in Seq(L) OBVIOUS
  <1>7. ASSUME NEW p \in Pid PROVE Quiet(<<>>, <<m>>, Goodbye(p))
    <2> HIDE DEF L, m
    <2>1. \A i \in 1 .. Len(<<m>>) : <<m>>[i] # Goodbye(p) BY <1>4, <1>5, NotPlayers
    <2>2. <<>> \o <<m>> = <<m>> BY <1>4
    <2>3. Quiet(<<>>, <<>> \o <<m>>, Goodbye(p)) BY <1>4, <1>6, <2>1, QuietConcat
    <2> QED BY <2>2, <2>3
  <1> HIDE DEF m, L
  <1>8. ASSUME NEW d \in Core, NEW p \in Pid PROVE Quiet(toDb[d], toDb'[d], Goodbye(p))
    <2>1. CASE d = c BY <1>1, <1>2, <1>7, <2>1
    <2>2. CASE d # c BY <1>1, <2>2, QuietSame
    <2> QED BY <2>1, <2>2
  <1> QED BY <1>1, <1>8, QuietSame DEF StillQueues

LEMMA PlaceStill ==
    ASSUME PlaceInv, StillQueues, UNCHANGED <<players, locked>>
    PROVE  PlaceInv'
  <1>1. \A c \in Core, p \in Pid : /\ Coming(c, p)' <=> Coming(c, p)
                                   /\ Going(c, p)' <=> Going(c, p)
                                   /\ At(c, p)' <=> At(c, p)
                                   /\ Once(toCore'[c], Load(p)) /\ Once(toDb'[c], Goodbye(p))
    BY DEF StillQueues, Quiet, PlaceInv, PlaceLocked, PlaceOne, PlaceApart, PlaceOnce, Coming, Going, At, players
  <1>2. \A c \in Core, p \in Pid : On(c, p)' <=> On(c, p) BY <1>1 DEF On
  <1> QED BY <1>1, <1>2 DEF PlaceInv, PlaceLocked, PlaceOne, PlaceApart, PlaceOnce, players

LEMMA PlaceEnter ==
    ASSUME TypeInv, PlaceInv, NEW c \in Core, NEW p \in Pid, EnterGame(c, p)
    PROVE  PlaceInv'
  <1>1. /\ loading' = [loading EXCEPT ![c] = @ \ {p}] /\ in' = [in EXCEPT ![c] = @ \cup {p}]
        /\ p \in loading[c] /\ locked' = locked
    BY DEF EnterGame, daemon
  <1>2. StillQueues BY EnterGameStill
  <1>3. \A d \in Core, x \in Pid :
           /\ x \in loading'[d] <=> x \in loading[d] /\ ~(d = c /\ x = p)
           /\ x \in in'[d] <=> x \in in[d] \/ (d = c /\ x = p)
           /\ At(d, x)' <=> At(d, x)
    BY <1>1 DEF TypeInv, CoreType, At
  <1>4. \A d \in Core, x \in Pid : /\ Coming(d, x)' <=> Coming(d, x)
                                   /\ Going(d, x)' <=> Going(d, x)
                                   /\ Once(toCore'[d], Load(x)) /\ Once(toDb'[d], Goodbye(x))
    BY <1>2 DEF StillQueues, Quiet, PlaceInv, PlaceLocked, PlaceOne, PlaceApart, PlaceOnce, Coming, Going
  <1>5. \A d \in Core, x \in Pid : On(d, x)' <=> On(d, x) BY <1>3, <1>4 DEF On
  <1> QED BY <1>1, <1>3, <1>4, <1>5 DEF PlaceInv, PlaceLocked, PlaceOne, PlaceApart, PlaceOnce

\* Reading the only m of a queue.
LEMMA TakeIs ==
    ASSUME NEW S, NEW q \in Seq(S), q # <<>>, NEW m, Head(q) = m, Once(q, m)
    PROVE  /\ m \in ToSet(q) /\ m \notin ToSet(Tail(q)) /\ Once(Tail(q), m)
           /\ \A k : k # m => Quiet(q, Tail(q), k)
  <1>1. m \in ToSet(q) BY TailSet
  <1>2. m \notin ToSet(Tail(q)) /\ Once(Tail(q), m) BY OnceTail
  <1>3. \A k : k # m => Quiet(q, Tail(q), k) BY QuietTail
  <1> QED BY <1>1, <1>2, <1>3

LEMMA PlayerNames ==
    ASSUME NEW p, NEW q
    PROVE  /\ Load(p) = Load(q) => p = q
           /\ Goodbye(p) = Goodbye(q) => p = q
           /\ Load(p) # Goodbye(q)
  <1>1. /\ Load(p).pid = p /\ Load(q).pid = q /\ Goodbye(p).pid = p /\ Goodbye(q).pid = q
        /\ Load(p).op = "load" /\ Goodbye(q).op = "logout"
    BY DEF Load, Goodbye, Packet
  <1>2. "load" # "logout" OBVIOUS
  <1>3. ASSUME Load(p) = Load(q) PROVE p = q
    <2>1. Load(p).pid = Load(q).pid BY <1>3
    <2> QED BY <1>1, <2>1
  <1>4. ASSUME Goodbye(p) = Goodbye(q) PROVE p = q
    <2>1. Goodbye(p).pid = Goodbye(q).pid BY <1>4
    <2> QED BY <1>1, <2>1
  <1>5. ASSUME Load(p) = Goodbye(q) PROVE FALSE
    <2>1. Load(p).op = Goodbye(q).op BY <1>5
    <2> QED BY <1>1, <1>2, <2>1
  <1> QED BY <1>3, <1>4, <1>5

LEMMA PlaceLoggedOut ==
    ASSUME TypeInv, PlaceInv, NEW c \in Core, QUERY_LOGOUT(c)
    PROVE  /\ PlaceInv'
           /\ \A d \in Core, x \in Pid : (Going(d, x)' => Going(d, x))
                                         /\ (Coming(d, x)' <=> Coming(d, x))
  <1> DEFINE L == DbPack(leaders)
             m == Head(toDb[c])
             p == m.pid
  <1>1. Handle(c, "logout") /\ locked' = locked \ {p} /\ UNCHANGED toCore BY DEF QUERY_LOGOUT
  <1>2. Read(toDb, toDb', c) /\ m = Goodbye(p) /\ p \in Pid /\ UNCHANGED players BY <1>1, HandleIs
  <1>3. toDb[c] \in Seq(L) BY DEF TypeInv, NetType
  <1> HIDE DEF L, p
  <1>4. toDb[c] # <<>> /\ toDb'[c] = Tail(toDb[c]) /\ \A d \in Core : d # c => toDb'[d] = toDb[d]
    BY <1>2 DEF Read, TypeInv, NetType
  <1>5. Once(toDb[c], Goodbye(p)) BY <1>2 DEF PlaceInv, PlaceLocked, PlaceOne, PlaceApart, PlaceOnce
  <1>6. /\ Goodbye(p) \in ToSet(toDb[c]) /\ Goodbye(p) \notin ToSet(toDb'[c])
        /\ Once(toDb'[c], Goodbye(p))
        /\ \A k : k # Goodbye(p) => Quiet(toDb[c], toDb'[c], k)
    BY <1>2, <1>3, <1>4, <1>5, TakeIs
  <1>7. \A d \in Core, x \in Pid : /\ Going(d, x)' <=> Going(d, x) /\ ~(d = c /\ x = p)
                                   /\ Once(toDb'[d], Goodbye(x))
    <2> SUFFICES ASSUME NEW d \in Core, NEW x \in Pid
                 PROVE  /\ Going(d, x)' <=> Going(d, x) /\ ~(d = c /\ x = p)
                        /\ Once(toDb'[d], Goodbye(x))
      OBVIOUS
    <2>1. CASE d # c BY <1>4, <2>1 DEF Going, PlaceInv, PlaceLocked, PlaceOne, PlaceApart, PlaceOnce
    <2>2. CASE d = c /\ x = p BY <1>6, <2>2 DEF Going
    <2>3. CASE d = c /\ x # p
      <3>1. Quiet(toDb[d], toDb'[d], Goodbye(x)) BY <1>6, <2>3, PlayerNames
      <3> QED BY <2>3, <3>1 DEF Going, PlaceInv, PlaceLocked, PlaceOne, PlaceApart, PlaceOnce, Quiet
    <2> QED BY <2>1, <2>2, <2>3
  <1>8. \A d \in Core, x \in Pid : /\ Coming(d, x)' <=> Coming(d, x)
                                   /\ Once(toCore'[d], Load(x))
                                   /\ At(d, x)' <=> At(d, x)
    BY <1>1, <1>2 DEF Coming, At, players, PlaceInv, PlaceLocked, PlaceOne, PlaceApart, PlaceOnce
  <1>9. Going(c, p) BY <1>6 DEF Going
  <1>10. \A d \in Core, x \in Pid : On(d, x)' => On(d, x) /\ x # p
    <2> SUFFICES ASSUME NEW d \in Core, NEW x \in Pid, On(d, x)' PROVE On(d, x) /\ x # p
      OBVIOUS
    <2>1. On(d, x) BY <1>7, <1>8 DEF On
    <2>2. ASSUME x = p PROVE FALSE
      <3>1. d = c BY <1>2, <1>9, <2>1, <2>2 DEF PlaceInv, PlaceLocked, PlaceOne, PlaceApart, PlaceOnce, On
      <3>2. ~Going(d, x)' BY <1>7, <2>2, <3>1
      <3>3. At(d, x) \/ Coming(d, x) BY <1>8, <3>2 DEF On
      <3> QED BY <1>2, <1>9, <2>2, <3>1, <3>3 DEF PlaceInv, PlaceLocked, PlaceOne, PlaceApart, PlaceOnce
    <2> QED BY <2>1, <2>2
  <1>11. \A d \in Core, x \in Pid : On(d, x)' => x \in locked' BY <1>1, <1>10 DEF PlaceInv, PlaceLocked, PlaceOne, PlaceApart, PlaceOnce, p
  <1>12. \A d, e \in Core, x \in Pid : On(d, x)' /\ On(e, x)' => d = e BY <1>10 DEF PlaceInv, PlaceLocked, PlaceOne, PlaceApart, PlaceOnce
  <1>13. \A d \in Core, x \in Pid : /\ x \in loading'[d] => x \notin in'[d]
                                    /\ At(d, x)' => ~Coming(d, x)' /\ ~Going(d, x)'
                                    /\ Coming(d, x)' => ~Going(d, x)'
    BY <1>2, <1>7, <1>8 DEF PlaceInv, PlaceLocked, PlaceOne, PlaceApart, PlaceOnce, players
  <1>20. PlaceOnce' BY <1>7, <1>8 DEF PlaceOnce
  <1>21. PlaceInv' BY <1>11, <1>12, <1>13, <1>20 DEF PlaceInv, PlaceLocked, PlaceOne, PlaceApart
  <1> QED BY <1>7, <1>8, <1>21

LEMMA PlaceLoad ==
    ASSUME TypeInv, PlaceInv, NEW c \in Core, PlayerLoad(c)
    PROVE  LET p == Head(toCore[c]).pid
           IN /\ PlaceInv' /\ p \in Pid /\ Read(toCore, toCore', c) /\ Head(toCore[c]) = Load(p)
              /\ \A d \in Core, x \in Pid : At(d, x)' <=> At(d, x) \/ (d = c /\ x = p)
  <1> DEFINE L == CorePack(leaders)
             m == Head(toCore[c])
             p == m.pid
  <1>1. Receive(c, "load") /\ loading' = [loading EXCEPT ![c] = @ \cup {p}] /\ UNCHANGED <<in, toDb>>
    BY DEF PlayerLoad
  <1>2. Read(toCore, toCore', c) /\ m = Load(p) /\ p \in Pid /\ UNCHANGED daemon BY <1>1, ReceiveIs
  <1>3. toCore[c] \in Seq(L) BY DEF TypeInv, NetType
  <1> HIDE DEF L, p
  <1>4. toCore[c] # <<>> /\ toCore'[c] = Tail(toCore[c])
        /\ \A d \in Core : d # c => toCore'[d] = toCore[d]
    BY <1>2 DEF Read, TypeInv, NetType
  <1>5. Once(toCore[c], Load(p)) BY <1>2 DEF PlaceInv, PlaceLocked, PlaceOne, PlaceApart, PlaceOnce
  <1>6. /\ Load(p) \in ToSet(toCore[c]) /\ Load(p) \notin ToSet(toCore'[c])
        /\ Once(toCore'[c], Load(p))
        /\ \A k : k # Load(p) => Quiet(toCore[c], toCore'[c], k)
    BY <1>2, <1>3, <1>4, <1>5, TakeIs
  <1>7. \A d \in Core, x \in Pid : /\ Coming(d, x)' <=> Coming(d, x) /\ ~(d = c /\ x = p)
                                   /\ Once(toCore'[d], Load(x))
    <2> SUFFICES ASSUME NEW d \in Core, NEW x \in Pid
                 PROVE  /\ Coming(d, x)' <=> Coming(d, x) /\ ~(d = c /\ x = p)
                        /\ Once(toCore'[d], Load(x))
      OBVIOUS
    <2>1. CASE d # c BY <1>4, <2>1 DEF Coming, PlaceInv, PlaceLocked, PlaceOne, PlaceApart, PlaceOnce
    <2>2. CASE d = c /\ x = p BY <1>6, <2>2 DEF Coming
    <2>3. CASE d = c /\ x # p
      <3>1. Quiet(toCore[d], toCore'[d], Load(x)) BY <1>6, <2>3, PlayerNames
      <3> QED BY <2>3, <3>1 DEF Coming, PlaceInv, PlaceLocked, PlaceOne, PlaceApart, PlaceOnce, Quiet
    <2> QED BY <2>1, <2>2, <2>3
  <1>8. \A d \in Core, x \in Pid : /\ Going(d, x)' <=> Going(d, x)
                                   /\ Once(toDb'[d], Goodbye(x))
                                   /\ At(d, x)' <=> At(d, x) \/ (d = c /\ x = p)
                                   /\ x \in loading'[d] <=> x \in loading[d] \/ (d = c /\ x = p)
                                   /\ x \in in'[d] <=> x \in in[d]
    BY <1>1, <1>2 DEF Going, At, PlaceInv, PlaceLocked, PlaceOne, PlaceApart, PlaceOnce, TypeInv, CoreType
  <1>9. Coming(c, p) BY <1>6 DEF Coming
  <1>10. \A d \in Core, x \in Pid : On(d, x)' => On(d, x)
    BY <1>7, <1>8, <1>9 DEF On
  <1>11. \A d \in Core, x \in Pid : On(d, x)' => x \in locked' BY <1>2, <1>10 DEF PlaceInv, PlaceLocked, PlaceOne, PlaceApart, PlaceOnce, daemon
  <1>12. \A d, e \in Core, x \in Pid : On(d, x)' /\ On(e, x)' => d = e BY <1>10 DEF PlaceInv, PlaceLocked, PlaceOne, PlaceApart, PlaceOnce
  <1>13. \A d \in Core, x \in Pid : /\ x \in loading'[d] => x \notin in'[d]
                                    /\ At(d, x)' => ~Coming(d, x)' /\ ~Going(d, x)'
                                    /\ Coming(d, x)' => ~Going(d, x)'
    <2> SUFFICES ASSUME NEW d \in Core, NEW x \in Pid
                 PROVE  /\ x \in loading'[d] => x \notin in'[d]
                        /\ At(d, x)' => ~Coming(d, x)' /\ ~Going(d, x)'
                        /\ Coming(d, x)' => ~Going(d, x)'
      OBVIOUS
    <2>1. CASE d = c /\ x = p
      <3>1. ~At(d, x) /\ ~Going(d, x) BY <1>9, <2>1 DEF PlaceInv, PlaceLocked, PlaceOne, PlaceApart, PlaceOnce
      <3> QED BY <1>7, <1>8, <2>1, <3>1 DEF At
    <2>2. CASE ~(d = c /\ x = p) BY <1>7, <1>8, <2>2 DEF PlaceInv, PlaceLocked, PlaceOne, PlaceApart, PlaceOnce
    <2> QED BY <2>1, <2>2
  <1>20. PlaceOnce' BY <1>7, <1>8 DEF PlaceOnce
  <1>14. PlaceInv' BY <1>11, <1>12, <1>13, <1>20 DEF PlaceInv, PlaceLocked, PlaceOne, PlaceApart
  <1> QED BY <1>2, <1>8, <1>14 DEF p

\* Adding the only m to a queue.
LEMMA PutIs ==
    ASSUME NEW S, NEW q \in Seq(S), NEW m \in S, m \notin ToSet(q)
    PROVE  /\ m \in ToSet(q \o <<m>>) /\ Once(q \o <<m>>, m)
           /\ \A k : k # m => Quiet(q, q \o <<m>>, k)
  <1>1. <<m>> \in Seq(S) /\ Len(<<m>>) = 1 /\ <<m>>[1] = m /\ ToSet(<<m>>) = {m} BY AppendIs
  <1>2. \A i \in 1 .. Len(<<m>>) : i = 1 BY <1>1
  <1> DEFINE s == <<m>>
  <1>7. s \in Seq(S) /\ ToSet(s) = {m} BY <1>1
  <1> HIDE DEF s
  <1>8. ToSet(q \o s) = ToSet(q) \cup ToSet(s) BY <1>7, ConcatSet
  <1>3. m \in ToSet(q \o <<m>>) BY <1>7, <1>8 DEF s
  <1>4. Once(<<m>>, m) BY <1>2 DEF Once
  <1>5. Once(q \o <<m>>, m) BY <1>1, <1>4, OnceConcat
  <1>6. ASSUME NEW k, k # m PROVE Quiet(q, q \o <<m>>, k)
    <2>1. \A i \in 1 .. Len(<<m>>) : <<m>>[i] # k BY <1>1, <1>2, <1>6
    <2> QED BY <1>1, <2>1, QuietConcat
  <1> QED BY <1>3, <1>5, <1>6

LEMMA PlaceLogin ==
    ASSUME TypeInv, PlaceInv, NEW c \in Core, NEW p \in Pid, Login(c, p)
    PROVE  PlaceInv'
  <1> DEFINE L == CorePack(leaders)
  <1>1. /\ Forward({c}, Load(p)) /\ locked' = locked \cup {p} /\ p \notin locked
        /\ UNCHANGED <<players, toDb>>
    BY DEF Login, Load
  <1>2. Load(p) \in L /\ toCore \in [Core -> Seq(L)] BY LoginTypes DEF TypeInv, NetType
  <1>3. /\ toCore'[c] = toCore[c] \o <<Load(p)>> /\ toCore[c] \in Seq(L)
        /\ \A d \in Core : d # c => toCore'[d] = toCore[d]
    <2> HIDE DEF L
    <2>1. toCore[c] \in Seq(L) BY <1>2
    <2> QED BY <1>1, <1>2, <2>1, ForwardIs
  <1> HIDE DEF L
  <1>4. \A d \in Core : ~On(d, p) BY <1>1 DEF PlaceInv, PlaceLocked
  <1>5. Load(p) \notin ToSet(toCore[c]) BY <1>4 DEF On, Coming
  <1>6. /\ Load(p) \in ToSet(toCore'[c]) /\ Once(toCore'[c], Load(p))
        /\ \A k : k # Load(p) => Quiet(toCore[c], toCore'[c], k)
    BY <1>2, <1>3, <1>5, PutIs
  <1>7. \A d \in Core, x \in Pid : /\ Coming(d, x)' <=> Coming(d, x) \/ (d = c /\ x = p)
                                   /\ Once(toCore'[d], Load(x))
    <2> SUFFICES ASSUME NEW d \in Core, NEW x \in Pid
                 PROVE  /\ Coming(d, x)' <=> Coming(d, x) \/ (d = c /\ x = p)
                        /\ Once(toCore'[d], Load(x))
      OBVIOUS
    <2>1. CASE d # c BY <1>3, <2>1 DEF Coming, PlaceInv, PlaceOnce
    <2>2. CASE d = c /\ x = p BY <1>6, <2>2 DEF Coming
    <2>3. CASE d = c /\ x # p
      <3>1. Quiet(toCore[d], toCore'[d], Load(x)) BY <1>6, <2>3, PlayerNames
      <3> QED BY <2>3, <3>1 DEF Coming, PlaceInv, PlaceOnce, Quiet
    <2> QED BY <2>1, <2>2, <2>3
  <1>8. \A d \in Core, x \in Pid : /\ Going(d, x)' <=> Going(d, x)
                                   /\ Once(toDb'[d], Goodbye(x))
                                   /\ At(d, x)' <=> At(d, x)
    BY <1>1 DEF Going, At, PlaceInv, PlaceOnce, players
  <1>9. \A d \in Core, x \in Pid : On(d, x)' <=> On(d, x) \/ (d = c /\ x = p)
    BY <1>7, <1>8 DEF On
  <1>10. PlaceLocked' BY <1>1, <1>9 DEF PlaceInv, PlaceLocked
  <1>11. PlaceOne' BY <1>4, <1>9 DEF PlaceInv, PlaceOne
  <1>12. PlaceApart'
    <2>1. ~At(c, p) /\ ~Going(c, p) BY <1>4 DEF On
    <2> QED BY <1>1, <1>7, <1>8, <2>1 DEF PlaceInv, PlaceApart, players
  <1>13. PlaceOnce' BY <1>7, <1>8 DEF PlaceOnce
  <1> QED BY <1>10, <1>11, <1>12, <1>13 DEF PlaceInv

LEMMA PlaceLogout ==
    ASSUME TypeInv, PlaceInv, NEW c \in Core, NEW p \in Pid, Logout(c, p)
    PROVE  /\ PlaceInv' /\ At(c, p) /\ up' = up
           /\ \A d \in Core, x \in Pid : At(d, x)' <=> At(d, x) /\ ~(d = c /\ x = p)
  <1> DEFINE L == DbPack(leaders)
             g == Goodbye(p)
  <1>1. /\ loading' = [loading EXCEPT ![c] = @ \ {p}] /\ in' = [in EXCEPT ![c] = @ \ {p}]
        /\ locked' = IF up[c] THEN locked ELSE locked \ {p}
        /\ p \in loading[c] \cup in[c]
        /\ UNCHANGED <<up, toCore>>
    BY DEF Logout
  <1>2. Send(c, <<g>>) /\ <<g>> \in Seq(L) BY LogoutTypes
  <1>3. toDb \in [Core -> Seq(L)] BY DEF TypeInv, NetType
  <1>4. At(c, p) BY <1>1 DEF At
  <1>5. \A d \in Core, x \in Pid :
           /\ x \in loading'[d] <=> x \in loading[d] /\ ~(d = c /\ x = p)
           /\ x \in in'[d] <=> x \in in[d] /\ ~(d = c /\ x = p)
           /\ At(d, x)' <=> At(d, x) /\ ~(d = c /\ x = p)
    BY <1>1 DEF TypeInv, CoreType, At
  <1>6. \A d \in Core, x \in Pid : /\ Coming(d, x)' <=> Coming(d, x)
                                   /\ Once(toCore'[d], Load(x))
    BY <1>1 DEF Coming, PlaceInv, PlaceOnce
  <1>7. ~Coming(c, p) /\ ~Going(c, p) BY <1>4 DEF PlaceInv, PlaceApart
  <1>8. CASE up[c]
    <2> HIDE DEF L, g
    <2>1. /\ toDb'[c] = toDb[c] \o <<g>> /\ \A d \in Core : d # c => toDb'[d] = toDb[d]
      BY <1>2, <1>3, <1>8, SendIs
    <2>2. g \notin ToSet(toDb[c]) BY <1>7 DEF Going, g
    <2>3. toDb[c] \in Seq(L) /\ g \in L
      <3>1. g = <<g>>[1] OBVIOUS
      <3>2. <<g>>[1] \in L BY <1>2
      <3> QED BY <1>3, <3>1, <3>2
    <2>4. /\ g \in ToSet(toDb'[c]) /\ Once(toDb'[c], g)
          /\ \A k : k # g => Quiet(toDb[c], toDb'[c], k)
      BY <2>1, <2>2, <2>3, PutIs
    <2>5. \A d \in Core, x \in Pid : /\ Going(d, x)' <=> Going(d, x) \/ (d = c /\ x = p)
                                     /\ Once(toDb'[d], Goodbye(x))
      <3> SUFFICES ASSUME NEW d \in Core, NEW x \in Pid
                   PROVE  /\ Going(d, x)' <=> Going(d, x) \/ (d = c /\ x = p)
                          /\ Once(toDb'[d], Goodbye(x))
        OBVIOUS
      <3>1. CASE d # c BY <2>1, <3>1 DEF Going, PlaceInv, PlaceOnce
      <3>2. CASE d = c /\ x = p BY <2>4, <3>2 DEF Going, g
      <3>3. CASE d = c /\ x # p
        <4>1. Quiet(toDb[d], toDb'[d], Goodbye(x)) BY <2>4, <3>3, PlayerNames DEF g
        <4> QED BY <3>3, <4>1 DEF Going, PlaceInv, PlaceOnce, Quiet
      <3> QED BY <3>1, <3>2, <3>3
    <2>6. \A d \in Core, x \in Pid : On(d, x)' <=> On(d, x)
      BY <1>4, <1>5, <1>6, <2>5 DEF On
    <2>7. PlaceLocked' BY <1>1, <1>8, <2>6 DEF PlaceInv, PlaceLocked
    <2>8. PlaceOne' BY <2>6 DEF PlaceInv, PlaceOne
    <2>9. PlaceApart' BY <1>5, <1>6, <1>7, <2>5 DEF PlaceInv, PlaceApart
    <2>10. PlaceOnce' BY <1>6, <2>5 DEF PlaceOnce
    <2> QED BY <1>1, <1>4, <1>5, <2>7, <2>8, <2>9, <2>10 DEF PlaceInv
  <1>9. CASE ~up[c]
    <2> HIDE DEF L, g
    <2>1. \A d \in Core : toDb'[d] = toDb[d] BY <1>2, <1>3, <1>9, SendIs
    <2>2. \A d \in Core, x \in Pid : /\ Going(d, x)' <=> Going(d, x)
                                     /\ Once(toDb'[d], Goodbye(x))
      BY <2>1 DEF Going, PlaceInv, PlaceOnce
    <2>3. \A d \in Core, x \in Pid : On(d, x)' => On(d, x)
      BY <1>5, <1>6, <2>2 DEF On
    <2>4. ASSUME NEW d \in Core, On(d, p)' PROVE FALSE
      <3>1. d = c BY <1>4, <2>3, <2>4 DEF On, PlaceInv, PlaceOne
      <3> QED BY <1>5, <1>6, <1>7, <2>2, <2>4, <3>1 DEF On
    <2>5. PlaceLocked' BY <1>1, <1>9, <2>3, <2>4 DEF PlaceInv, PlaceLocked
    <2>6. PlaceOne' BY <2>3 DEF PlaceInv, PlaceOne
    <2>7. PlaceApart' BY <1>5, <1>6, <2>2 DEF PlaceInv, PlaceApart
    <2>8. PlaceOnce' BY <1>6, <2>2 DEF PlaceOnce
    <2> QED BY <1>1, <1>4, <1>5, <2>5, <2>6, <2>7, <2>8 DEF PlaceInv
  <1> QED BY <1>8, <1>9

LEMMA Nothing == ToSet(<<>>) = {} /\ \A m : Once(<<>>, m)
  <1>1. Len(<<>>) = 0 OBVIOUS
  <1>2. \A m : m \notin ToSet(<<>>) BY DEF ToSet
  <1> QED BY <1>1, <1>2 DEF Once

\* Players on their way to or from a core that is cut are logged off, with those who
\* were on a core that crashes.
LEMMA PlaceFault ==
    ASSUME TypeInv, PlaceInv, NEW cores, Fault(cores),
           \/ UNCHANGED players /\ locked' = locked \ Moving(cores)
           \/ \E c \in Core : CoreCrash(c) /\ cores = {c}
    PROVE  /\ PlaceInv' /\ \A c \in Core, p \in Pid : At(c, p)' => At(c, p)
  <1>1. \A c \in Core : /\ c \in cores => toDb'[c] = <<>> /\ toCore'[c] = <<>>
                        /\ c \notin cores => toDb'[c] = toDb[c] /\ toCore'[c] = toCore[c]
    BY CutIs DEF Fault
  <1>2. \A d \in Core, x \in Pid : /\ Coming(d, x)' <=> Coming(d, x) /\ d \notin cores
                                   /\ Going(d, x)' <=> Going(d, x) /\ d \notin cores
                                   /\ Once(toCore'[d], Load(x)) /\ Once(toDb'[d], Goodbye(x))
    <2> SUFFICES ASSUME NEW d \in Core, NEW x \in Pid
                 PROVE  /\ Coming(d, x)' <=> Coming(d, x) /\ d \notin cores
                        /\ Going(d, x)' <=> Going(d, x) /\ d \notin cores
                        /\ Once(toCore'[d], Load(x)) /\ Once(toDb'[d], Goodbye(x))
      OBVIOUS
    <2>1. CASE d \in cores BY <1>1, <2>1, Nothing DEF Coming, Going
    <2>2. CASE d \notin cores BY <1>1, <2>2 DEF Coming, Going, PlaceInv, PlaceOnce
    <2> QED BY <2>1, <2>2
  <1>3. cores \in SUBSET Core BY DEF Fault
  <1>4. \A x \in Pid : x \in Moving(cores) <=> \E c \in cores : Coming(c, x) \/ Going(c, x)
    BY DEF Moving, Coming, Going, Load, Goodbye
  <1>5. /\ \A d \in Core, x \in Pid : /\ x \in loading'[d] => x \in loading[d]
                                      /\ x \in in'[d] => x \in in[d]
        /\ \A d \in Core, x \in Pid : On(d, x)' => x \in locked'
    <2>1. CASE UNCHANGED players /\ locked' = locked \ Moving(cores)
      <3>1. ASSUME NEW d \in Core, NEW x \in Pid, On(d, x)' PROVE x \in locked'
        <4>1. At(d, x)' <=> At(d, x) BY <2>1 DEF At, players
        <4>2. On(d, x) BY <1>2, <3>1, <4>1 DEF On
        <4>3. x \in locked BY <4>2 DEF PlaceInv, PlaceLocked
        <4>4. ASSUME NEW c \in cores, Coming(c, x) \/ Going(c, x) PROVE FALSE
          <5>1. c = d BY <1>3, <4>2, <4>4 DEF PlaceInv, PlaceOne, On
          <5>2. At(d, x) BY <1>2, <3>1, <4>1, <4>4, <5>1 DEF On
          <5> QED BY <4>4, <5>1, <5>2 DEF PlaceInv, PlaceApart
        <4> QED BY <1>4, <2>1, <4>3, <4>4
      <3> QED BY <2>1, <3>1 DEF players
    <2>2. ASSUME NEW c \in Core, CoreCrash(c), cores = {c}
          PROVE  /\ \A d \in Core, x \in Pid : /\ x \in loading'[d] => x \in loading[d]
                                               /\ x \in in'[d] => x \in in[d]
                 /\ \A d \in Core, x \in Pid : On(d, x)' => x \in locked'
      <3>1. /\ loading' = [loading EXCEPT ![c] = {}] /\ in' = [in EXCEPT ![c] = {}]
            /\ locked' = locked \ (Moving({c}) \cup loading[c] \cup in[c])
        BY <2>2 DEF CoreCrash
      <3>2. \A d \in Core, x \in Pid : /\ x \in loading'[d] <=> x \in loading[d] /\ d # c
                                       /\ x \in in'[d] <=> x \in in[d] /\ d # c
        BY <3>1 DEF TypeInv, CoreType
      <3>3. ASSUME NEW d \in Core, NEW x \in Pid, On(d, x)' PROVE x \in locked'
        <4>1. d # c /\ On(d, x) BY <1>2, <2>2, <3>2, <3>3 DEF On, At
        <4>2. ~On(c, x) /\ x \in locked BY <4>1 DEF PlaceInv, PlaceOne, PlaceLocked
        <4> QED BY <1>4, <2>2, <3>1, <4>2 DEF On, At
      <3> QED BY <3>2, <3>3
    <2> QED BY <2>1, <2>2
  <1>6. \A d \in Core, x \in Pid : (At(d, x)' => At(d, x)) /\ (On(d, x)' => On(d, x))
    BY <1>2, <1>5 DEF At, On
  <1>7. PlaceLocked' BY <1>5 DEF PlaceLocked
  <1>8. PlaceOne' BY <1>6 DEF PlaceInv, PlaceOne
  <1>9. PlaceApart' BY <1>2, <1>5, <1>6 DEF PlaceInv, PlaceApart
  <1>10. PlaceOnce' BY <1>2 DEF PlaceOnce
  <1> QED BY <1>6, <1>7, <1>8, <1>9, <1>10 DEF PlaceInv

\* A party is made, or none.
LEMMA LeadersNext ==
    ASSUME [Next]_vars
    PROVE  leaders' = leaders \/ \E a \in Pid : leaders' = Append(leaders, a)
  <1>1. CASE UNCHANGED vars BY <1>1 DEF vars, history
  <1>2. CASE DaemonRestart BY <1>2 DEF DaemonRestart, Cut
  <1>3. ASSUME NEW c \in Core, Step(c)
        PROVE  leaders' = leaders \/ \E a \in Pid : leaders' = Append(leaders, a)
    <2>1. ASSUME NEW p \in Pid, NEW q \in Pid, InviteAccept(c, p, q)
          PROVE  leaders' = leaders \/ \E a \in Pid : leaders' = Append(leaders, a)
      BY <2>1 DEF InviteAccept, Undefined
    <2>2. ASSUME NEW p \in Pid, NEW q \in Pid, PartyRemove(c, p, q) PROVE leaders' = leaders
      BY <2>2 DEF PartyRemove
    <2>3. ASSUME NEW p \in Pid,
                 \/ Ungroup(c, p) \/ LevelUp(c, p) \/ Login(c, p) \/ EnterGame(c, p) \/ Logout(c, p)
          PROVE  leaders' = leaders
      BY <2>3 DEF Ungroup, LevelUp, Login, EnterGame, Logout, history
    <2>4. DaemonReads(c) => leaders' = leaders
      BY DEF DaemonReads, QUERY_PARTY_CREATE, QUERY_PARTY_DELETE, QUERY_PARTY_ADD,
             QUERY_PARTY_REMOVE, QUERY_PARTY_SET_MEMBER_LEVEL, QUERY_LOGOUT, QUERY_SETUP, Handle
    <2>5. CoreReads(c) => leaders' = leaders
      BY DEF CoreReads, P2PCreateParty, P2PJoinParty, P2PQuitParty, P2PDeleteParty,
             PartySetMemberLevel, PlayerLoad, Receive
    <2>6. LinkDrops(c) \/ CoreCrash(c) \/ Reconnect(c) => leaders' = leaders
      BY DEF LinkDrops, CoreCrash, Reconnect, Cut, history
    <2> QED BY <1>3, <2>1, <2>2, <2>3, <2>4, <2>5, <2>6 DEF Step
  <1> QED BY <1>1, <1>2, <1>3 DEF Next

LEMMA PlaceNext ==
    ASSUME TypeInv, PeerInv, PlaceInv, [Next]_vars
    PROVE  PlaceInv'
  <1>0. Kinds BY TypeNext
  <1>1. ASSUME NEW c \in Core, NEW s, Worked(c, s) PROVE PlaceInv'
    <2>1. UNCHANGED <<players, locked>> BY <1>1 DEF Worked, daemon
    <2>2. leaders' = leaders \/ \E a \in Pid : leaders' = Append(leaders, a) BY LeadersNext
    <2>3. StillQueues BY <1>1, <2>2, WorkStill
    <2> QED BY <2>1, <2>3, PlaceStill
  <1>2. ASSUME NEW c \in Core, NEW to, Filing(c, to) PROVE PlaceInv'
    <2>1. UNCHANGED <<players, locked>> BY <1>2 DEF Filing
    <2> QED BY <1>2, <2>1, FilingStill, PlaceStill
  <1>3. ASSUME NEW c \in Core, QUERY_SETUP(c) PROVE PlaceInv'
    <2>1. UNCHANGED <<players, locked>> BY <1>3 DEF QUERY_SETUP, Handle
    <2> QED BY <1>3, <2>1, SetupStill, PlaceStill
  <1>4. ASSUME NEW c \in Core, Reconnect(c) PROVE PlaceInv'
    <2>1. UNCHANGED <<players, locked>> BY <1>4 DEF Reconnect, daemon
    <2> QED BY <1>4, <2>1, ReconnectStill, PlaceStill
  <1>5. ASSUME NEW c \in Core, LinkDrops(c) PROVE PlaceInv'
    <2>1. UNCHANGED players /\ locked' = locked \ Moving({c}) BY <1>5 DEF LinkDrops
    <2> QED BY <1>5, <2>1, FaultShape, PlaceFault
  <1>6. ASSUME NEW c \in Core, CoreCrash(c) PROVE PlaceInv'
    BY <1>6, FaultShape, PlaceFault
  <1>7. ASSUME DaemonRestart PROVE PlaceInv'
    <2>1. UNCHANGED players /\ locked' = locked \ Moving(Core) BY <1>7 DEF DaemonRestart
    <2> QED BY <1>7, <2>1, FaultShape, PlaceFault
  <1>8. ASSUME UNCHANGED vars PROVE PlaceInv'
    BY <1>8 DEF PlaceInv, PlaceLocked, PlaceOne, PlaceApart, PlaceOnce, On, At, Coming, Going,
                vars, daemon, players, net
  <1> HIDE DEF PlaceInv
  <1> QED BY <1>0, <1>1, <1>2, <1>3, <1>4, <1>5, <1>6, <1>7, <1>8,
             PlaceLoggedOut, PlaceLoad, PlaceLogin, PlaceEnter, PlaceLogout DEF Kinds

-----------------------------------------------------------------------------
(* SETUP is the first thing a core says *)

NoSetup(q) == \A i \in 1 .. Len(q) : q[i].op # "setup"
SetupFirst(q) == \A i \in 1 .. Len(q) : q[i].op = "setup" => i = 1
Greets(q) == q # <<>> /\ q[1].op = "setup"

LEMMA GreetConcat ==
    ASSUME NEW S, NEW q \in Seq(S), NEW s \in Seq(S), NoSetup(s)
    PROVE  /\ NoSetup(q) => NoSetup(q \o s)
           /\ SetupFirst(q) => SetupFirst(q \o s)
           /\ Greets(q) => Greets(q \o s)
  <1> DEFINE r == q \o s
  <1>1. /\ r \in Seq(S) /\ Len(q) \in Nat /\ Len(s) \in Nat /\ Len(r) = Len(q) + Len(s)
        /\ \A i \in 1 .. Len(r) : i > Len(q) => i - Len(q) \in 1 .. Len(s) /\ r[i] = s[i - Len(q)]
        /\ \A i \in 1 .. Len(q) : r[i] = q[i]
        /\ \A i \in 1 .. Len(r) : ~ i > Len(q) => i \in 1 .. Len(q)
    BY ConcatIs
  <1> HIDE DEF r
  <1>2. \A i \in 1 .. Len(r) : i > Len(q) => r[i].op # "setup" BY <1>1 DEF NoSetup
  <1>3. NoSetup(q) => NoSetup(r) BY <1>1, <1>2 DEF NoSetup
  <1>4. SetupFirst(q) => SetupFirst(r) BY <1>1, <1>2 DEF SetupFirst
  <1>5. Greets(q) => Greets(r)
    <2> SUFFICES ASSUME Greets(q) PROVE Greets(r) OBVIOUS
    <2>1. Len(q) > 0 BY DEF Greets
    <2>2. 1 \in 1 .. Len(q) /\ Len(r) > 0 BY <1>1, <2>1
    <2>3. r[1] = q[1] /\ r # <<>> BY <1>1, <2>2
    <2> QED BY <2>3 DEF Greets
  <1> QED BY <1>3, <1>4, <1>5 DEF r

LEMMA GreetTail ==
    ASSUME NEW S, NEW q \in Seq(S), q # <<>>
    PROVE  /\ SetupFirst(q) => NoSetup(Tail(q))
           /\ Head(q) = q[1]
  <1> DEFINE t == Tail(q)
  <1>1. /\ t \in Seq(S) /\ Len(q) \in Nat /\ Len(t) = Len(q) - 1 /\ Head(q) = q[1]
        /\ \A i \in 1 .. Len(t) : i + 1 \in 1 .. Len(q) /\ t[i] = q[i + 1]
    BY TailIs
  <1> HIDE DEF t
  <1>2. ASSUME SetupFirst(q), NEW i \in 1 .. Len(t), t[i].op = "setup" PROVE FALSE
    <2>1. i + 1 = 1 BY <1>1, <1>2 DEF SetupFirst
    <2> QED BY <2>1
  <1>3. SetupFirst(q) => NoSetup(t) BY <1>2 DEF NoSetup
  <1> QED BY <1>1, <1>3 DEF t

\* What the kinds of steps do to the queue of a core to the daemon.
Grew(c, s) ==
    /\ s \in Seq(DbPack(leaders')) /\ toDb'[c] = toDb[c] \o s
    /\ \/ Said(c, s) /\ in[c] \subseteq in'[c]
       \/ \E p \in Pid : s = <<Goodbye(p)>> /\ in'[c] = in[c] \ {p}
Shrank(c) == /\ toDb[c] # <<>> /\ toDb'[c] = Tail(toDb[c])
             /\ in'[c] = in[c] /\ leaders' = leaders
Emptied(c) == \A i \in 1 .. Len(toDb'[c]) : toDb'[c][i].op \notin PartyOp

LEMMA SendGrew ==
    ASSUME TypeInv, NEW c \in Core, NEW s \in Seq(DbPack(leaders')), Send(c, s), Said(c, s),
           \A d \in Core : in[d] \subseteq in'[d],
           leaders' = leaders \/ \E a \in Pid : leaders' = Append(leaders, a)
    PROVE  \A d \in Core : \E t : Grew(d, t) /\ NoSetup(t)
                                  /\ (t = <<>> \/ (d = c /\ t = s /\ up[c]))
  <1> DEFINE L == DbPack(leaders')
  <1>1. toDb \in [Core -> Seq(L)]
    <2>1. toDb \in [Core -> Seq(DbPack(leaders))] /\ leaders \in Seq(Pid)
      BY DEF TypeInv, NetType, HistoryType
    <2>2. DbPack(leaders) \subseteq L
      <3>1. CASE leaders' = leaders BY <3>1
      <3>2. CASE \E a \in Pid : leaders' = Append(leaders, a) BY <2>1, <3>2, Grown
      <3> QED BY <3>1, <3>2
    <2> QED BY <2>1, <2>2
  <1>2. s \in Seq(L) OBVIOUS
  <1> SUFFICES ASSUME NEW d \in Core
               PROVE  \E t : Grew(d, t) /\ NoSetup(t) /\ (t = <<>> \/ (d = c /\ t = s /\ up[c]))
    OBVIOUS
  <1>3. CASE d = c /\ up[c]
    <2>1. toDb'[d] = toDb[d] \o s
      <3> HIDE DEF L
      <3> QED BY <1>1, <1>2, <1>3, SendIs
    <2>2. NoSetup(s) BY DEF Said, NoSetup, PartyOp
    <2>3. Grew(d, s) BY <1>3, <2>1 DEF Grew
    <2> QED BY <1>3, <2>2, <2>3
  <1>4. CASE ~(d = c /\ up[c])
    <2>1. toDb'[d] = toDb[d] /\ toDb[d] \in Seq(L)
      <3> HIDE DEF L
      <3> QED BY <1>1, <1>2, <1>4, SendIs
    <2>2. <<>> \in Seq(L) /\ Len(<<>>) = 0 /\ toDb[d] \o <<>> = toDb[d]
      <3> HIDE DEF L
      <3> QED BY <2>1
    <2>3. Said(d, <<>>) /\ NoSetup(<<>>) BY <2>2 DEF Said, NoSetup
    <2>4. Grew(d, <<>>) BY <2>1, <2>2, <2>3 DEF Grew
    <2> QED BY <2>3, <2>4
  <1> QED BY <1>3, <1>4

LEMMA StayedGrew ==
    ASSUME TypeInv, NEW c \in Core, toDb'[c] = toDb[c], in'[c] = in[c], leaders' = leaders
    PROVE  Grew(c, <<>>) /\ NoSetup(<<>>)
  <1> DEFINE L == DbPack(leaders')
  <1>1. toDb[c] \in Seq(L) BY DEF TypeInv, NetType
  <1>2. <<>> \in Seq(L) /\ Len(<<>>) = 0 /\ toDb[c] \o <<>> = toDb[c]
    <2> HIDE DEF L
    <2> QED BY <1>1
  <1>3. Said(c, <<>>) /\ NoSetup(<<>>) BY <1>2 DEF Said, NoSetup
  <1> QED BY <1>2, <1>3 DEF Grew

LEMMA ReadShrank ==
    ASSUME TypeInv, NEW c \in Core, Read(toDb, toDb', c), in' = in, leaders' = leaders
    PROVE  \A d \in Core : IF d = c THEN Shrank(d) ELSE Grew(d, <<>>) /\ NoSetup(<<>>)
  <1>1. toDb[c] # <<>> /\ toDb'[c] = Tail(toDb[c]) /\ \A d \in Core : d # c => toDb'[d] = toDb[d]
    BY DEF Read, TypeInv, NetType
  <1> QED BY <1>1, StayedGrew DEF Shrank

\* What each step does to the queues to the daemon.
LEMMA DbSteps ==
    ASSUME TypeInv, PeerInv, [Next]_vars
    PROVE  \A d \in Core : Emptied(d) \/ Shrank(d) \/ \E s : Grew(d, s)
  <1>0. Kinds /\ (leaders' = leaders \/ \E a \in Pid : leaders' = Append(leaders, a))
    BY TypeNext, LeadersNext
  <1>1. ASSUME NEW c \in Core, NEW s, Worked(c, s)
        PROVE  \A d \in Core : Emptied(d) \/ Shrank(d) \/ \E t : Grew(d, t)
    <2>1. s \in Seq(DbPack(leaders')) /\ Send(c, s) /\ Said(c, s) BY <1>1 DEF Worked
    <2>2. \A d \in Core : in[d] \subseteq in'[d] BY <1>1 DEF Worked, players
    <2> QED BY <1>0, <2>1, <2>2, SendGrew
  <1>2. ASSUME NEW c \in Core, NEW to, Filing(c, to)
        PROVE  \A d \in Core : Emptied(d) \/ Shrank(d) \/ \E t : Grew(d, t)
    BY <1>2, ReadShrank DEF Filing, players
  <1>3. ASSUME NEW c \in Core, QUERY_LOGOUT(c) \/ QUERY_SETUP(c)
        PROVE  \A d \in Core : Emptied(d) \/ Shrank(d) \/ \E t : Grew(d, t)
    <2>1. Read(toDb, toDb', c) /\ UNCHANGED <<players, leaders>>
      BY <1>3, HandleIs DEF QUERY_LOGOUT, QUERY_SETUP
    <2> QED BY <2>1, ReadShrank DEF players
  <1>4. ASSUME NEW c \in Core, PlayerLoad(c)
        PROVE  \A d \in Core : Emptied(d) \/ Shrank(d) \/ \E t : Grew(d, t)
    BY <1>4, StayedGrew DEF PlayerLoad, Receive
  <1>5. ASSUME NEW c \in Core, NEW p \in Pid, Login(c, p)
        PROVE  \A d \in Core : Emptied(d) \/ Shrank(d) \/ \E t : Grew(d, t)
    BY <1>5, StayedGrew DEF Login, players, history
  <1>6. ASSUME NEW c \in Core, NEW p \in Pid, EnterGame(c, p)
        PROVE  \A d \in Core : Emptied(d) \/ Shrank(d) \/ \E t : Grew(d, t)
    <2>1. leaders' = leaders BY <1>6 DEF EnterGame, history
    <2>2. PICK s \in Seq(DbPack(leaders)) :
             Send(c, s) /\ \A i \in 1 .. Len(s) : s[i].op = "level" /\ s[i].no = of[c][p]
      BY <1>6, EnterGameShape
    <2>3. Said(c, s) BY <2>2 DEF Said, PartyOp, Has
    <2>4. \A d \in Core : in[d] \subseteq in'[d] BY <1>6 DEF EnterGame, TypeInv, CoreType
    <2> QED BY <2>1, <2>2, <2>3, <2>4, SendGrew
  <1>7. ASSUME NEW c \in Core, NEW p \in Pid, Logout(c, p)
        PROVE  \A d \in Core : Emptied(d) \/ Shrank(d) \/ \E t : Grew(d, t)
    <2> DEFINE L == DbPack(leaders)
    <2>1. Send(c, <<Goodbye(p)>>) /\ <<Goodbye(p)>> \in Seq(L) BY <1>7, LogoutTypes
    <2>2. toDb \in [Core -> Seq(L)] BY DEF TypeInv, NetType
    <2>3. leaders' = leaders /\ in' = [in EXCEPT ![c] = @ \ {p}] BY <1>7 DEF Logout
    <2>4. in'[c] = in[c] \ {p} /\ \A d \in Core : d # c => in'[d] = in[d]
      BY <2>3 DEF TypeInv, CoreType
    <2> SUFFICES ASSUME NEW d \in Core PROVE Emptied(d) \/ \E t : Grew(d, t) OBVIOUS
    <2>5. CASE d # c
      <3>1. toDb'[d] = toDb[d]
        <4> HIDE DEF L
        <4> QED BY <2>1, <2>2, <2>5, SendIs
      <3> QED BY <2>3, <2>4, <2>5, <3>1, StayedGrew
    <2>6. CASE d = c /\ up[c]
      <3>1. toDb'[c] = toDb[c] \o <<Goodbye(p)>>
        <4> HIDE DEF L
        <4> QED BY <2>1, <2>2, <2>6, SendIs
      <3>2. Grew(c, <<Goodbye(p)>>) BY <2>1, <2>3, <2>4, <3>1 DEF Grew
      <3> QED BY <2>6, <3>2
    <2>7. CASE d = c /\ ~up[c]
      <3>1. toDb'[c] = toDb[c]
        <4> HIDE DEF L
        <4> QED BY <2>1, <2>2, <2>7, SendIs
      <3>2. Len(toDb'[c]) = 0 BY <2>7, <3>1 DEF PeerInv
      <3> QED BY <2>7, <3>2 DEF Emptied
    <2> QED BY <2>5, <2>6, <2>7
  <1>8. ASSUME NEW cores, Fault(cores)
        PROVE  \A d \in Core : d \in cores => Emptied(d)
    <2>1. \A d \in Core : d \in cores => toDb'[d] = <<>> BY <1>8, CutIs DEF Fault
    <2> QED BY <2>1 DEF Emptied
  <1>9. ASSUME NEW cores, Fault(cores), \A d \in Core : d \notin cores => in'[d] = in[d]
        PROVE  \A d \in Core : Emptied(d) \/ Shrank(d) \/ \E t : Grew(d, t)
    <2>1. leaders' = leaders /\ \A d \in Core : d \notin cores => toDb'[d] = toDb[d]
      BY <1>9, CutIs DEF Fault
    <2> QED BY <1>8, <1>9, <2>1, StayedGrew
  <1>10. ASSUME NEW c \in Core, LinkDrops(c) \/ CoreCrash(c)
         PROVE  \A d \in Core : Emptied(d) \/ Shrank(d) \/ \E t : Grew(d, t)
    <2>1. \A d \in Core : d \notin {c} => in'[d] = in[d]
      BY <1>10 DEF LinkDrops, CoreCrash, players, TypeInv, CoreType
    <2> QED BY <1>9, <1>10, <2>1, FaultShape
  <1>11. ASSUME DaemonRestart
         PROVE  \A d \in Core : Emptied(d) \/ Shrank(d) \/ \E t : Grew(d, t)
    BY <1>9, <1>11, FaultShape DEF DaemonRestart, players
  <1>12. ASSUME NEW c \in Core, Reconnect(c)
         PROVE  \A d \in Core : Emptied(d) \/ Shrank(d) \/ \E t : Grew(d, t)
    <2> DEFINE m == Packet("setup", 0, c)
    <2>1. /\ toDb'[c] = <<m>> /\ \A d \in Core : d # c => toDb'[d] = toDb[d]
          /\ UNCHANGED <<players, history>>
      BY <1>12, ReconnectTypes DEF m
    <2>2. Emptied(c)
      <3>1. m.op \notin PartyOp BY DEF Packet, PartyOp
      <3> HIDE DEF m
      <3>2. Len(<<m>>) = 1 /\ <<m>>[1] = m /\ \A i \in 1 .. Len(<<m>>) : i = 1 OBVIOUS
      <3> QED BY <2>1, <3>1, <3>2 DEF Emptied
    <2> HIDE DEF m
    <2> QED BY <2>1, <2>2, StayedGrew DEF players, history
  <1>13. ASSUME UNCHANGED vars
         PROVE  \A d \in Core : Emptied(d) \/ Shrank(d) \/ \E t : Grew(d, t)
    BY <1>13, StayedGrew DEF vars, net, players, history
  <1> QED BY <1>0, <1>1, <1>2, <1>3, <1>4, <1>5, <1>6, <1>7, <1>10, <1>11, <1>12, <1>13 DEF Kinds

PeerQueue(c) ==
    /\ ~up[c] => c \notin peer /\ toDb[c] = <<>>
    /\ SetupFirst(toDb[c]) /\ (c \in peer => NoSetup(toDb[c]))
    /\ c \notin peer /\ up[c] => Greets(toDb[c])
PeerHere(c) ==
    c \notin peer => toCore[c] = <<>> /\ \A p \in Pid : At(c, p) => p \in stranded

LEMMA PeerParts ==
    /\ PeerInv <=> \A c \in Core : PeerQueue(c) /\ PeerHere(c)
    /\ PeerInv' <=> \A c \in Core : PeerQueue(c)' /\ PeerHere(c)'
  BY DEF PeerInv, PeerQueue, PeerHere, SetupFirst, NoSetup, Greets

LEMMA PeerGrew ==
    ASSUME TypeInv, NEW c \in Core, PeerQueue(c), NEW s, Grew(c, s), NoSetup(s), s = <<>> \/ up[c],
           up'[c] = up[c], c \in peer' <=> c \in peer,
           leaders' = leaders \/ \E a \in Pid : leaders' = Append(leaders, a)
    PROVE  PeerQueue(c)'
  <1> DEFINE L == DbPack(leaders')
  <1>1. toDb[c] \in Seq(L) /\ s \in Seq(L) /\ toDb'[c] = toDb[c] \o s
    <2>1. toDb \in [Core -> Seq(DbPack(leaders))] /\ leaders \in Seq(Pid)
      BY DEF TypeInv, NetType, HistoryType
    <2>2. DbPack(leaders) \subseteq L
      <3>1. CASE leaders' = leaders BY <3>1
      <3>2. CASE \E a \in Pid : leaders' = Append(leaders, a) BY <2>1, <3>2, Grown
      <3> QED BY <3>1, <3>2
    <2> QED BY <2>1, <2>2 DEF Grew
  <1> HIDE DEF L
  <1>2. /\ NoSetup(toDb[c]) => NoSetup(toDb'[c])
        /\ SetupFirst(toDb[c]) => SetupFirst(toDb'[c])
        /\ Greets(toDb[c]) => Greets(toDb'[c])
    BY <1>1, GreetConcat
  <1>3. s = <<>> => toDb'[c] = toDb[c] BY <1>1
  <1> QED BY <1>2, <1>3 DEF PeerQueue

LEMMA PeerShrank ==
    ASSUME TypeInv, NEW c \in Core, PeerQueue(c), Shrank(c), up'[c] = up[c],
           c \in peer' <=> c \in peer \/ Head(toDb[c]).op = "setup"
    PROVE  PeerQueue(c)'
  <1> DEFINE L == DbPack(leaders)
  <1>1. toDb[c] \in Seq(L) BY DEF TypeInv, NetType
  <1> HIDE DEF L
  <1>2. toDb[c] # <<>> /\ toDb'[c] = Tail(toDb[c]) BY DEF Shrank
  <1>3. NoSetup(toDb'[c]) /\ Head(toDb[c]) = toDb[c][1] BY <1>1, <1>2, GreetTail DEF PeerQueue
  <1>4. SetupFirst(toDb'[c]) BY <1>3 DEF NoSetup, SetupFirst
  <1>5. c \notin peer' => ~up[c] BY <1>3 DEF PeerQueue, Greets
  <1> QED BY <1>2, <1>3, <1>4, <1>5 DEF PeerQueue

LEMMA PeerNext ==
    ASSUME TypeInv, PeerInv, PlaceInv, [Next]_vars
    PROVE  PeerInv'
  <1> USE PeerParts
  <1>0. Kinds /\ (leaders' = leaders \/ \E a \in Pid : leaders' = Append(leaders, a))
    BY TypeNext, LeadersNext
  <1>q. \A d \in Core : PeerQueue(d) /\ PeerHere(d) OBVIOUS
  <1>1. ASSUME NEW c \in Core, NEW s, Worked(c, s) PROVE PeerInv'
    <2>1. /\ s \in Seq(DbPack(leaders')) /\ Send(c, s) /\ Said(c, s)
          /\ UNCHANGED <<daemon, players, up, stranded>>
      BY <1>1 DEF Worked
    <2>2. \A d \in Core : in[d] \subseteq in'[d] BY <1>1 DEF Worked, players
    <2>3. \A d \in Core : \E t : Grew(d, t) /\ NoSetup(t)
                                 /\ (t = <<>> \/ (d = c /\ t = s /\ up[c]))
      BY <1>0, <2>1, <2>2, SendGrew
    <2>4. \A d \in Core : PeerQueue(d)' BY <1>0, <1>q, <2>1, <2>3, PeerGrew DEF daemon
    <2>5. \A d \in Core : toCore[d] = <<>> => toCore'[d] = <<>>
      BY <1>1 DEF Worked, Read, TypeInv, NetType
    <2>6. \A d \in Core : PeerHere(d)' BY <1>q, <2>1, <2>5 DEF PeerHere, At, players, daemon
    <2> QED BY <2>4, <2>6
  <1>2. ASSUME NEW c \in Core, Read(toDb, toDb', c), Head(toDb[c]).op # "setup",
               UNCHANGED <<players, leaders, up, peer, stranded>>,
               \A d \in Core : d \notin peer => toCore'[d] = toCore[d]
        PROVE  PeerInv'
    <2>1. \A d \in Core : IF d = c THEN Shrank(d) ELSE Grew(d, <<>>) /\ NoSetup(<<>>)
      BY <1>2, ReadShrank DEF players
    <2>2. \A d \in Core : PeerQueue(d)' BY <1>0, <1>2, <1>q, <2>1, PeerGrew, PeerShrank
    <2>3. \A d \in Core : PeerHere(d)' BY <1>2, <1>q DEF PeerHere, At, players
    <2> QED BY <2>2, <2>3
  <1>3. ASSUME NEW c \in Core, NEW to, Filing(c, to) PROVE PeerInv'
    <2>1. /\ Read(toDb, toDb', c) /\ Head(toDb[c]).op \in PartyOp
          /\ UNCHANGED <<players, leaders, up, peer, stranded>>
      BY <1>3 DEF Filing
    <2>2. Head(toDb[c]).op # "setup" BY <2>1 DEF PartyOp
    <2>3. \A d \in Core : d \notin peer => toCore'[d] = toCore[d]
      <3>1. CASE toCore' = toCore BY <3>1
      <3>2. CASE Forward(to, Head(toDb[c])) /\ to \subseteq peer BY <3>2 DEF Forward
      <3> QED BY <1>3, <3>1, <3>2 DEF Filing
    <2> QED BY <1>2, <2>1, <2>2, <2>3
  <1>4. ASSUME NEW c \in Core, QUERY_LOGOUT(c) PROVE PeerInv'
    <2>1. Handle(c, "logout") /\ UNCHANGED <<peer, toCore>> BY <1>4 DEF QUERY_LOGOUT
    <2>2. /\ Read(toDb, toDb', c) /\ Head(toDb[c]).op = "logout"
          /\ UNCHANGED <<players, leaders, up, stranded>>
      BY <2>1, HandleIs
    <2> QED BY <1>2, <2>1, <2>2
  <1>5. ASSUME NEW c \in Core, QUERY_SETUP(c) PROVE PeerInv'
    <2>1. Handle(c, "setup") /\ peer' = peer \cup {c} BY <1>5 DEF QUERY_SETUP
    <2>2. /\ Read(toDb, toDb', c) /\ Head(toDb[c]).op = "setup"
          /\ UNCHANGED <<players, leaders, up, stranded>>
      BY <2>1, HandleIs
    <2>3. \A d \in Core : IF d = c THEN Shrank(d) ELSE Grew(d, <<>>) /\ NoSetup(<<>>)
      BY <2>2, ReadShrank DEF players
    <2>4. \A d \in Core : PeerQueue(d)' BY <1>0, <1>q, <2>1, <2>2, <2>3, PeerGrew, PeerShrank
    <2>5. \A d \in Core : d # c => toCore'[d] = toCore[d] BY <1>5, SetupShape
    <2>6. \A d \in Core : PeerHere(d)' BY <1>q, <2>1, <2>2, <2>5 DEF PeerHere, At, players
    <2> QED BY <2>4, <2>6
  <1>6. ASSUME UNCHANGED <<in, leaders, up, peer, toDb>>, \A d \in Core : PeerHere(d)' PROVE PeerInv'
    <2>1. \A d \in Core : Grew(d, <<>>) /\ NoSetup(<<>>) BY <1>6, StayedGrew
    <2>2. \A d \in Core : PeerQueue(d)' BY <1>0, <1>6, <1>q, <2>1, PeerGrew
    <2> QED BY <1>6, <2>2
  <1>7. ASSUME NEW c \in Core, PlayerLoad(c) PROVE PeerInv'
    <2>1. UNCHANGED <<in, leaders, up, peer, toDb, stranded>>
      BY <1>7 DEF PlayerLoad, Receive, daemon
    <2>2. /\ Read(toCore, toCore', c)
          /\ \A d \in Core, x \in Pid : At(d, x)' => At(d, x) \/ d = c
      BY <1>7, PlaceLoad
    <2>3. c \in peer BY <1>q, <2>2 DEF PeerHere, Read
    <2>4. \A d \in Core : d # c => toCore'[d] = toCore[d] BY <2>2 DEF Read, TypeInv, NetType
    <2>5. \A d \in Core : PeerHere(d)' BY <1>q, <2>1, <2>2, <2>3, <2>4 DEF PeerHere
    <2> QED BY <1>6, <2>1, <2>5
  <1>8. ASSUME NEW c \in Core, NEW p \in Pid, Login(c, p) PROVE PeerInv'
    <2>1. /\ UNCHANGED <<players, leaders, up, peer, toDb, stranded>> /\ c \in peer
          /\ Forward({c}, Load(p))
      BY <1>8 DEF Login, history, Load
    <2>2. \A d \in Core : d # c => toCore'[d] = toCore[d] BY <2>1 DEF Forward
    <2>3. \A d \in Core : PeerHere(d)' BY <1>q, <2>1, <2>2 DEF PeerHere, At, players
    <2> QED BY <1>6, <2>1, <2>3 DEF players
  <1>9. ASSUME NEW c \in Core, NEW p \in Pid, EnterGame(c, p) PROVE PeerInv'
    <2>1. /\ UNCHANGED <<leaders, up, peer, toCore, stranded>> /\ p \in loading[c]
      BY <1>9 DEF EnterGame, history, daemon
    <2>2. PICK s \in Seq(DbPack(leaders)) :
             Send(c, s) /\ \A i \in 1 .. Len(s) : s[i].op = "level" /\ s[i].no = of[c][p]
      BY <1>9, EnterGameShape
    <2>3. Said(c, s) BY <2>2 DEF Said, PartyOp, Has
    <2>4. \A d \in Core : in[d] \subseteq in'[d] BY <1>9 DEF EnterGame, TypeInv, CoreType
    <2>5. \A d \in Core : \E t : Grew(d, t) /\ NoSetup(t)
                                 /\ (t = <<>> \/ (d = c /\ t = s /\ up[c]))
      BY <1>0, <2>1, <2>2, <2>3, <2>4, SendGrew
    <2>6. \A d \in Core : PeerQueue(d)' BY <1>0, <1>q, <2>1, <2>5, PeerGrew
    <2>7. \A d \in Core, x \in Pid : At(d, x)' => At(d, x)
      BY <1>9 DEF EnterGame, TypeInv, CoreType, At
    <2>8. \A d \in Core : PeerHere(d)' BY <1>q, <2>1, <2>7 DEF PeerHere
    <2> QED BY <2>6, <2>8
  <1>10. ASSUME NEW c \in Core, NEW p \in Pid, Logout(c, p) PROVE PeerInv'
    <2> DEFINE L == DbPack(leaders)
               g == <<Goodbye(p)>>
    <2>1. /\ UNCHANGED <<leaders, up, peer, toCore>> /\ stranded' = stranded \ {p}
          /\ in' = [in EXCEPT ![c] = @ \ {p}]
      BY <1>10 DEF Logout
    <2>2. Send(c, g) /\ g \in Seq(L) BY <1>10, LogoutTypes
    <2>3. toDb \in [Core -> Seq(L)] BY DEF TypeInv, NetType
    <2>4. NoSetup(g)
      <3>1. Goodbye(p).op # "setup" BY DEF Goodbye, Packet
      <3>2. Len(g) = 1 /\ g[1] = Goodbye(p) /\ \A i \in 1 .. Len(g) : i = 1 OBVIOUS
      <3> HIDE DEF g
      <3> QED BY <3>1, <3>2 DEF NoSetup
    <2>5. ASSUME NEW d \in Core PROVE PeerQueue(d)'
      <3>1. CASE d = c /\ up[c]
        <4>1. toDb'[c] = toDb[c] \o g
          <5> HIDE DEF L, g
          <5> QED BY <2>2, <2>3, <3>1, SendIs
        <4>2. Grew(c, g) BY <2>1, <2>2, <4>1 DEF Grew, TypeInv, CoreType
        <4> HIDE DEF g, L
        <4> QED BY <1>0, <1>q, <2>1, <2>4, <3>1, <4>2, PeerGrew
      <3>2. CASE ~(d = c /\ up[c])
        <4>1. toDb'[d] = toDb[d]
          <5> HIDE DEF L, g
          <5> QED BY <2>2, <2>3, <3>2, SendIs
        <4> QED BY <1>q, <2>1, <4>1 DEF PeerQueue
      <3> QED BY <3>1, <3>2
    <2>6. At(c, p) /\ \A d \in Core, x \in Pid : At(d, x)' <=> At(d, x) /\ ~(d = c /\ x = p)
      BY <1>10, PlaceLogout
    <2>7. ASSUME NEW d \in Core, NEW x \in Pid, At(d, x)' PROVE At(d, x) /\ x # p
      BY <2>6, <2>7 DEF PlaceInv, PlaceOne, On
    <2>8. \A d \in Core : PeerHere(d)' BY <1>q, <2>1, <2>7 DEF PeerHere
    <2> QED BY <2>5, <2>8
  <1>11. ASSUME NEW cores, Fault(cores),
                \A d \in Core, x \in Pid : At(d, x)' /\ (d \in cores \/ x \in stranded) => x \in stranded',
                \A d \in Core, x \in Pid : At(d, x)' => At(d, x)
         PROVE  PeerInv'
    <2>1. /\ \A d \in Core : /\ d \in cores => ~up'[d] /\ toDb'[d] = <<>> /\ toCore'[d] = <<>>
                             /\ d \notin cores => /\ up'[d] = up[d] /\ toDb'[d] = toDb[d]
                                                  /\ toCore'[d] = toCore[d]
          /\ peer' = peer \ cores
      BY <1>11, CutIs DEF Fault
    <2>2. SetupFirst(<<>>) BY DEF SetupFirst
    <2>3. \A d \in Core : PeerQueue(d)' BY <1>q, <2>1, <2>2 DEF PeerQueue
    <2>4. \A d \in Core : PeerHere(d)' BY <1>11, <1>q, <2>1 DEF PeerHere
    <2> QED BY <2>3, <2>4
  <1>12. ASSUME NEW c \in Core, LinkDrops(c) PROVE PeerInv'
    <2>1. stranded' = stranded \cup loading[c] \cup in[c] /\ UNCHANGED players
      BY <1>12 DEF LinkDrops
    <2> QED BY <1>11, <1>12, <2>1, FaultShape DEF At, players
  <1>13. ASSUME NEW c \in Core, CoreCrash(c) PROVE PeerInv'
    <2>1. /\ loading' = [loading EXCEPT ![c] = {}] /\ in' = [in EXCEPT ![c] = {}]
          /\ stranded' = stranded \ (loading[c] \cup in[c])
      BY <1>13 DEF CoreCrash
    <2>2. \A d \in Core, x \in Pid : At(d, x)' => At(d, x) /\ d # c
      BY <2>1 DEF At, TypeInv, CoreType
    <2>3. \A d \in Core, x \in Pid : At(d, x)' => ~At(c, x) BY <2>2 DEF PlaceInv, PlaceOne, On
    <2>4. \A d \in Core, x \in Pid : At(d, x)' /\ (d \in {c} \/ x \in stranded) => x \in stranded'
      BY <2>1, <2>2, <2>3 DEF At
    <2> QED BY <1>11, <1>13, <2>2, <2>4, FaultShape
  <1>14. ASSUME DaemonRestart PROVE PeerInv'
    <2>1. stranded' = stranded \cup UNION {loading[c] \cup in[c] : c \in Core} /\ UNCHANGED players
      BY <1>14 DEF DaemonRestart
    <2>2. \A d \in Core, x \in Pid : At(d, x)' => At(d, x) BY <2>1 DEF At, players
    <2>3. \A d \in Core, x \in Pid : At(d, x) => x \in stranded' BY <2>1 DEF At
    <2> QED BY <1>11, <1>14, <2>2, <2>3, FaultShape
  <1>15. ASSUME NEW c \in Core, Reconnect(c) PROVE PeerInv'
    <2> DEFINE m == Packet("setup", 0, c)
    <2>1. /\ ~up[c] /\ up' = [up EXCEPT ![c] = TRUE] /\ toDb'[c] = <<m>>
          /\ \A d \in Core : d # c => toDb'[d] = toDb[d]
          /\ UNCHANGED <<daemon, players, toCore, history>>
      BY <1>15, ReconnectTypes DEF m
    <2>2. up'[c] /\ \A d \in Core : d # c => up'[d] = up[d] BY <2>1 DEF TypeInv, NetType
    <2>3. m.op = "setup" BY DEF Packet
    <2> HIDE DEF m
    <2>4. Len(<<m>>) = 1 /\ <<m>>[1] = m /\ <<m>> # <<>> /\ \A i \in 1 .. Len(<<m>>) : i = 1 OBVIOUS
    <2>5. SetupFirst(<<m>>) /\ Greets(<<m>>) BY <2>3, <2>4 DEF SetupFirst, Greets
    <2>6. c \notin peer' BY <1>q, <2>1 DEF PeerQueue, daemon
    <2>7. \A d \in Core : PeerQueue(d)'
      <3>1. PeerQueue(c)' BY <2>1, <2>2, <2>5, <2>6 DEF PeerQueue
      <3>2. \A d \in Core : d # c => PeerQueue(d)' BY <1>q, <2>1, <2>2 DEF PeerQueue, daemon
      <3> QED BY <3>1, <3>2
    <2>8. \A d \in Core : PeerHere(d)' BY <1>q, <2>1 DEF PeerHere, At, players, daemon, history
    <2> QED BY <2>7, <2>8
  <1>16. ASSUME UNCHANGED vars PROVE PeerInv'
    BY <1>16 DEF PeerInv, At, vars, daemon, players, net, history
  <1> HIDE DEF PeerInv
  <1> QED BY <1>0, <1>1, <1>3, <1>4, <1>5, <1>7, <1>8, <1>9, <1>10, <1>12, <1>13, <1>14, <1>15, <1>16
          DEF Kinds

-----------------------------------------------------------------------------
(* Who is told to be in a party is on the core that says so, or takes leave of it; and    *)
(* comes to the cores that are told later than the news                               *)

Tied(c, p, i) == p \in in[c] \/ After(toDb[c], i, Goodbye(p))
MadeInv ==
    \A c \in Core : \A i \in 1 .. Len(toDb[c]) :
       toDb[c][i].op \in {"create", "add"} =>
          Tied(c, toDb[c][i].pid, i) /\ Tied(c, leaders[toDb[c][i].no], i)

Ahead(c, p, i) == AllAfter(toCore[c], i, Load(p))
HereInv ==
    \A c \in Core : \A i \in 1 .. Len(toCore[c]) :
       LET p == toCore[c][i].pid
       IN toCore[c][i].op \in {"create", "add"} => Ahead(c, p, i) /\ (At(c, p) => p \in stranded)

LEMMA OldLeaders ==
    ASSUME TypeInv, [Next]_vars
    PROVE  /\ \A n \in Numbers : leaders'[n] = leaders[n] /\ n \in Numbers'
           /\ DbPack(leaders) \subseteq DbPack(leaders')
           /\ leaders' = leaders \/ leaders' \in Seq(Pid)
  <1>1. leaders \in Seq(Pid) BY DEF TypeInv, HistoryType
  <1>2. CASE leaders' = leaders BY <1>2 DEF Numbers
  <1>3. CASE \E a \in Pid : leaders' = Append(leaders, a)
    <2>1. PICK a \in Pid : leaders' = Append(leaders, a) BY <1>3
    <2>2. Len(leaders') = Len(leaders) + 1 /\ \A n \in Numbers : leaders'[n] = leaders[n]
      BY <1>1, <2>1, Grown DEF Numbers
    <2>3. \A n \in Numbers : n \in Numbers' BY <1>1, <2>2 DEF Numbers
    <2>4. DbPack(leaders) \subseteq DbPack(leaders') BY <1>1, <2>1, Grown
    <2>5. leaders' \in Seq(Pid) BY <1>1, <2>1
    <2> QED BY <2>2, <2>3, <2>4, <2>5
  <1> QED BY <1>2, <1>3, LeadersNext

\* A packet of a queue to the daemon is an old one or a new one.
LEMMA GrewIs ==
    ASSUME TypeInv, [Next]_vars, NEW c \in Core, NEW s, Grew(c, s)
    PROVE  LET q == toDb[c]
               r == toDb'[c]
           IN /\ q \in Seq(DbPack(leaders')) /\ s \in Seq(DbPack(leaders')) /\ r = q \o s
              /\ Len(q) \in Nat /\ Len(s) \in Nat /\ Len(r) = Len(q) + Len(s)
              /\ \A i \in 1 .. Len(q) : i \in 1 .. Len(r) /\ r[i] = q[i]
              /\ \A i \in 1 .. Len(s) : Len(q) + i \in 1 .. Len(r) /\ r[Len(q) + i] = s[i]
              /\ \A i \in 1 .. Len(r) : i \in 1 .. Len(q) \/
                    \E j \in 1 .. Len(s) : i = Len(q) + j
  <1> DEFINE L == DbPack(leaders')
             q == toDb[c]
             r == q \o s
  <1>1. s \in Seq(L) /\ toDb'[c] = r BY DEF Grew
  <1>2. q \in Seq(L)
    <2>1. q \in Seq(DbPack(leaders)) BY DEF TypeInv, NetType
    <2>2. DbPack(leaders) \subseteq L BY OldLeaders
    <2> QED BY <2>1, <2>2
  <1> HIDE DEF L, q, r
  <1>3. /\ r \in Seq(L) /\ Len(q) \in Nat /\ Len(s) \in Nat /\ Len(r) = Len(q) + Len(s)
        /\ \A i \in 1 .. Len(q) : i \in 1 .. Len(r) /\ r[i] = q[i]
        /\ \A i \in 1 .. Len(s) : Len(q) + i \in 1 .. Len(r) /\ r[Len(q) + i] = s[i]
        /\ \A i \in 1 .. Len(r) : i > Len(q) => i - Len(q) \in 1 .. Len(s) /\ r[i] = s[i - Len(q)]
        /\ \A i \in 1 .. Len(r) : ~ i > Len(q) => i \in 1 .. Len(q)
    BY <1>1, <1>2, ConcatIs DEF r
  <1>4. ASSUME NEW i \in 1 .. Len(r)
        PROVE  i \in 1 .. Len(q) \/ \E j \in 1 .. Len(s) : i = Len(q) + j
    <2>1. CASE i > Len(q)
      <3>1. i - Len(q) \in 1 .. Len(s) /\ i = Len(q) + (i - Len(q)) BY <1>3, <2>1
      <3> QED BY <3>1
    <2> QED BY <1>3, <2>1
  <1> QED BY <1>1, <1>2, <1>3, <1>4 DEF L, q, r

LEMMA TiedGrew ==
    ASSUME TypeInv, [Next]_vars, NEW c \in Core, NEW s, Grew(c, s), NEW p \in Pid,
           NEW i \in 1 .. Len(toDb[c]), Tied(c, p, i)
    PROVE  Tied(c, p, i)'
  <1> DEFINE L == DbPack(leaders')
             q == toDb[c]
  <1>1. q \in Seq(L) /\ s \in Seq(L) /\ toDb'[c] = q \o s /\ Len(q) \in Nat BY GrewIs
  <1> HIDE DEF L, q
  <1>2. i \in Nat /\ i <= Len(q) BY <1>1 DEF q
  <1>3. /\ After(q, i, Goodbye(p)) => After(q \o s, i, Goodbye(p))
        /\ Goodbye(p) \in ToSet(s) => After(q \o s, i, Goodbye(p))
    BY <1>1, <1>2, AfterConcat
  <1>4. p \in in[c] => p \in in'[c] \/ Goodbye(p) \in ToSet(s)
    <2>1. ASSUME NEW x \in Pid, s = <<Goodbye(x)>>, in'[c] = in[c] \ {x}, p \in in[c], p \notin in'[c]
          PROVE  Goodbye(p) \in ToSet(s)
      <3>1. x = p /\ Goodbye(x) = s[1] /\ 1 \in 1 .. Len(s) BY <2>1
      <3> QED BY <1>1, <3>1, SetIs
    <2> QED BY <2>1 DEF Grew
  <1> QED BY <1>1, <1>3, <1>4 DEF Tied, q

LEMMA TiedShrank ==
    ASSUME TypeInv, NEW c \in Core, Shrank(c), NEW p, NEW i \in Nat, Tied(c, p, i + 1)
    PROVE  Tied(c, p, i)'
  <1> DEFINE L == DbPack(leaders)
             q == toDb[c]
  <1>1. q \in Seq(L) /\ q # <<>> /\ toDb'[c] = Tail(q) /\ in'[c] = in[c]
    BY DEF TypeInv, NetType, Shrank
  <1> HIDE DEF L, q
  <1>2. After(q, i + 1, Goodbye(p)) => After(Tail(q), i, Goodbye(p)) BY <1>1, AfterTail
  <1> QED BY <1>1, <1>2 DEF Tied, q

LEMMA ShrankIs ==
    ASSUME TypeInv, NEW c \in Core, Shrank(c)
    PROVE  LET q == toDb[c]
               r == toDb'[c]
           IN /\ q \in Seq(DbPack(leaders)) /\ q # <<>> /\ Len(q) \in Nat /\ Len(r) = Len(q) - 1
              /\ 1 \in 1 .. Len(q) /\ Head(q) = q[1]
              /\ \A i \in 1 .. Len(r) : i + 1 \in 1 .. Len(q) /\ r[i] = q[i + 1]
              /\ \A i \in 1 .. Len(q) : i # 1 => i - 1 \in 1 .. Len(r) /\ r[i - 1] = q[i]
  <1> DEFINE L == DbPack(leaders)
             q == toDb[c]
  <1>1. q \in Seq(L) /\ q # <<>> /\ toDb'[c] = Tail(q) BY DEF TypeInv, NetType, Shrank
  <1> HIDE DEF L, q
  <1> QED BY <1>1, TailIs DEF L, q

LEMMA MadeNext ==
    ASSUME TypeInv, PeerInv, MadeInv, [Next]_vars
    PROVE  MadeInv'
  <1> SUFFICES ASSUME NEW c \in Core, NEW i \in 1 .. Len(toDb'[c]),
                      toDb'[c][i].op \in {"create", "add"},
                      NEW x, x = toDb'[c][i].pid \/ x = leaders'[toDb'[c][i].no]
               PROVE  Tied(c, x, i)'
    BY DEF MadeInv
  <1>1. toDb[c] \in Seq(DbPack(leaders)) /\ leaders \in Seq(Pid)
    BY DEF TypeInv, NetType, HistoryType
  <1>2. ASSUME NEW m \in DbPack(leaders), m.op \in {"create", "add"}
        PROVE  m.pid \in Pid /\ m.no \in Numbers /\ leaders[m.no] \in Pid /\ leaders'[m.no] = leaders[m.no]
    <2>1. m.pid \in Pid /\ m.no \in Numbers BY <1>2 DEF DbPack, Named, PartyOp, Numbers
    <2> QED BY <1>1, <2>1, OldLeaders DEF Numbers
  <1>3. ASSUME NEW k \in 1 .. Len(toDb[c]), toDb'[c][i] = toDb[c][k]
        PROVE  x \in Pid /\ Tied(c, x, k)
    <2> DEFINE m == toDb[c][k]
    <2>1. m \in DbPack(leaders) BY <1>1
    <2>2. m.pid \in Pid /\ leaders[m.no] \in Pid /\ leaders'[m.no] = leaders[m.no]
      BY <1>2, <1>3, <2>1
    <2>3. Tied(c, m.pid, k) /\ Tied(c, leaders[m.no], k) BY <1>3 DEF MadeInv
    <2> QED BY <1>3, <2>2, <2>3
  <1>4. CASE Emptied(c) BY <1>4 DEF Emptied, PartyOp
  <1>5. CASE Shrank(c)
    <2>1. i + 1 \in 1 .. Len(toDb[c]) /\ toDb'[c][i] = toDb[c][i + 1] /\ i \in Nat
      BY <1>5, ShrankIs
    <2>2. x \in Pid /\ Tied(c, x, i + 1) BY <1>3, <2>1
    <2> QED BY <1>5, <2>1, <2>2, TiedShrank
  <1>6. ASSUME NEW s, Grew(c, s)
        PROVE  Tied(c, x, i)'
    <2>1. CASE i \in 1 .. Len(toDb[c])
      <3>1. toDb'[c][i] = toDb[c][i] BY <1>6, <2>1, GrewIs
      <3>2. x \in Pid /\ Tied(c, x, i) BY <1>3, <2>1, <3>1
      <3> QED BY <1>6, <2>1, <3>2, TiedGrew
    <2>2. CASE i \notin 1 .. Len(toDb[c])
      <3>1. PICK j \in 1 .. Len(s) : i = Len(toDb[c]) + j BY <1>6, <2>2, GrewIs
      <3>2. toDb'[c][i] = s[j] BY <1>6, <3>1, GrewIs
      <3>3. CASE Said(c, s) /\ in[c] \subseteq in'[c]
        <4>1. s[j].pid \in in'[c] /\ leaders'[s[j].no] \in in'[c] BY <3>2, <3>3 DEF Said
        <4> QED BY <3>2, <4>1 DEF Tied
      <3>4. CASE \E p \in Pid : s = <<Goodbye(p)>>
        <4>1. PICK p \in Pid : s = <<Goodbye(p)>> BY <3>4
        <4>2. s[j] = Goodbye(p) BY <4>1
        <4>3. s[j].op = "logout" BY <4>2 DEF Goodbye, Packet
        <4> QED BY <3>2, <4>3
      <3> QED BY <1>6, <3>3, <3>4 DEF Grew
    <2> QED BY <2>1, <2>2
  <1> QED BY <1>4, <1>5, <1>6, DbSteps

\* Nobody comes to a core but by PlayerLoad, and who stays remains stranded if he was.
AtStays(c) == \A x \in Pid : At(c, x)' => At(c, x) /\ (x \in stranded => x \in stranded')

LEMMA AtNext ==
    ASSUME TypeInv, PlaceInv, [Next]_vars
    PROVE  \/ \A c \in Core : AtStays(c)
           \/ \E c \in Core : PlayerLoad(c)
  <1> SUFFICES ASSUME ~ \E c \in Core : PlayerLoad(c)
               PROVE  \A c \in Core : AtStays(c)
    OBVIOUS
  <1>0. Kinds BY TypeNext
  <1>1. ASSUME UNCHANGED <<players, stranded>> PROVE \A c \in Core : AtStays(c)
    BY <1>1 DEF AtStays, At, players
  <1>2. ASSUME NEW c \in Core, NEW s, Worked(c, s) PROVE UNCHANGED <<players, stranded>>
    BY <1>2 DEF Worked
  <1>3. ASSUME NEW c \in Core, NEW to, Filing(c, to) PROVE UNCHANGED <<players, stranded>>
    BY <1>3 DEF Filing
  <1>4. ASSUME NEW c \in Core, QUERY_LOGOUT(c) \/ QUERY_SETUP(c) PROVE UNCHANGED <<players, stranded>>
    BY <1>4 DEF QUERY_LOGOUT, QUERY_SETUP, Handle
  <1>5. ASSUME NEW c \in Core, Reconnect(c) PROVE UNCHANGED <<players, stranded>>
    BY <1>5 DEF Reconnect, history
  <1>6. ASSUME NEW c \in Core, NEW p \in Pid, Login(c, p) PROVE UNCHANGED <<players, stranded>>
    BY <1>6 DEF Login, history
  <1>7. ASSUME NEW c \in Core, NEW p \in Pid, EnterGame(c, p) PROVE \A d \in Core : AtStays(d)
    BY <1>7 DEF EnterGame, history, AtStays, At, TypeInv, CoreType
  <1>8. ASSUME NEW c \in Core, NEW p \in Pid, Logout(c, p) PROVE \A d \in Core : AtStays(d)
    <2>1. stranded' = stranded \ {p} BY <1>8 DEF Logout
    <2>2. At(c, p) /\ \A d \in Core, x \in Pid : At(d, x)' <=> At(d, x) /\ ~(d = c /\ x = p)
      BY <1>8, PlaceLogout
    <2>3. ASSUME NEW d \in Core, NEW x \in Pid, At(d, x)' PROVE At(d, x) /\ x # p
      BY <2>2, <2>3 DEF PlaceInv, PlaceOne, On
    <2> QED BY <2>1, <2>3 DEF AtStays
  <1>9. ASSUME NEW c \in Core, LinkDrops(c) PROVE \A d \in Core : AtStays(d)
    BY <1>9 DEF LinkDrops, AtStays, At, players
  <1>10. ASSUME NEW c \in Core, CoreCrash(c) PROVE \A d \in Core : AtStays(d)
    <2>1. /\ loading' = [loading EXCEPT ![c] = {}] /\ in' = [in EXCEPT ![c] = {}]
          /\ stranded' = stranded \ (loading[c] \cup in[c])
      BY <1>10 DEF CoreCrash
    <2>2. \A d \in Core, x \in Pid : At(d, x)' => At(d, x) /\ d # c
      BY <2>1 DEF At, TypeInv, CoreType
    <2>3. \A d \in Core, x \in Pid : At(d, x)' => ~At(c, x) BY <2>2 DEF PlaceInv, PlaceOne, On
    <2> QED BY <2>1, <2>2, <2>3 DEF AtStays, At
  <1>11. ASSUME DaemonRestart PROVE \A d \in Core : AtStays(d)
    BY <1>11 DEF DaemonRestart, AtStays, At, players
  <1>12. ASSUME UNCHANGED vars PROVE UNCHANGED <<players, stranded>>
    BY <1>12 DEF vars, history
  <1> QED BY <1>0, <1>1, <1>2, <1>3, <1>4, <1>5, <1>6, <1>7, <1>8, <1>9, <1>10, <1>11, <1>12 DEF Kinds

\* What the kinds of steps do to the queue of the daemon to a core.
Filed_(c, s) ==
    \E d \in Core : \E to \in SUBSET Core :
       /\ Filing(d, to) /\ c \in to /\ c \in peer /\ s = <<Head(toDb[d])>>
       /\ Head(toDb[d]).op # "level" => c # d
Heard(c, s) ==
    /\ s \in Seq(CorePack(leaders)) /\ toCore'[c] = toCore[c] \o s /\ AtStays(c)
    /\ \/ s = <<>>
       \/ Filed_(c, s)
       \/ \E p \in Pid : Login(c, p) /\ s = <<Load(p)>>
       \/ QUERY_SETUP(c) /\ \E id \in Bijection(Pid, 1 .. Cardinality(Pid)) : s = Snapshot(id)
Took(c) ==
    /\ toCore[c] # <<>> /\ toCore'[c] = Tail(toCore[c])
    /\ \/ AtStays(c)
       \/ \E p \in Pid : /\ Head(toCore[c]) = Load(p) /\ stranded' = stranded
                         /\ \A x \in Pid : At(c, x)' => At(c, x) \/ x = p
Hushed(c) == toCore'[c] = <<>>

LEMMA StayedHeard ==
    ASSUME TypeInv, NEW c \in Core, toCore'[c] = toCore[c], AtStays(c)
    PROVE  Heard(c, <<>>)
  <1> DEFINE K == CorePack(leaders)
  <1>1. toCore[c] \in Seq(K) BY DEF TypeInv, NetType
  <1>2. <<>> \in Seq(K) /\ toCore[c] \o <<>> = toCore[c]
    <2> HIDE DEF K
    <2> QED BY <1>1
  <1> QED BY <1>2 DEF Heard

LEMMA ReadTook ==
    ASSUME TypeInv, NEW c \in Core, Read(toCore, toCore', c)
    PROVE  /\ toCore[c] # <<>> /\ toCore'[c] = Tail(toCore[c])
           /\ \A d \in Core : d # c => toCore'[d] = toCore[d]
  BY DEF Read, TypeInv, NetType

LEMMA FiledHeard ==
    ASSUME TypeInv, NEW c \in Core, NEW to, Filing(c, to), NEW d \in Core, AtStays(d)
    PROVE  \E s : Heard(d, s)
  <1> DEFINE K == CorePack(leaders)
             m == Head(toDb[c])
  <1>1. Read(toDb, toDb', c) /\ m.op \in PartyOp BY DEF Filing
  <1>2. toCore \in [Core -> Seq(K)] BY DEF TypeInv, NetType
  <1>3. m \in K
    <2>1. m \in DbPack(leaders)
      <3> DEFINE L == DbPack(leaders)
      <3>1. toDb \in [Core -> Seq(L)] BY DEF TypeInv, NetType
      <3> HIDE DEF L
      <3>2. m \in L BY <1>1, <3>1, ReadIs
      <3> QED BY <3>2 DEF L
    <2> HIDE DEF m
    <2> QED BY <1>1, <2>1 DEF DbPack, CorePack, PartyOp
  <1>4. CASE toCore' = toCore BY <1>4, StayedHeard
  <1>5. CASE Forward(to, m) /\ to \subseteq peer /\ (m.op # "level" => c \notin to)
    <2>1. CASE d \in to
      <3>1. toCore'[d] = toCore[d] \o <<m>> /\ <<m>> \in Seq(K)
        <4>1. toCore[d] \in Seq(K) BY <1>2
        <4>2. toCore'[d] = Append(toCore[d], m) BY <1>5, <2>1 DEF Forward
        <4> HIDE DEF K, m
        <4> QED BY <1>3, <4>1, <4>2, AppendIs
      <3>2. peer \subseteq Core BY DEF TypeInv, DaemonType
      <3>3. Filed_(d, <<m>>) BY <1>5, <2>1, <3>2 DEF Filed_
      <3>4. Heard(d, <<m>>) BY <3>1, <3>3 DEF Heard
      <3> QED BY <3>4
    <2>2. CASE d \notin to
      <3>1. toCore'[d] = toCore[d]
        BY <1>5, <2>2 DEF Forward
      <3> QED BY <3>1, StayedHeard
    <2> QED BY <2>1, <2>2
  <1> QED BY <1>4, <1>5 DEF Filing

LEMMA CoreSteps ==
    ASSUME TypeInv, PlaceInv, [Next]_vars
    PROVE  \A d \in Core : Hushed(d) \/ Took(d) \/ \E s : Heard(d, s)
  <1>0. Kinds BY TypeNext
  <1>1. ASSUME NEW c \in Core, PlayerLoad(c), NEW d \in Core
        PROVE  Hushed(d) \/ Took(d) \/ \E s : Heard(d, s)
    <2> DEFINE p == Head(toCore[c]).pid
    <2>1. /\ p \in Pid /\ Read(toCore, toCore', c) /\ Head(toCore[c]) = Load(p)
          /\ \A e \in Core, x \in Pid : At(e, x)' <=> At(e, x) \/ (e = c /\ x = p)
      BY <1>1, PlaceLoad
    <2>2. stranded' = stranded BY <1>1 DEF PlayerLoad, Receive
    <2>3. CASE d = c
      <3> HIDE DEF p
      <3>1. \A x \in Pid : At(c, x)' => At(c, x) \/ x = p BY <2>1
      <3>2. toCore[c] # <<>> /\ toCore'[c] = Tail(toCore[c]) BY <2>1, ReadTook
      <3> QED BY <2>1, <2>2, <2>3, <3>1, <3>2 DEF Took
    <2>4. CASE d # c
      <3>1. AtStays(d) BY <2>1, <2>2, <2>4 DEF AtStays
      <3>2. toCore'[d] = toCore[d] BY <2>1, <2>4, ReadTook
      <3> QED BY <3>1, <3>2, StayedHeard
    <2> QED BY <2>3, <2>4
  <1> SUFFICES ASSUME NEW d \in Core, \A c \in Core : AtStays(c)
               PROVE  Hushed(d) \/ Took(d) \/ \E s : Heard(d, s)
    BY <1>1, AtNext
  <1>2. ASSUME NEW c \in Core, NEW s, Worked(c, s)
        PROVE  Hushed(d) \/ Took(d) \/ \E t : Heard(d, t)
    <2>1. CASE toCore' = toCore BY <2>1, StayedHeard
    <2>2. CASE Read(toCore, toCore', c) BY <2>2, ReadTook, StayedHeard DEF Took
    <2> QED BY <1>2, <2>1, <2>2 DEF Worked
  <1>3. ASSUME NEW c \in Core, NEW to, Filing(c, to)
        PROVE  Hushed(d) \/ Took(d) \/ \E t : Heard(d, t)
    BY <1>3, FiledHeard
  <1>4. ASSUME NEW c \in Core, QUERY_LOGOUT(c) PROVE toCore' = toCore
    BY <1>4 DEF QUERY_LOGOUT
  <1>5. ASSUME NEW c \in Core, QUERY_SETUP(c)
        PROVE  Hushed(d) \/ Took(d) \/ \E t : Heard(d, t)
    <2>1. PICK id \in Bijection(Pid, 1 .. Cardinality(Pid)) :
             /\ toCore'[c] = toCore[c] \o Snapshot(id)
             /\ \A e \in Core : e # c => toCore'[e] = toCore[e]
      BY <1>5, SetupShape
    <2>2. Snapshot(id) \in Seq(CorePack(leaders)) BY SnapshotIs
    <2>3. CASE d = c
      <3>1. Heard(c, Snapshot(id)) BY <1>5, <2>1, <2>2 DEF Heard
      <3> QED BY <2>3, <3>1
    <2>4. CASE d # c BY <2>1, <2>4, StayedHeard
    <2> QED BY <2>3, <2>4
  <1>6. ASSUME NEW c \in Core, NEW p \in Pid, Login(c, p)
        PROVE  Hushed(d) \/ Took(d) \/ \E t : Heard(d, t)
    <2> DEFINE K == CorePack(leaders)
    <2>1. Forward({c}, Load(p)) BY <1>6 DEF Login, Load
    <2>2. Load(p) \in K BY <1>6, LoginTypes
    <2>3. toCore \in [Core -> Seq(K)] BY DEF TypeInv, NetType
    <2>4. CASE d = c
      <3>1. toCore'[c] = toCore[c] \o <<Load(p)>> /\ <<Load(p)>> \in Seq(K)
        <4>1. toCore[c] \in Seq(K) BY <2>3
        <4>2. toCore'[c] = Append(toCore[c], Load(p)) BY <2>1 DEF Forward
        <4> HIDE DEF K
        <4> QED BY <2>2, <4>1, <4>2, AppendIs
      <3>2. Heard(c, <<Load(p)>>) BY <1>6, <3>1 DEF Heard
      <3> QED BY <2>4, <3>2
    <2>5. CASE d # c
      <3>1. toCore'[d] = toCore[d] BY <2>1, <2>5 DEF Forward
      <3> QED BY <3>1, StayedHeard
    <2> QED BY <2>4, <2>5
  <1>7. ASSUME NEW c \in Core, NEW p \in Pid, EnterGame(c, p) PROVE toCore' = toCore
    BY <1>7 DEF EnterGame
  <1>8. ASSUME NEW c \in Core, NEW p \in Pid, Logout(c, p) PROVE toCore' = toCore
    BY <1>8 DEF Logout
  <1>9. ASSUME NEW cores, Fault(cores)
        PROVE  Hushed(d) \/ Took(d) \/ \E t : Heard(d, t)
    <2>1. /\ d \in cores => toCore'[d] = <<>>
          /\ d \notin cores => toCore'[d] = toCore[d]
      BY <1>9, CutIs DEF Fault
    <2> QED BY <2>1, StayedHeard DEF Hushed
  <1>10. ASSUME NEW c \in Core, Reconnect(c) PROVE toCore' = toCore
    BY <1>10 DEF Reconnect
  <1>11. ASSUME UNCHANGED vars PROVE toCore' = toCore
    BY <1>11 DEF vars, net
  <1>12. ASSUME toCore' = toCore PROVE Hushed(d) \/ Took(d) \/ \E t : Heard(d, t)
    BY <1>12, StayedHeard
  <1>13. (\E c \in Core : PlayerLoad(c)) => Hushed(d) \/ Took(d) \/ \E t : Heard(d, t)
    BY <1>1
  <1> QED BY <1>0, <1>2, <1>3, <1>4, <1>5, <1>6, <1>7, <1>8, <1>9, <1>10, <1>11, <1>12, <1>13,
             FaultShape DEF Kinds

\* A packet of a queue to a core is an old one, or a new one; or all are one place nearer.
LEMMA HeardIs ==
    ASSUME TypeInv, NEW c \in Core, NEW s, Heard(c, s)
    PROVE  LET q == toCore[c]
               r == toCore'[c]
           IN /\ q \in Seq(CorePack(leaders)) /\ s \in Seq(CorePack(leaders)) /\ r = q \o s
              /\ Len(q) \in Nat /\ Len(s) \in Nat /\ Len(r) = Len(q) + Len(s)
              /\ \A i \in 1 .. Len(q) : i \in 1 .. Len(r) /\ r[i] = q[i]
              /\ \A i \in 1 .. Len(s) : Len(q) + i \in 1 .. Len(r) /\ r[Len(q) + i] = s[i]
              /\ \A i \in 1 .. Len(r) : i \in 1 .. Len(q) \/
                    \E j \in 1 .. Len(s) : i = Len(q) + j
  <1> DEFINE L == CorePack(leaders)
             q == toCore[c]
             r == q \o s
  <1>1. s \in Seq(L) /\ toCore'[c] = r BY DEF Heard
  <1>2. q \in Seq(L) BY DEF TypeInv, NetType
  <1> HIDE DEF L, q, r
  <1>3. /\ r \in Seq(L) /\ Len(q) \in Nat /\ Len(s) \in Nat /\ Len(r) = Len(q) + Len(s)
        /\ \A i \in 1 .. Len(q) : i \in 1 .. Len(r) /\ r[i] = q[i]
        /\ \A i \in 1 .. Len(s) : Len(q) + i \in 1 .. Len(r) /\ r[Len(q) + i] = s[i]
        /\ \A i \in 1 .. Len(r) : i > Len(q) => i - Len(q) \in 1 .. Len(s) /\ r[i] = s[i - Len(q)]
        /\ \A i \in 1 .. Len(r) : ~ i > Len(q) => i \in 1 .. Len(q)
    BY <1>1, <1>2, ConcatIs DEF r
  <1>4. ASSUME NEW i \in 1 .. Len(r)
        PROVE  i \in 1 .. Len(q) \/ \E j \in 1 .. Len(s) : i = Len(q) + j
    <2>1. CASE i > Len(q)
      <3>1. i - Len(q) \in 1 .. Len(s) /\ i = Len(q) + (i - Len(q)) BY <1>3, <2>1
      <3> QED BY <3>1
    <2> QED BY <1>3, <2>1
  <1> QED BY <1>1, <1>2, <1>3, <1>4 DEF L, q, r

LEMMA TookIs ==
    ASSUME TypeInv, NEW c \in Core, Took(c)
    PROVE  LET q == toCore[c]
               r == toCore'[c]
           IN /\ q \in Seq(CorePack(leaders)) /\ q # <<>> /\ Len(q) \in Nat /\ Len(r) = Len(q) - 1
              /\ r = Tail(q) /\ 1 \in 1 .. Len(q) /\ Head(q) = q[1]
              /\ \A i \in 1 .. Len(r) : i + 1 \in 1 .. Len(q) /\ r[i] = q[i + 1]
              /\ \A i \in 1 .. Len(q) : i # 1 => i - 1 \in 1 .. Len(r) /\ r[i - 1] = q[i]
  <1> DEFINE L == CorePack(leaders)
             q == toCore[c]
  <1>1. q \in Seq(L) /\ q # <<>> /\ toCore'[c] = Tail(q) BY DEF TypeInv, NetType, Took
  <1> HIDE DEF L, q
  <1> QED BY <1>1, TailIs DEF L, q

\* Who a packet at the head of another core's queue makes a member is not on this one.
LEMMA MadeElsewhere ==
    ASSUME TypeInv, PlaceInv, MadeInv, NEW c \in Core, NEW d \in Core, c # d,
           toDb[d] # <<>>, Head(toDb[d]).op \in {"create", "add"}
    PROVE  LET m == Head(toDb[d])
           IN m.pid \in Pid /\ m.no \in Numbers /\ ~On(c, m.pid) /\ ~On(c, leaders[m.no])
  <1> DEFINE m == Head(toDb[d])
             L == DbPack(leaders)
  <1>1. toDb[d] \in Seq(L) /\ leaders \in Seq(Pid) BY DEF TypeInv, NetType, HistoryType
  <1>2. m \in L /\ m = toDb[d][1] /\ 1 \in 1 .. Len(toDb[d])
    <2> HIDE DEF L
    <2> QED BY <1>1, TailIs
  <1>3. m.pid \in Pid /\ m.no \in Numbers /\ leaders[m.no] \in Pid
    <2> HIDE DEF m
    <2>1. m.op \in {"create", "add"} BY DEF m
    <2> QED BY <1>1, <1>2, <2>1 DEF DbPack, Named, PartyOp, Numbers
  <1>4. Tied(d, m.pid, 1) /\ Tied(d, leaders[m.no], 1) BY <1>2 DEF MadeInv
  <1>5. ASSUME NEW x \in Pid, Tied(d, x, 1) PROVE ~On(c, x)
    <2>1. On(d, x)
      <3>1. CASE x \in in[d] BY <3>1 DEF On, At
      <3>2. CASE After(toDb[d], 1, Goodbye(x))
        <4>1. Goodbye(x) \in ToSet(toDb[d])
          <5> HIDE DEF L
          <5> QED BY <1>1, <3>2, SetIs DEF After
        <4> QED BY <4>1 DEF On, Going
      <3> QED BY <1>5, <3>1, <3>2 DEF Tied
    <2> QED BY <2>1 DEF PlaceInv, PlaceOne
  <1> QED BY <1>3, <1>4, <1>5

LEMMA HereNext ==
    ASSUME TypeInv, PeerInv, PlaceInv, MadeInv, HereInv, [Next]_vars
    PROVE  HereInv'
  <1> SUFFICES ASSUME NEW c \in Core, NEW i \in 1 .. Len(toCore'[c]),
                      toCore'[c][i].op \in {"create", "add"},
                      NEW p, p = toCore'[c][i].pid
               PROVE  AllAfter(toCore'[c], i, Load(p)) /\ (At(c, p)' => p \in stranded')
    BY DEF HereInv, Ahead, At
  <1> DEFINE K == CorePack(leaders)
             q == toCore[c]
  <1>1. q \in Seq(K) BY DEF TypeInv, NetType
  <1>2. ASSUME NEW k \in 1 .. Len(q), toCore'[c][i] = q[k]
        PROVE  p \in Pid /\ AllAfter(q, k, Load(p)) /\ (At(c, p) => p \in stranded)
    <2> DEFINE m == q[k]
    <2>1. m \in CorePack(leaders) /\ m.op \in {"create", "add"} /\ m.pid = p BY <1>1, <1>2
    <2>2. m.pid \in Pid
      <3> HIDE DEF m
      <3> QED BY <2>1 DEF CorePack, Named, PartyOp
    <2> QED BY <1>2, <2>1, <2>2 DEF HereInv, Ahead
  <1>3. CASE Hushed(c)
    <2>1. Len(toCore'[c]) = 0 BY <1>3 DEF Hushed
    <2> QED BY <2>1
  <1>4. CASE Took(c)
    <2>1. /\ i + 1 \in 1 .. Len(q) /\ toCore'[c][i] = q[i + 1] /\ i \in Nat /\ q # <<>>
          /\ toCore'[c] = Tail(q) /\ 1 \in 1 .. Len(q) /\ Head(q) = q[1]
      BY <1>4, TookIs
    <2>2. p \in Pid /\ AllAfter(q, i + 1, Load(p)) /\ (At(c, p) => p \in stranded) BY <1>2, <2>1
    <2>3. AllAfter(Tail(q), i, Load(p))
      <3> HIDE DEF q, K
      <3> QED BY <1>1, <2>1, <2>2, AfterTail
    <2>4. q[1] # Load(p) BY <2>1, <2>2 DEF AllAfter
    <2>5. At(c, p)' => p \in stranded'
      <3>1. CASE AtStays(c) BY <2>2, <3>1 DEF AtStays
      <3>2. CASE \E x \in Pid : /\ Head(q) = Load(x) /\ stranded' = stranded
                                /\ \A y \in Pid : At(c, y)' => At(c, y) \/ y = x
        BY <2>1, <2>2, <2>4, <3>2
      <3> QED BY <1>4, <3>1, <3>2 DEF Took
    <2> QED BY <2>1, <2>3, <2>5
  <1>5. ASSUME NEW s, Heard(c, s)
        PROVE  AllAfter(toCore'[c], i, Load(p)) /\ (At(c, p)' => p \in stranded')
    <2>1. /\ s \in Seq(K) /\ toCore'[c] = q \o s /\ Len(q) \in Nat /\ Len(s) \in Nat /\ AtStays(c)
          /\ i \in 1 .. Len(q) \/ \E j \in 1 .. Len(s) : i = Len(q) + j
      BY <1>5, HeardIs DEF Heard
    <2>2. CASE i \in 1 .. Len(q)
      <3>1. toCore'[c][i] = q[i] BY <1>5, <2>2, HeardIs
      <3>2. p \in Pid /\ AllAfter(q, i, Load(p)) /\ (At(c, p) => p \in stranded) BY <1>2, <2>2, <3>1
      <3>3. AllAfter(q \o s, i, Load(p))
        <4> HIDE DEF q, K
        <4>1. i \in Nat /\ i <= Len(q) BY <2>1, <2>2
        <4> QED BY <1>1, <2>1, <3>2, <4>1, AfterConcat
      <3> QED BY <2>1, <3>2, <3>3 DEF AtStays
    <2>3. ASSUME NEW j \in 1 .. Len(s), i = Len(q) + j
          PROVE  AllAfter(toCore'[c], i, Load(p)) /\ (At(c, p)' => p \in stranded')
      <3>1. s[j] = toCore'[c][i] BY <1>5, <2>3, HeardIs
      <3>2. s[j].op \in {"create", "add"} /\ s[j].pid = p BY <3>1
      <3>3. ASSUME Load(p) \notin ToSet(q), \A k \in 1 .. Len(s) : s[k] # Load(p)
            PROVE  AllAfter(toCore'[c], i, Load(p))
        <4>1. AllAfter(s, j, Load(p)) BY <3>3 DEF AllAfter
        <4> HIDE DEF q, K
        <4>2. AllAfter(q \o s, Len(q) + j, Load(p)) BY <1>1, <2>1, <3>3, <4>1, AfterConcat
        <4> QED BY <2>1, <2>3, <4>2
      <3>4. CASE s = <<>> BY <2>1, <3>4
      <3>5. CASE Filed_(c, s)
        <4>1. PICK d \in Core : /\ Read(toDb, toDb', d) /\ s = <<Head(toDb[d])>>
                                /\ Head(toDb[d]).op # "level" => c # d
          BY <3>5 DEF Filed_, Filing
        <4>2. s[j] = Head(toDb[d]) /\ \A k \in 1 .. Len(s) : s[k] = Head(toDb[d]) BY <4>1
        <4>3. c # d /\ toDb[d] # <<>> /\ Head(toDb[d]).op \in {"create", "add"}
          BY <3>2, <4>1, <4>2 DEF Read
        <4>4. p \in Pid /\ ~On(c, p) BY <3>2, <4>2, <4>3, MadeElsewhere
        <4>5. ~At(c, p) /\ Load(p) \notin ToSet(q) BY <4>4 DEF On, Coming
        <4>6. \A k \in 1 .. Len(s) : s[k] # Load(p)
          <5>1. Load(p).op = "load" BY DEF Load, Packet
          <5> QED BY <4>2, <4>3, <5>1
        <4> QED BY <2>1, <3>3, <4>4, <4>5, <4>6 DEF AtStays
      <3>6. CASE \E x \in Pid : s = <<Load(x)>>
        <4>1. PICK x \in Pid : s = <<Load(x)>> BY <3>6
        <4>2. s[j] = Load(x) BY <4>1
        <4>3. s[j].op = "load" BY <4>2 DEF Load, Packet
        <4> QED BY <3>2, <4>3
      <3>7. CASE QUERY_SETUP(c) /\ \E id \in Bijection(Pid, 1 .. Cardinality(Pid)) : s = Snapshot(id)
        <4>1. ToSet(s) = Told BY <3>7, SnapshotIs
        <4>2. \A k \in 1 .. Len(s) : s[k] \in Told /\ s[k].op # "load"
          <5> SUFFICES ASSUME NEW k \in 1 .. Len(s) PROVE s[k] \in Told /\ s[k].op # "load" OBVIOUS
          <5>1. s[k] \in Told
            <6> HIDE DEF K
            <6> QED BY <2>1, <4>1, SetIs
          <5> QED BY <5>1, ToldAre DEF Packet, Add, Level
        <4>3. \A k \in 1 .. Len(s) : s[k] # Load(p) BY <4>2 DEF Load, Packet
        <4>4. toDb[c] # <<>> /\ Head(toDb[c]).op = "setup" BY <3>7 DEF QUERY_SETUP, Handle
        <4>5. 1 \in 1 .. Len(toDb[c]) /\ Head(toDb[c]) = toDb[c][1]
          <5> DEFINE L == DbPack(leaders)
          <5>1. toDb[c] \in Seq(L) BY DEF TypeInv, NetType
          <5> HIDE DEF L
          <5> QED BY <4>4, <5>1, TailIs
        <4>6. c \notin peer BY <4>4, <4>5 DEF PeerInv
        <4>7. Load(p) \notin ToSet(q)
          <5>1. q = <<>> BY <4>6 DEF PeerInv
          <5> QED BY <5>1, Nothing
        <4>8. p \in Pid
          <5>1. s[j] \in CorePack(leaders) BY <2>1
          <5> QED BY <3>2, <5>1 DEF CorePack, Named, PartyOp
        <4>9. At(c, p) => p \in stranded BY <4>6, <4>8 DEF PeerInv
        <4> QED BY <2>1, <3>3, <4>3, <4>7, <4>8, <4>9 DEF AtStays
      <3> QED BY <1>5, <3>4, <3>5, <3>6, <3>7 DEF Heard
    <2> QED BY <2>1, <2>2, <2>3
  <1> QED BY <1>3, <1>4, <1>5, CoreSteps

-----------------------------------------------------------------------------
(* The pointers of the characters and the parties of the cores                          *)

Good == ~stray /\ ~undefined

LEMMA GoodNext ==
    ASSUME TypeInv, [Next]_vars, Good'
    PROVE  Good
  <1>1. stray => stray' BY TypeNext
  <1>2. ~undefined BY DEF Next, vars, history, Good
  <1> QED BY <1>1, <1>2 DEF Good

\* A pointer is to the party the core has the character in; a pointer is missing only of
\* a character that was on the core when its connection broke, or when things have gone
\* astray.
PointerInv ==
    /\ \A c \in Core : \A p \in in[c] : link[p] # 0 => of[c][p] = link[p]
    /\ \A p \in Pid : link[p] # 0 => \E c \in Core : p \in in[c]
LinkedInv == \A c \in Core : \A p \in in[c] : Good /\ p \notin stranded => link[p] = of[c][p]
\* A party of a core has its leader.
LeaderInv == \A c \in Core, p \in Pid : of[c][p] # 0 => of[c][leaders[of[c][p]]] = of[c][p]
PairInv == PointerInv /\ LinkedInv /\ LeaderInv

LEMMA InOne ==
    ASSUME PlaceInv
    PROVE  \A c, d \in Core, p \in Pid : p \in in[c] /\ p \in in[d] => c = d
  BY DEF PlaceInv, PlaceOne, On, At

\* The players of a core that get the party n there, or none.
Put(c, who, n) ==
    \A d \in Core, x \in Pid : of'[d][x] = IF d = c /\ x \in who THEN n ELSE of[d][x]

LEMMA PutOne ==
    ASSUME CoreType, NEW c \in Core, NEW p \in Pid, NEW n, of' = [of EXCEPT ![c][p] = n]
    PROVE  Put(c, {p}, n)
  <1>1. of' = [of EXCEPT ![c] = [of[c] EXCEPT ![p] = n]] OBVIOUS
  <1>2. of'[c] = [of[c] EXCEPT ![p] = n] /\ \A d \in Core : d # c => of'[d] = of[d]
    BY <1>1 DEF CoreType
  <1> QED BY <1>2 DEF Put, CoreType

\* Pointers that stay.
LEMMA PairSame ==
    ASSUME TypeInv, PairInv, UNCHANGED <<of, link, in, stranded, leaders>>, Good' => Good
    PROVE  PairInv'
  <1>1. PointerInv' BY DEF PairInv, PointerInv
  <1>2. LinkedInv' BY DEF PairInv, LinkedInv
  <1>3. LeaderInv' BY DEF PairInv, LeaderInv
  <1> QED BY <1>1, <1>2, <1>3 DEF PairInv

\* A player gets a party on a core whose character stays as it is.
LEMMA PairPut ==
    ASSUME TypeInv, PairInv, PlaceInv, NEW c \in Core, NEW p \in Pid, NEW n \in Numbers,
           Put(c, {p}, n), of[c][p] \in {0, n}, leaders[n] = p \/ of[c][leaders[n]] = n,
           UNCHANGED <<link, in, stranded, leaders>>, Good' => Good,
           p \in in[c] => p \in stranded \/ stray' \/ of[c][p] = n
    PROVE  PairInv'
  <1>1. n # 0 BY DEF Numbers
  <1>2. \A d \in Core, x \in Pid : of'[d][x] = IF d = c /\ x = p THEN n ELSE of[d][x]
    BY DEF Put
  <1>3. in \in [Core -> SUBSET Pid] /\ \A m \in Numbers : leaders[m] \in Pid
    BY DEF TypeInv, CoreType, HistoryType, Numbers
  <1>4. \A d \in Core, x \in Pid : of[d][x] # 0 => of[d][x] \in Numbers
    BY DEF TypeInv, CoreType, HistoryType, Numbers
  <1>5. PointerInv'
    <2>1. \A d \in Core : \A x \in in[d] : link[x] # 0 => of'[d][x] = link[x]
      BY <1>2, <1>3 DEF PairInv, PointerInv
    <2> QED BY <2>1 DEF PairInv, PointerInv
  <1>6. LinkedInv'
    <2> SUFFICES ASSUME NEW d \in Core, NEW x \in in[d], Good', x \notin stranded
                 PROVE  link[x] = of'[d][x]
      BY DEF LinkedInv
    <2>1. x \in Pid /\ link[x] = of[d][x] BY <1>3 DEF PairInv, LinkedInv
    <2>2. d = c /\ x = p => of[c][p] = n BY DEF Good
    <2> QED BY <1>2, <2>1, <2>2
  <1>7. LeaderInv'
    <2> SUFFICES ASSUME NEW d \in Core, NEW x \in Pid, of'[d][x] # 0
                 PROVE  of'[d][leaders[of'[d][x]]] = of'[d][x]
      BY DEF LeaderInv
    <2>1. CASE d = c /\ x = p
      <3>1. of'[d][x] = n /\ leaders[n] \in Pid BY <1>2, <1>3, <2>1
      <3> QED BY <1>2, <2>1, <3>1
    <2>2. CASE ~(d = c /\ x = p)
      <3> DEFINE m == of[d][x]
      <3>1. of'[d][x] = m /\ m # 0 /\ m \in Numbers /\ leaders[m] \in Pid
        BY <1>2, <1>3, <1>4, <2>2
      <3>2. of[d][leaders[m]] = m BY <3>1 DEF PairInv, LeaderInv
      <3>3. d = c /\ leaders[m] = p => m = n BY <3>1, <3>2
      <3> HIDE DEF m
      <3> QED BY <1>2, <3>1, <3>2, <3>3
    <2> QED BY <2>1, <2>2
  <1> QED BY <1>5, <1>6, <1>7 DEF PairInv

\* Players leave a party on a core, all of them or without the leader.
LEMMA PairOut ==
    ASSUME TypeInv, PairInv, PlaceInv, NEW c \in Core, NEW who \in SUBSET Pid, Out(c, who),
           UNCHANGED <<in, stranded, leaders>>, Good' => Good,
           \A x \in Pid : of[c][x] # 0 /\ leaders[of[c][x]] \in who => x \in who
    PROVE  PairInv'
  <1>1. /\ \A d \in Core, p \in Pid : of'[d][p] = IF d = c /\ p \in who THEN 0 ELSE of[d][p]
        /\ \A p \in Pid : link'[p] = IF p \in who /\ p \in in[c] /\ link[p] = of[c][p]
                                     THEN 0 ELSE link[p]
    BY OutTypes DEF TypeInv, HistoryType
  <1>2. in \in [Core -> SUBSET Pid] /\ \A m \in Numbers : leaders[m] \in Pid
    BY DEF TypeInv, CoreType, HistoryType, Numbers
  <1>3. \A d \in Core, x \in Pid : of[d][x] # 0 => of[d][x] \in Numbers
    BY DEF TypeInv, CoreType, HistoryType, Numbers
  <1>4. PointerInv'
    <2>1. ASSUME NEW d \in Core, NEW x \in in[d], link'[x] # 0 PROVE of'[d][x] = link'[x]
      <3>1. x \in Pid /\ link'[x] = link[x] /\ of[d][x] = link[x]
        BY <1>1, <1>2, <2>1 DEF PairInv, PointerInv
      <3>2. ~(d = c /\ x \in who) BY <1>1, <2>1, <3>1
      <3> QED BY <1>1, <3>1, <3>2
    <2>2. \A x \in Pid : link'[x] # 0 => link[x] # 0 BY <1>1
    <2> QED BY <2>1, <2>2 DEF PairInv, PointerInv
  <1>5. LinkedInv'
    <2> SUFFICES ASSUME NEW d \in Core, NEW x \in in[d], Good', x \notin stranded
                 PROVE  link'[x] = of'[d][x]
      BY DEF LinkedInv
    <2>1. x \in Pid /\ link[x] = of[d][x] BY <1>2 DEF PairInv, LinkedInv
    <2>2. x \in in[c] => d = c BY <2>1, InOne
    <2> QED BY <1>1, <2>1, <2>2
  <1>6. LeaderInv'
    <2> SUFFICES ASSUME NEW d \in Core, NEW x \in Pid, of'[d][x] # 0
                 PROVE  of'[d][leaders[of'[d][x]]] = of'[d][x]
      BY DEF LeaderInv
    <2> DEFINE m == of[d][x]
    <2>1. of'[d][x] = m /\ m # 0 /\ m \in Numbers /\ leaders[m] \in Pid /\ ~(d = c /\ x \in who)
      BY <1>1, <1>2, <1>3
    <2>2. of[d][leaders[m]] = m BY <2>1 DEF PairInv, LeaderInv
    <2>3. ~(d = c /\ leaders[m] \in who) BY <2>1
    <2> HIDE DEF m
    <2> QED BY <1>1, <2>1, <2>2, <2>3
  <1> QED BY <1>4, <1>5, <1>6 DEF PairInv

\* The characters that get a party together with their place in it.
Linking(who, n) == \A x \in Pid : link'[x] = IF x \in who THEN n ELSE link[x]

LEMMA JoinedIs ==
    ASSUME CoreType, NEW c \in Core, NEW n, NEW who, Joined(c, n, who)
    PROVE  Put(c, who, n) /\ Linking(who, n)
  <1>1. of' = [of EXCEPT ![c] = [p \in Pid |-> IF p \in who THEN n ELSE of[c][p]]] BY DEF Joined
  <1>2. /\ of'[c] = [p \in Pid |-> IF p \in who THEN n ELSE of[c][p]]
        /\ \A d \in Core : d # c => of'[d] = of[d]
    BY <1>1 DEF CoreType
  <1> QED BY <1>2 DEF Joined, Put, Linking

\* b joins the party of a, or a founds one with b.
JoinsParty(c, a, b, n) ==
    /\ n = link[a] /\ n \in Numbers /\ leaders[n] = a /\ of[c][b] \in {0, n}
    /\ leaders' = leaders /\ Put(c, {b}, n) /\ Linking({b}, n)
    /\ Send(c, <<Add(n, b), Level(n, b)>>)
Founds(c, a, b, n) ==
    /\ link[a] = 0 /\ n = Len(leaders) + 1 /\ of[c][a] = 0 /\ of[c][b] = 0
    /\ leaders' = Append(leaders, a) /\ Put(c, {a, b}, n) /\ Linking({a, b}, n)
    /\ Send(c, <<Create(n), Add(n, a), Level(n, a), Add(n, b), Level(n, b)>>)
Invited(c, a, b) ==
    /\ a \in in[c] /\ b \in in[c] /\ a # b /\ link[b] = 0 /\ up[c] /\ toCore' = toCore
    /\ UNCHANGED <<daemon, players, up, stranded>>
    /\ \/ undefined' /\ UNCHANGED <<of, link, toDb, leaders, stray>>
       \/ \E n : (JoinsParty(c, a, b, n) \/ Founds(c, a, b, n)) /\ UNCHANGED <<stray, undefined>>

LEMMA InvitedIs ==
    ASSUME TypeInv, NEW c \in Core, NEW a \in Pid, NEW b \in Pid, InviteAccept(c, a, b)
    PROVE  Invited(c, a, b)
  <1> USE DEF TypeInv
  <1>1. /\ a \in in[c] /\ b \in in[c] /\ a # b /\ link[b] = 0 /\ up[c] /\ toCore' = toCore
        /\ UNCHANGED <<daemon, players, up, stranded>>
    BY DEF InviteAccept, Request
  <1>2. CASE Undefined BY <1>1, <1>2 DEF Undefined, Invited, copies
  <1>3. CASE /\ link[a] # 0 /\ leaders[link[a]] = a /\ of[c][b] \in {0, link[a]}
             /\ Joined(c, link[a], {b})
             /\ Send(c, <<Add(link[a], b), Level(link[a], b)>>)
             /\ UNCHANGED <<leaders, stray, undefined>>
    <2>1. link[a] \in Numbers BY <1>3 DEF CoreType, HistoryType, Numbers
    <2>2. JoinsParty(c, a, b, link[a]) BY <1>3, <2>1, JoinedIs DEF JoinsParty
    <2> QED BY <1>1, <1>3, <2>2 DEF Invited
  <1>4. CASE LET n == Len(leaders) + 1
             IN /\ link[a] = 0 /\ {of[c][a], of[c][b]} = {0}
                /\ leaders' = Append(leaders, a)
                /\ Joined(c, n, {a, b})
                /\ Send(c, <<Create(n), Add(n, a), Level(n, a), Add(n, b), Level(n, b)>>)
                /\ UNCHANGED <<stray, undefined>>
    <2>1. of[c][a] = 0 /\ of[c][b] = 0 BY <1>4
    <2>2. Founds(c, a, b, Len(leaders) + 1) BY <1>4, <2>1, JoinedIs DEF Founds
    <2> QED BY <1>1, <1>4, <2>2 DEF Invited
  <1> QED BY <1>2, <1>3, <1>4 DEF InviteAccept

\* Characters of a core get a party together with their place in it.
LEMMA PairJoin ==
    ASSUME TypeInv, PlaceInv, PairInv, NEW c \in Core, NEW who \in SUBSET in[c], NEW n \in Nat, n # 0,
           Put(c, who, n), Linking(who, n), in' = in, stranded' = stranded, Good' => Good,
           \A m \in Numbers : leaders'[m] = leaders[m],
           leaders'[n] \in Pid, leaders'[n] \in who \/ of[c][leaders'[n]] = n,
           \A x \in who : of[c][x] \in {0, n}
    PROVE  PairInv'
  <1>1. in \in [Core -> SUBSET Pid] /\ \A m \in Numbers : leaders[m] \in Pid
    BY DEF TypeInv, CoreType, HistoryType, Numbers
  <1>2. \A d \in Core, x \in Pid : of[d][x] # 0 => of[d][x] \in Numbers
    BY DEF TypeInv, CoreType, HistoryType, Numbers
  <1>3. \A d \in Core, x \in Pid : of'[d][x] = IF d = c /\ x \in who THEN n ELSE of[d][x]
    BY DEF Put
  <1>4. \A x \in Pid : link'[x] = IF x \in who THEN n ELSE link[x] BY DEF Linking
  <1>5. \A d \in Core : \A x \in in[d] : x \in Pid /\ (x \in who => d = c) BY <1>1, InOne
  <1>6. PointerInv'
    <2>1. \A d \in Core : \A x \in in[d] : link'[x] # 0 => of'[d][x] = link'[x]
      BY <1>3, <1>4, <1>5 DEF PairInv, PointerInv
    <2>2. \A x \in Pid : link'[x] # 0 => \E d \in Core : x \in in[d]
      BY <1>4 DEF PairInv, PointerInv
    <2> QED BY <2>1, <2>2 DEF PointerInv
  <1>7. LinkedInv'
    <2> SUFFICES ASSUME NEW d \in Core, NEW x \in in[d], Good', x \notin stranded
                 PROVE  link'[x] = of'[d][x]
      BY DEF LinkedInv
    <2>1. link[x] = of[d][x] BY DEF PairInv, LinkedInv
    <2> QED BY <1>3, <1>4, <1>5, <2>1
  <1>8. LeaderInv'
    <2> SUFFICES ASSUME NEW d \in Core, NEW x \in Pid, of'[d][x] # 0
                 PROVE  of'[d][leaders'[of'[d][x]]] = of'[d][x]
      BY DEF LeaderInv
    <2>1. CASE d = c /\ x \in who
      <3>1. of'[d][x] = n BY <1>3, <2>1
      <3> QED BY <1>3, <2>1, <3>1
    <2>2. CASE ~(d = c /\ x \in who)
      <3> DEFINE m == of[d][x]
      <3>1. of'[d][x] = m /\ m # 0 /\ m \in Numbers /\ leaders[m] \in Pid /\ leaders'[m] = leaders[m]
        BY <1>1, <1>2, <1>3, <2>2
      <3>2. of[d][leaders[m]] = m BY <3>1 DEF PairInv, LeaderInv
      <3>3. d = c /\ leaders[m] \in who => m = n BY <3>1, <3>2
      <3> HIDE DEF m
      <3> QED BY <1>3, <3>1, <3>2, <3>3
    <2> QED BY <2>1, <2>2
  <1> QED BY <1>6, <1>7, <1>8 DEF PairInv

LEMMA PairInvited ==
    ASSUME TypeInv, PlaceInv, PairInv, NEW c \in Core, NEW a \in Pid, NEW b \in Pid,
           Invited(c, a, b), Good' => Good
    PROVE  PairInv'
  <1>1. a \in in[c] /\ b \in in[c] /\ a # b /\ link[b] = 0 /\ in' = in /\ stranded' = stranded
    BY DEF Invited, players
  <1>2. leaders \in Seq(Pid) BY DEF TypeInv, HistoryType
  <1>3. CASE undefined' /\ UNCHANGED <<of, link, toDb, leaders, stray>> BY <1>1, <1>3, PairSame
  <1>4. ASSUME NEW n, JoinsParty(c, a, b, n) PROVE PairInv'
    <2>1. /\ n = link[a] /\ n \in Numbers /\ leaders[n] = a /\ of[c][b] \in {0, n}
          /\ leaders' = leaders /\ Put(c, {b}, n) /\ Linking({b}, n)
      BY <1>4 DEF JoinsParty
    <2>2. n \in Nat /\ n # 0 BY <2>1 DEF Numbers
    <2>3. of[c][a] = n BY <1>1, <2>1, <2>2 DEF PairInv, PointerInv
    <2>4. {b} \in SUBSET in[c] /\ \A x \in {b} : of[c][x] \in {0, n} BY <1>1, <2>1
    <2>5. leaders'[n] = a /\ \A m \in Numbers : leaders'[m] = leaders[m] BY <2>1
    <2> HIDE DEF PairInv
    <2> QED BY <1>1, <2>1, <2>2, <2>3, <2>4, <2>5, PairJoin
  <1>5. ASSUME NEW n, Founds(c, a, b, n) PROVE PairInv'
    <2>1. /\ n = Len(leaders) + 1 /\ of[c][a] = 0 /\ of[c][b] = 0
          /\ leaders' = Append(leaders, a) /\ Put(c, {a, b}, n) /\ Linking({a, b}, n)
      BY <1>5 DEF Founds
    <2>2. n \in Nat /\ n # 0 /\ leaders'[n] = a /\ \A m \in Numbers : leaders'[m] = leaders[m]
      BY <1>2, <2>1, Grown DEF Numbers
    <2> DEFINE W == {a, b}
    <2>3. /\ W \in SUBSET in[c] /\ \A x \in W : of[c][x] \in {0, n}
          /\ leaders'[n] \in W /\ leaders'[n] \in Pid /\ Put(c, W, n) /\ Linking(W, n)
      BY <1>1, <2>1, <2>2
    <2> HIDE DEF PairInv, W
    <2> QED BY <1>1, <2>2, <2>3, PairJoin
  <1> QED BY <1>3, <1>4, <1>5 DEF Invited

\* All members of a party leave it, or one who does not lead it.
LEMMA PairParting ==
    ASSUME TypeInv, PlaceInv, PairInv, NEW c \in Core, NEW n, NEW p, NEW s, Worked(c, s),
           Parting(c, n, p, s), Good' => Good
    PROVE  PairInv'
  <1>1. /\ n \in Numbers /\ p \in Pid /\ UNCHANGED <<in, stranded, leaders>>
        /\ \/ Out(c, Members(c, n))
           \/ p # leaders[n] /\ Out(c, {p} \cap Members(c, n))
    BY DEF Parting, Worked, players
  <1>2. ASSUME NEW x \in Pid, of[c][x] # 0
        PROVE  leaders[of[c][x]] \in Pid /\ of[c][leaders[of[c][x]]] = of[c][x]
    <2>1. of[c][x] \in 1 .. Len(leaders) BY <1>2 DEF TypeInv, CoreType, HistoryType
    <2> QED BY <1>2, <2>1 DEF PairInv, LeaderInv, TypeInv, HistoryType
  <1>3. CASE Out(c, Members(c, n))
    <2>1. \A x \in Pid : of[c][x] # 0 /\ leaders[of[c][x]] \in Members(c, n) => x \in Members(c, n)
      BY <1>2 DEF Members
    <2>2. Members(c, n) \in SUBSET Pid BY DEF Members
    <2> HIDE DEF PairInv
    <2> QED BY <1>1, <1>3, <2>1, <2>2, PairOut
  <1>4. CASE p # leaders[n] /\ Out(c, {p} \cap Members(c, n))
    <2> DEFINE W == {p} \cap Members(c, n)
    <2>1. \A x \in Pid : of[c][x] # 0 /\ leaders[of[c][x]] \in W => x \in W
      BY <1>2, <1>4 DEF Members
    <2>2. W \in SUBSET Pid BY DEF Members
    <2> HIDE DEF PairInv, W
    <2>3. Out(c, W) BY <1>4 DEF W
    <2> QED BY <1>1, <2>1, <2>2, <2>3, PairOut
  <1> QED BY <1>1, <1>3, <1>4

\* A core puts a player into a party at a packet: the leader of a new one, or one who
\* joins it.
LEMMA PairRead ==
    ASSUME TypeInv, PlaceInv, PairInv, HereInv, NEW c \in Core, CoreReads(c), ~PlayerLoad(c), Good' => Good
    PROVE  PairInv'
  <1> DEFINE m == Head(toCore[c])
             l == leaders[m.no]
  <1> USE DEF TypeInv
  <1> HIDE DEF PairInv
  <1>1. ASSUME NEW op \in PartyOp, Receive(c, op)
        PROVE  /\ m.op = op /\ m.no \in Numbers /\ m.pid \in Pid /\ l \in Pid
               /\ op \in {"create", "delete"} => m.pid = l
               /\ UNCHANGED <<leaders, stranded>>
               /\ op \in {"create", "add"} => (m.pid \in in[c] => m.pid \in stranded)
    <2>1. /\ m.op = op /\ m.no \in Numbers /\ m.pid \in Pid /\ l \in Pid
          /\ op \in {"create", "delete"} => m.pid = l
          /\ UNCHANGED <<leaders, stranded>>
      BY <1>1, ReceiveIs
    <2>2. m = toCore[c][1] /\ 1 \in 1 .. Len(toCore[c])
      <3> DEFINE K == CorePack(leaders)
      <3>1. toCore[c] \in Seq(K) BY DEF NetType
      <3>2. toCore[c] # <<>> BY <1>1 DEF Receive
      <3> HIDE DEF K, m
      <3> QED BY <3>1, <3>2, TailIs DEF m
    <2> QED BY <2>1, <2>2 DEF HereInv, At
  <1>2. ASSUME NEW n \in Numbers, NEW x \in Pid, of' = [of EXCEPT ![c][x] = n] PROVE Put(c, {x}, n)
    BY <1>2, PutOne
  <1>3. \A x \in Pid : of[c][x] # 0 => of[c][x] \in Numbers BY DEF CoreType, HistoryType, Numbers
  <1>4. ASSUME NEW x \in Pid, of[c][x] # 0
        PROVE  leaders[of[c][x]] \in Pid /\ of[c][leaders[of[c][x]]] = of[c][x]
    <2>1. of[c][x] \in 1 .. Len(leaders) BY <1>4 DEF CoreType, HistoryType
    <2> QED BY <1>4, <2>1 DEF PairInv, LeaderInv, HistoryType
  <1>5. CASE P2PCreateParty(c)
    <2>1. Receive(c, "create") /\ UNCHANGED <<link, in>> BY <1>5 DEF P2PCreateParty, players
    <2>2. /\ m.no \in Numbers /\ m.pid \in Pid /\ m.pid = l /\ UNCHANGED <<leaders, stranded>>
          /\ m.pid \in in[c] => m.pid \in stranded
      BY <1>1, <2>1 DEF PartyOp
    <2>3. CASE of' = of BY <2>1, <2>2, <2>3, PairSame
    <2>4. CASE of[c][m.pid] = 0 /\ of' = [of EXCEPT ![c][m.pid] = m.no]
      <3>1. Put(c, {m.pid}, m.no) BY <1>2, <2>2, <2>4
      <3> HIDE DEF m
      <3> QED BY <2>1, <2>2, <2>4, <3>1, PairPut DEF l
    <2> QED BY <1>5, <2>3, <2>4 DEF P2PCreateParty
  <1>6. CASE P2PJoinParty(c)
    <2> DEFINE n == of[c][l]
    <2>1. Receive(c, "add") /\ UNCHANGED <<link, in>> BY <1>6 DEF P2PJoinParty, players
    <2>2. /\ m.no \in Numbers /\ m.pid \in Pid /\ l \in Pid /\ UNCHANGED <<leaders, stranded>>
          /\ m.pid \in in[c] => m.pid \in stranded
      BY <1>1, <2>1 DEF PartyOp
    <2>3. CASE of' = of BY <2>1, <2>2, <2>3, PairSame
    <2>4. CASE n # 0 /\ of[c][m.pid] \in {0, n} /\ of' = [of EXCEPT ![c][m.pid] = n]
      <3>1. n \in Numbers BY <1>3, <2>2, <2>4
      <3>2. leaders[n] \in Pid /\ of[c][leaders[n]] = n BY <1>4, <2>2, <2>4
      <3> DEFINE x == m.pid
      <3>3. Put(c, {x}, n)
        <4> HIDE DEF n
        <4> QED BY <1>2, <2>2, <2>4, <3>1
      <3>4. x \in Pid /\ of[c][x] \in {0, n} /\ (x \in in[c] => x \in stranded) BY <2>2, <2>4
      <3> HIDE DEF n, x
      <3> QED BY <2>1, <2>2, <3>1, <3>2, <3>3, <3>4, PairPut
    <2> QED BY <1>6, <2>3, <2>4 DEF P2PJoinParty
  <1>7. CASE P2PQuitParty(c)
    <2> DEFINE n == of[c][m.pid]
    <2>1. Receive(c, "remove") /\ in' = in BY <1>7 DEF P2PQuitParty, players
    <2>2. m.pid \in Pid /\ UNCHANGED <<leaders, stranded>> BY <1>1, <2>1 DEF PartyOp
    <2>3. CASE n # 0 /\ leaders[n] = m.pid /\ DeleteParty(c, n)
      <3>1. \A x \in Pid : of[c][x] # 0 /\ leaders[of[c][x]] \in Members(c, n) => x \in Members(c, n)
        BY <1>4 DEF Members
      <3>2. Members(c, n) \in SUBSET Pid /\ Out(c, Members(c, n)) BY <2>3 DEF Members, DeleteParty
      <3> HIDE DEF n, m
      <3> QED BY <2>1, <2>2, <3>1, <3>2, PairOut
    <2>4. CASE ~(n # 0 /\ leaders[n] = m.pid) /\ Out(c, {m.pid})
      <3> DEFINE W == {m.pid}
      <3>1. \A x \in Pid : of[c][x] # 0 /\ leaders[of[c][x]] \in W => x \in W BY <1>4, <2>2, <2>4
      <3>2. W \in SUBSET Pid /\ Out(c, W) BY <2>2, <2>4
      <3> HIDE DEF W, m
      <3> QED BY <2>1, <2>2, <3>1, <3>2, PairOut
    <2> QED BY <1>7, <2>3, <2>4 DEF P2PQuitParty
  <1>8. CASE P2PDeleteParty(c)
    <2> DEFINE n == of[c][m.pid]
    <2>1. Receive(c, "delete") /\ in' = in BY <1>8 DEF P2PDeleteParty, players
    <2>2. UNCHANGED <<leaders, stranded>> BY <1>1, <2>1 DEF PartyOp
    <2>3. CASE UNCHANGED copies BY <2>1, <2>2, <2>3, PairSame DEF copies
    <2>4. CASE Out(c, Members(c, n)) /\ n # 0
      <3>1. \A x \in Pid : of[c][x] # 0 /\ leaders[of[c][x]] \in Members(c, n) => x \in Members(c, n)
        BY <1>4 DEF Members
      <3>2. Members(c, n) \in SUBSET Pid BY DEF Members
      <3> HIDE DEF n, m
      <3> QED BY <2>1, <2>2, <2>4, <3>1, <3>2, PairOut
    <2> QED BY <1>8, <2>3, <2>4 DEF P2PDeleteParty
  <1>9. CASE PartySetMemberLevel(c)
    <2>1. Receive(c, "level") /\ UNCHANGED <<link, in>> BY <1>9 DEF PartySetMemberLevel, players
    <2>2. m.no \in Numbers /\ l \in Pid /\ UNCHANGED <<leaders, stranded>>
      BY <1>1, <2>1 DEF PartyOp
    <2>3. CASE of' = of BY <2>1, <2>2, <2>3, PairSame
    <2>4. CASE of[c][l] = 0 /\ of' = [of EXCEPT ![c][l] = m.no] /\ stray'
      <3> DEFINE n == m.no
      <3>1. Put(c, {l}, n) BY <1>2, <2>2, <2>4
      <3>2. n \in Numbers /\ leaders[n] = l BY <2>2
      <3>3. of[c][l] = 0 BY <2>4
      <3> HIDE DEF n, l, m
      <3> QED BY <2>1, <2>2, <2>4, <3>1, <3>2, <3>3, PairPut
    <2> QED BY <1>9, <2>3, <2>4 DEF PartySetMemberLevel
  <1> QED BY <1>5, <1>6, <1>7, <1>8, <1>9 DEF CoreReads

LEMMA PairEnter ==
    ASSUME TypeInv, PlaceInv, PairInv, NEW c \in Core, NEW p \in Pid, EnterGame(c, p), Good' => Good
    PROVE  PairInv'
  <1>1. /\ p \in loading[c] /\ in' = [in EXCEPT ![c] = @ \cup {p}]
        /\ link' = [link EXCEPT ![p] = of[c][p]] /\ UNCHANGED <<of, leaders, stranded>>
    BY DEF EnterGame, history
  <1>2. /\ \A d \in Core, x \in Pid : x \in in'[d] <=> x \in in[d] \/ (d = c /\ x = p)
        /\ \A x \in Pid : link'[x] = IF x = p THEN of[c][p] ELSE link[x]
        /\ \A d \in Core : in[d] \subseteq Pid /\ in'[d] \subseteq Pid
    BY <1>1 DEF TypeInv, CoreType
  <1>3. \A d \in Core : p \notin in[d]
    BY <1>1 DEF PlaceInv, PlaceOne, PlaceApart, On, At
  <1>4. PointerInv'
    <2>1. \A d \in Core : \A x \in in'[d] : link'[x] # 0 => of[d][x] = link'[x]
      BY <1>2, <1>3 DEF PairInv, PointerInv
    <2>2. \A x \in Pid : link'[x] # 0 => \E d \in Core : x \in in'[d]
      BY <1>2 DEF PairInv, PointerInv
    <2> QED BY <1>1, <2>1, <2>2 DEF PointerInv
  <1>5. LinkedInv'
    <2>1. \A d \in Core : \A x \in in'[d] : Good' /\ x \notin stranded => link'[x] = of[d][x]
      BY <1>2, <1>3 DEF PairInv, LinkedInv
    <2> QED BY <1>1, <2>1 DEF LinkedInv
  <1>6. LeaderInv' BY <1>1 DEF PairInv, LeaderInv
  <1> QED BY <1>4, <1>5, <1>6 DEF PairInv

LEMMA PairLogout ==
    ASSUME TypeInv, PlaceInv, PairInv, NEW c \in Core, NEW p \in Pid, Logout(c, p), Good' => Good
    PROVE  PairInv'
  <1>1. /\ p \in loading[c] \cup in[c] /\ in' = [in EXCEPT ![c] = @ \ {p}]
        /\ link' = [link EXCEPT ![p] = 0] /\ stranded' = stranded \ {p} /\ UNCHANGED <<of, leaders>>
    BY DEF Logout
  <1>2. /\ \A d \in Core, x \in Pid : x \in in'[d] <=> x \in in[d] /\ ~(d = c /\ x = p)
        /\ \A x \in Pid : link'[x] = IF x = p THEN 0 ELSE link[x]
        /\ \A d \in Core : in[d] \subseteq Pid /\ in'[d] \subseteq Pid
    BY <1>1 DEF TypeInv, CoreType
  <1>3. \A d \in Core : p \in in[d] => d = c BY <1>1 DEF PlaceInv, PlaceOne, On, At
  <1>4. PointerInv'
    <2>1. \A d \in Core : \A x \in in'[d] : link'[x] # 0 => of[d][x] = link'[x]
      BY <1>2 DEF PairInv, PointerInv
    <2>2. \A x \in Pid : link'[x] # 0 => \E d \in Core : x \in in'[d]
      BY <1>2 DEF PairInv, PointerInv
    <2> QED BY <1>1, <2>1, <2>2 DEF PointerInv
  <1>5. LinkedInv'
    <2>1. \A d \in Core : \A x \in in'[d] : Good' /\ x \notin stranded' => link'[x] = of[d][x]
      BY <1>1, <1>2, <1>3 DEF PairInv, LinkedInv
    <2> QED BY <1>1, <2>1 DEF LinkedInv
  <1>6. LeaderInv' BY <1>1 DEF PairInv, LeaderInv
  <1> QED BY <1>4, <1>5, <1>6 DEF PairInv

LEMMA PairFault ==
    ASSUME TypeInv, PlaceInv, PairInv, NEW cores, Fault(cores), Good' => Good,
           \A d \in Core : /\ in'[d] \subseteq in[d]
                           /\ d \notin cores =>
                                 in'[d] = in[d] /\ \A x \in in[d] : x \in stranded => x \in stranded'
    PROVE  PairInv'
  <1>1. /\ cores \in SUBSET Core /\ leaders' = leaders
        /\ \A d \in Core : /\ d \in cores => \A p \in Pid : of'[d][p] = 0
                           /\ d \notin cores => of'[d] = of[d]
        /\ \A p \in Pid : link'[p] = IF \E d \in cores : p \in in[d] THEN 0 ELSE link[p]
    BY CutIs DEF Fault
  <1>2. \A d \in Core : in[d] \subseteq Pid BY DEF TypeInv, CoreType
  <1>3. ASSUME NEW d \in Core, NEW x \in in'[d]
        PROVE  /\ x \in Pid /\ x \in in[d]
               /\ d \in cores => of'[d][x] = 0 /\ link'[x] = 0
               /\ d \notin cores => of'[d][x] = of[d][x] /\ link'[x] = link[x]
                                    /\ (x \in stranded => x \in stranded')
    <2>1. x \in Pid /\ x \in in[d] BY <1>2
    <2>2. d \notin cores => ~\E e \in cores : x \in in[e] BY <1>1, <2>1, InOne
    <2> QED BY <1>1, <2>1, <2>2
  <1>4. PointerInv'
    <2>1. \A d \in Core : \A x \in in'[d] : link'[x] # 0 => of'[d][x] = link'[x]
      BY <1>3 DEF PairInv, PointerInv
    <2>2. ASSUME NEW x \in Pid, link'[x] # 0 PROVE \E d \in Core : x \in in'[d]
      <3>1. link[x] # 0 /\ ~\E e \in cores : x \in in[e] BY <1>1, <2>2
      <3>2. PICK d \in Core : x \in in[d] BY <3>1 DEF PairInv, PointerInv
      <3> QED BY <3>1, <3>2
    <2> QED BY <2>1, <2>2 DEF PointerInv
  <1>5. LinkedInv'
    <2>1. \A d \in Core : \A x \in in'[d] : Good' /\ x \notin stranded' => link'[x] = of'[d][x]
      BY <1>3 DEF PairInv, LinkedInv
    <2> QED BY <2>1 DEF LinkedInv
  <1>6. LeaderInv'
    <2> SUFFICES ASSUME NEW d \in Core, NEW x \in Pid, of'[d][x] # 0
                 PROVE  of'[d][leaders'[of'[d][x]]] = of'[d][x]
      BY DEF LeaderInv
    <2>1. d \notin cores /\ of'[d] = of[d] BY <1>1
    <2> QED BY <1>1, <2>1 DEF PairInv, LeaderInv
  <1> QED BY <1>4, <1>5, <1>6 DEF PairInv

LEMMA PairNext ==
    ASSUME TypeInv, PlaceInv, HereInv, PairInv, [Next]_vars
    PROVE  PairInv'
  <1>0. Good' => Good BY GoodNext
  <1> HIDE DEF PairInv
  <1>1. CASE UNCHANGED vars BY <1>0, <1>1, PairSame DEF vars, copies, players, history
  <1>2. ASSUME NEW c \in Core, NEW p \in Pid, NEW q \in Pid, InviteAccept(c, p, q) PROVE PairInv'
    BY <1>0, <1>2, InvitedIs, PairInvited
  <1>3. ASSUME NEW c \in Core, NEW p \in Pid, NEW q \in Pid, PartyRemove(c, p, q) PROVE PairInv'
    <2>1. PICK s : Worked(c, s) /\ Parting(c, link[p], q, s) BY <1>3, PartyRemoveShape
    <2> QED BY <1>0, <2>1, PairParting
  <1>4. ASSUME NEW c \in Core, NEW p \in Pid, Ungroup(c, p) PROVE PairInv'
    <2>1. PICK s : Worked(c, s) /\ Parting(c, link[p], p, s) BY <1>4, UngroupShape
    <2> QED BY <1>0, <2>1, PairParting
  <1>5. ASSUME NEW c \in Core, NEW p \in Pid, LevelUp(c, p) \/ Login(c, p) PROVE PairInv'
    BY <1>0, <1>5, PairSame DEF LevelUp, Request, Login, copies, players, history
  <1>6. ASSUME NEW c \in Core, NEW p \in Pid, EnterGame(c, p) PROVE PairInv'
    BY <1>0, <1>6, PairEnter
  <1>7. ASSUME NEW c \in Core, NEW p \in Pid, Logout(c, p) PROVE PairInv'
    BY <1>0, <1>7, PairLogout
  <1>8. ASSUME NEW c \in Core, NEW op, Handle(c, op) PROVE PairInv'
    BY <1>0, <1>8, PairSame DEF Handle, copies, players
  <1>9. ASSUME NEW c \in Core, DaemonReads(c) PROVE PairInv'
    BY <1>8, <1>9 DEF DaemonReads, QUERY_PARTY_CREATE, QUERY_PARTY_DELETE, QUERY_PARTY_ADD,
       QUERY_PARTY_REMOVE, QUERY_PARTY_SET_MEMBER_LEVEL, QUERY_LOGOUT, QUERY_SETUP
  <1>10. ASSUME NEW c \in Core, CoreReads(c) PROVE PairInv'
    <2>1. CASE PlayerLoad(c)
      BY <1>0, <2>1, PairSame DEF PlayerLoad, Receive, copies
    <2> QED BY <1>0, <1>10, <2>1, PairRead
  <1>11. ASSUME NEW c \in Core, LinkDrops(c) PROVE PairInv'
    <2>1. Fault({c}) BY <1>11, FaultShape
    <2>2. in' = in /\ stranded \subseteq stranded' BY <1>11 DEF LinkDrops, players
    <2> QED BY <1>0, <2>1, <2>2, PairFault
  <1>12. ASSUME NEW c \in Core, CoreCrash(c) PROVE PairInv'
    <2>1. Fault({c}) BY <1>12, FaultShape
    <2>2. in' = [in EXCEPT ![c] = {}] /\ stranded' = stranded \ (loading[c] \cup in[c])
      BY <1>12 DEF CoreCrash
    <2>3. /\ in \in [Core -> SUBSET Pid]
          /\ \A d \in Core, x \in Pid : x \in in[d] /\ (x \in loading[c] \/ x \in in[c]) => d = c
      BY DEF TypeInv, CoreType, PlaceInv, PlaceOne, On, At
    <2>4. \A d \in Core : /\ in'[d] \subseteq in[d]
                          /\ d \notin {c} =>
                                in'[d] = in[d] /\ \A x \in in[d] : x \in stranded => x \in stranded'
      BY <2>2, <2>3
    <2> QED BY <1>0, <2>1, <2>4, PairFault
  <1>13. ASSUME DaemonRestart PROVE PairInv'
    <2>1. Fault(Core) /\ in' = in BY <1>13, FaultShape DEF DaemonRestart, players
    <2> QED BY <1>0, <2>1, PairFault
  <1>14. ASSUME NEW c \in Core, Reconnect(c) PROVE PairInv'
    BY <1>0, <1>14, PairSame DEF Reconnect, copies, players, history
  <1>15. ASSUME NEW c \in Core, Step(c) PROVE PairInv'
    BY <1>2, <1>3, <1>4, <1>5, <1>6, <1>7, <1>9, <1>10, <1>11, <1>12, <1>14, <1>15 DEF Step
  <1> QED BY <1>1, <1>13, <1>15 DEF Next

LEMMA FirstStates ==
    ASSUME Init
    PROVE  PlaceInv /\ PeerInv /\ MadeInv /\ HereInv /\ PairInv
  <1>1. PICK core \in [Pid -> Core] : in = [c \in Core |-> {p \in Pid : core[p] = c}] BY DEF Init
  <1>2. \A c \in Core : loading[c] = {} /\ toDb[c] = <<>> /\ toCore[c] = <<>> /\ c \in peer /\ up[c]
    BY DEF Init
  <1>3. \A c \in Core : Len(toDb[c]) = 0 /\ Len(toCore[c]) = 0
                        /\ ToSet(toDb[c]) = {} /\ ToSet(toCore[c]) = {}
    BY <1>2, Nothing
  <1>4. PlaceInv
    <2>1. \A c \in Core, p \in Pid : On(c, p) <=> core[p] = c
      BY <1>1, <1>2, <1>3 DEF On, At, Coming, Going
    <2>2. PlaceLocked BY DEF PlaceLocked, Init
    <2>3. PlaceOne BY <2>1 DEF PlaceOne
    <2>4. PlaceApart BY <1>2, <1>3 DEF PlaceApart, Coming, Going
    <2>5. PlaceOnce BY <1>2, Nothing DEF PlaceOnce
    <2> QED BY <2>2, <2>3, <2>4, <2>5 DEF PlaceInv
  <1>5. PeerInv BY <1>2, <1>3 DEF PeerInv
  <1>6. MadeInv BY <1>3 DEF MadeInv
  <1>7. HereInv BY <1>3 DEF HereInv
  <1>8. PairInv
    <2>1. /\ \A c \in Core, p \in Pid : of[c][p] = 0 /\ link[p] = 0
          /\ \A c \in Core : in[c] \subseteq Pid
      BY <1>1 DEF Init
    <2> QED BY <2>1 DEF PairInv, PointerInv, LinkedInv, LeaderInv
  <1> QED BY <1>4, <1>5, <1>6, <1>7, <1>8

\* What is known of places, packets and pointers.
PlacesInv == TypeInv /\ PlaceInv /\ PeerInv /\ MadeInv /\ HereInv /\ PairInv

\* Every state has its types; a player is on one core at most, or on his way to it or
\* from it; SETUP comes first on a new connection; a core says CREATE and ADD of players
\* it has, and the other cores hear that before they load the player; and the parties of
\* a core have their leaders in them.
THEOREM PlacesHold == Spec => []PlacesInv
  <1>1. Init => PlacesInv BY TypeInit, FirstStates DEF PlacesInv
  <1>2. PlacesInv /\ [Next]_vars => PlacesInv'
    <2> SUFFICES ASSUME PlacesInv, [Next]_vars PROVE PlacesInv' OBVIOUS
    <2>1. TypeInv /\ PlaceInv /\ PeerInv /\ MadeInv /\ HereInv /\ PairInv BY DEF PlacesInv
    <2>2. TypeInv' BY <2>1, TypeNext
    <2>3. PlaceInv' BY <2>1, PlaceNext
    <2>4. PeerInv' BY <2>1, PeerNext
    <2>5. MadeInv' BY <2>1, MadeNext
    <2>6. HereInv' BY <2>1, HereNext
    <2>7. PairInv' BY <2>1, PairNext
    <2> QED BY <2>2, <2>3, <2>4, <2>5, <2>6, <2>7 DEF PlacesInv
  <1> QED BY <1>1, <1>2, PTL DEF Spec

\* m_pkParty of a character in the game is the party its core has it in, whatever was
\* asked for on which core and whichever connection broke, but for those who were on a
\* core when its connection broke and until a packet goes astray.
THEOREM LinkedHolds == Spec => []Linked
  <1>1. PlacesInv => Linked
    BY DEF PlacesInv, PairInv, LinkedInv, Linked, Good
  <1> QED BY <1>1, PlacesHold, PTL

=============================================================================
