--------------------------- MODULE Wedding_proofs ---------------------------
(***************************************************************************)
(* The cores' copies of the couples agree with the daemon, a wedding that  *)
(* a core shows is one the daemon has or is about to have, and the hall of *)
(* a wedding is told to close: for any number of players, couples, cores,  *)
(* weddings and connection faults.                                         *)
(*                                                                         *)
(* None of the three is inductive.  Each speaks of what a core knows now,  *)
(* and a step of the daemon changes what the core will know only when it   *)
(* has read its queue.  So each part of the inductive invariant below      *)
(* speaks of the core as it will be after every prefix of its queue.       *)
(***************************************************************************)
EXTENDS Wedding, FiniteSetTheorems, WellFoundedInduction, TLAPS

Status == {"none", "engaged", "married"}

\* The packets that a core sends to the daemon, and those the daemon tells the cores.
Plain == [op : {"add", "remove", "end", "request"}, pair : Couple]
Updates(s) == [op : {"update"}, pair : Couple, status : s]
Readies == [op : {"ready"}, pair : Couple, map : Nat \ {0}]
Asked == Plain \cup Updates({"married"}) \cup Readies
Told == Plain \cup Updates({"engaged", "married"}) \cup Readies

DaemonType ==
    /\ couple \in [Couple -> Status]
    /\ starts \in SUBSET [left : Nat, map : Nat \ {0}, pair : Couple]
    /\ ends \in SUBSET [left : Nat, pair : Couple]
    /\ running \in [Couple -> Nat]
CopyType ==
    /\ bond \in [Core -> [Couple -> Status]]
    /\ info \in [Core -> [Couple -> Nat]]
HallType ==
    /\ nextMap \in Nat \ {0}
    /\ DOMAIN hall \subseteq 1 .. nextMap - 1
    /\ hall \in [DOMAIN hall -> [pair : Couple, ending : BOOLEAN]]
NetType ==
    /\ up \in [Core -> BOOLEAN] /\ synced \in [Core -> BOOLEAN]
    /\ toDb \in [Core -> Seq(Asked)] /\ toCore \in [Core -> Seq(Told)]
HistoryType ==
    /\ asked \subseteq Couple /\ doubled \subseteq Couple /\ parted \subseteq Couple
    /\ quests \in Nat /\ weddings \in Nat /\ faults \in Nat
TypeInv == DaemonType /\ CopyType /\ HallType /\ NetType /\ HistoryType

Sharing(k, l) == {k[1], k[2]} \cap {l[1], l[2]} # {}

\* A player is in one couple at most, and the daemon has finitely many of them.
CoupleInv ==
    /\ \A k, l \in Couple : couple[k] # "none" /\ couple[l] # "none" /\ Sharing(k, l) => k = l
    /\ IsFiniteSet({k \in Couple : couple[k] # "none"})
    /\ IsFiniteSet({k \in Couple : running[k] # 0})

\* Nothing is on its way to or from a core without a connection.
LinkInv ==
    /\ \A c \in Core : ~up[c] =>
          /\ toDb[c] = <<>> /\ toCore[c] = <<>>
          /\ synced[c] => bond[c] = Nobody /\ info[c] = Nowhere
    /\ faults = 0 => \A c \in Core : up[c] /\ synced[c]

\* A core shows weddings only of couples it has.
BondInv == \A c \in Core, k \in Couple : info[c][k] # 0 => bond[c][k] # "none"

-----------------------------------------------------------------------------
(* CopyInv: the couples a core will have when it has read its queue q are  *)
(* the daemon's.  Every packet finds the core in a state in which its      *)
(* handler does what the packet says (Accepted), the last packet about a   *)
(* couple says what the daemon has (Recent), and a couple that no packet   *)
(* is about is up to date, or the core's own UPDATE is on its way.         *)

About(p, k) == p.pair = k /\ p.op \in {"add", "update", "remove"}
NoneAbout(q, i, j, k) == \A n \in i .. j : ~About(q[n], k)

\* A core with the couples b has k after the first i packets of its queue.
Has(b, q, i, k) ==
    \/ b[k] # "none" /\ NoneAbout(q, 1, i, k)
    \/ \E j \in 1 .. i : About(q[j], k) /\ q[j].op # "remove" /\ NoneAbout(q, j + 1, i, k)
Says(p) == CASE p.op = "add" -> "engaged" [] p.op = "update" -> p.status [] OTHER -> "none"

Accepted(b, q) ==
    \A i \in 1 .. Len(q) :
       /\ q[i].op = "add" => \A l \in Couple : Sharing(l, q[i].pair) => ~Has(b, q, i - 1, l)
       /\ q[i].op = "update" => Has(b, q, i - 1, q[i].pair)
Recent(q, of) ==
    \A k \in Couple, j \in 1 .. Len(q) :
       About(q[j], k) /\ NoneAbout(q, j + 1, Len(q), k) => of[k] = Says(q[j])
Settled(b, q, d, of) ==
    \A k \in Couple : NoneAbout(q, 1, Len(q), k) =>
       \/ b[k] = of[k]
       \/ b[k] = "married" /\ of[k] = "engaged" /\ On(d, "update", k)
InStep(b, q, d, of) == Accepted(b, q) /\ Recent(q, of) /\ Settled(b, q, d, of)
CopyInv == \A c \in Core : up[c] /\ synced[c] => InStep(bond[c], toCore[c], toDb[c], couple)

-----------------------------------------------------------------------------
(* ShowInv: a wedding that a core shows, or will show once it has read     *)
(* READY, is one the daemon has ahead of it or is having, or END or REMOVE *)
(* is further behind in the queue.                                         *)

Shown(n, q, i, k) ==
    \/ i = 0 /\ n[k] # 0
    \/ i > 0 /\ q[i].op = "ready" /\ q[i].pair = k
Over(q, i, k) == \E j \in i + 1 .. Len(q) : q[j].pair = k /\ q[j].op \in {"end", "remove"}
ShowOf(n, q, ahead) ==
    \A k \in Couple, i \in 0 .. Len(q) : Shown(n, q, i, k) => k \in ahead \/ Over(q, i, k)
Ahead == {k \in Couple : running[k] # 0 \/ \E s \in starts : s.pair = k}
ShowInv ==
    \A c \in Core : up[c] /\ synced[c] /\ (c = Host => faults = 0)
                     => ShowOf(info[c], toCore[c], Ahead)

-----------------------------------------------------------------------------
(* MapInv: while no connection has failed, every READY under way, and      *)
(* every wedding the host shows, names an open hall of its couple, and no  *)
(* two of them name the same one.                                          *)

Open(h, k, m) == m \in DOMAIN h /\ h[m] = [pair |-> k, ending |-> FALSE]
IsReady(p) == p.op = "ready"
OpenIn(h, q) == \A i \in 1 .. Len(q) : IsReady(q[i]) => Open(h, q[i].pair, q[i].map)
OnceIn(q) ==
    \A i, j \in 1 .. Len(q) : IsReady(q[i]) /\ IsReady(q[j]) /\ q[i].map = q[j].map => i = j
NotIn(q, m) == \A i \in 1 .. Len(q) : IsReady(q[i]) => q[i].map # m
MapOf(h, d, q, n) ==
    /\ OpenIn(h, d) /\ OpenIn(h, q) /\ OnceIn(d) /\ OnceIn(q)
    /\ \A i \in 1 .. Len(d) : IsReady(d[i]) => NotIn(q, d[i].map)
    /\ \A k \in Couple : n[k] # 0 => Open(h, k, n[k]) /\ NotIn(d, n[k]) /\ NotIn(q, n[k])
MapInv == faults = 0 =>
    /\ \A c \in Core \ {Host} : \A i \in 1 .. Len(toDb[c]) : ~IsReady(toDb[c][i])
    /\ MapOf(hall, toDb[Host], toCore[Host], info[Host])

-----------------------------------------------------------------------------
(* OneInv: of a couple that asked once and has not parted, one of REQUEST, *)
(* READY, the planned start and the planned end exists at a time.          *)

Plainly(k) == faults = 0 /\ k \notin parted \cup doubled
IsOn(q, i, op, k) == i \in 1 .. Len(q) /\ q[i].op = op /\ q[i].pair = k
Requested(k) == On(toCore[Host], "request", k)
Readied(k) == On(toDb[Host], "ready", k)
ToStart(k) == \E s \in starts : s.pair = k
ToEnd(k) == \E e \in ends : e.pair = k
Once(q, op, k) ==
    \A i, j \in 1 .. Len(q) : IsOn(q, i, op, k) /\ IsOn(q, j, op, k) => i = j
TokenOf(k) ==
    /\ Requested(k) \/ Readied(k) \/ ToStart(k) \/ ToEnd(k) => k \in asked /\ couple[k] # "none"
    /\ Requested(k) => ~Readied(k) /\ ~ToStart(k) /\ ~ToEnd(k)
    /\ Readied(k) => ~ToStart(k) /\ ~ToEnd(k)
    /\ ToStart(k) => ~ToEnd(k)
    /\ Once(toCore[Host], "request", k) /\ Once(toDb[Host], "ready", k)
    /\ \A s, t \in starts : s.pair = k /\ t.pair = k => s = t
    /\ \A d, e \in ends : d.pair = k /\ e.pair = k => d = e
    /\ running[k] # 0 => ToEnd(k)
OneInv == \A k \in Couple : Plainly(k) => TokenOf(k)

\* The host has the couple when READY comes back to it.
Heard(b, q, k) == \A i \in 1 .. Len(q) : IsOn(q, i, "ready", k) => Has(b, q, i - 1, k)
HeardInv == \A k \in Couple : Plainly(k) => Heard(bond[Host], toCore[Host], k)

-----------------------------------------------------------------------------
(* HallInv: an open hall of such a couple has its READY on the way to the  *)
(* daemon; or the host will know the hall once it has read its queue, and  *)
(* the wedding is planned or on; or END is in the queue, and the host will *)
(* know the hall when it reads it.                                         *)

Quiet(q, i, j, k) == \A n \in i .. j : q[n].pair = k => q[n].op \notin {"end", "remove", "ready"}

\* The host knows that k has the hall m after the first j packets of its queue.
Knows(n, q, j, k, m) ==
    \/ n[k] = m /\ Quiet(q, 1, j, k)
    \/ \E i \in 1 .. j : q[i] = Ready(k, m) /\ Quiet(q, i + 1, j, k)
Ended(n, q, k, m) == \E i \in 1 .. Len(q) : IsOn(q, i, "end", k) /\ Knows(n, q, i - 1, k, m)
Holds(q, p) == \E i \in 1 .. Len(q) : q[i] = p
Going(k, m) == (\E s \in starts : s.pair = k /\ s.map = m) \/ running[k] = m
HallOf(k, m) ==
    \/ Holds(toDb[Host], Ready(k, m))
    \/ Knows(info[Host], toCore[Host], Len(toCore[Host]), k, m) /\ Going(k, m)
    \/ Ended(info[Host], toCore[Host], k, m)
HallInv == \A k \in Couple : \A m \in DOMAIN hall :
    hall[m].pair = k /\ ~hall[m].ending /\ Plainly(k) => HallOf(k, m)

-----------------------------------------------------------------------------
(* Packets, queues and lists of packets *)

\* What the constructors of packets make.
LEMMA PacketKinds ==
    ASSUME NEW k \in Couple
    PROVE  /\ \A op \in {"add", "remove", "end", "request"} :
                 Packet(op, k) \in Asked /\ Packet(op, k) \in Told
           /\ \A op : Packet(op, k).op = op /\ Packet(op, k).pair = k
           /\ Update(k, "married") \in Asked
           /\ \A s \in {"engaged", "married"} : Update(k, s) \in Told
           /\ \A s : Update(k, s).op = "update" /\ Update(k, s).pair = k /\ Update(k, s).status = s
           /\ \A m \in Nat \ {0} : Ready(k, m) \in Asked /\ Ready(k, m) \in Told
           /\ \A m : Ready(k, m).op = "ready" /\ Ready(k, m).pair = k /\ Ready(k, m).map = m
  BY DEF Packet, Update, Ready, Asked, Told, Plain, Updates, Readies

\* The fields of a packet that the daemon tells.
LEMMA ToldFacts ==
    ASSUME NEW p \in Told
    PROVE  /\ p.pair \in Couple
           /\ p.op \in {"add", "remove", "end", "request", "update", "ready"}
           /\ p.op = "update" => p.status \in {"engaged", "married"} /\ p = Update(p.pair, p.status)
           /\ p.op = "ready" => p.map \in Nat \ {0} /\ p = Ready(p.pair, p.map)
  BY DEF Update, Ready, Told, Plain, Updates, Readies

\* What a core sends may be forwarded as it is; an UPDATE from a core says married.
LEMMA AskedFacts ==
    ASSUME NEW p \in Asked
    PROVE  p \in Told /\ (p.op = "update" => p.status = "married")
  BY DEF Asked, Told, Plain, Updates, Readies

\* A queue without its head.
LEMMA HeadIs ==
    ASSUME NEW S, NEW q \in Seq(S), q # <<>>
    PROVE  /\ Head(q) = q[1] /\ Head(q) \in S /\ Tail(q) \in Seq(S)
           /\ Len(q) \in Nat /\ Len(q) > 0 /\ Len(Tail(q)) = Len(q) - 1
           /\ \A i \in 1 .. Len(q) - 1 : Tail(q)[i] = q[i + 1]
  OBVIOUS

\* A queue with one more packet.
LEMMA AppendIs ==
    ASSUME NEW S, NEW q \in Seq(S), NEW p \in S
    PROVE  /\ Append(q, p) \in Seq(S) /\ Len(Append(q, p)) = Len(q) + 1 /\ Len(q) \in Nat
           /\ \A i \in 1 .. Len(q) : Append(q, p)[i] = q[i]
           /\ Append(q, p)[Len(q) + 1] = p
           /\ q \o <<p>> = Append(q, p)
  <1>1. <<p>> \in Seq(S) /\ Len(<<p>>) = 1 /\ <<p>>[1] = p OBVIOUS
  <1>2. q \o <<p>> \in Seq(S) /\ Len(q \o <<p>>) = Len(q) + 1 BY <1>1
  <1>3. ASSUME NEW i \in 1 .. Len(q) + 1 PROVE (q \o <<p>>)[i] = Append(q, p)[i]
    BY <1>1, <1>3
  <1> QED BY <1>1, <1>2, <1>3

\* Sequences that agree everywhere are the same.
LEMMA SameSequence ==
    ASSUME NEW S, NEW s \in Seq(S), NEW r \in Seq(S), Len(s) = Len(r),
           \A i \in 1 .. Len(s) : s[i] = r[i]
    PROVE  s = r
  OBVIOUS

\* The places of a concatenation.
LEMMA ConcatIs ==
    ASSUME NEW S, NEW q \in Seq(S), NEW r \in Seq(S)
    PROVE  /\ q \o r \in Seq(S) /\ Len(q) \in Nat /\ Len(r) \in Nat
           /\ Len(q \o r) = Len(q) + Len(r)
           /\ \A i \in 1 .. Len(q) : (q \o r)[i] = q[i]
           /\ \A i \in 1 .. Len(q \o r) : i > Len(q) =>
                 i - Len(q) \in 1 .. Len(r) /\ (q \o r)[i] = r[i - Len(q)]
  OBVIOUS

\* SetToSeq lists each element of a finite set.
LEMMA Enumerates ==
    ASSUME NEW S, IsFiniteSet(S)
    PROVE  /\ SetToSeq(S) \in Seq(S)
           /\ \A i, j \in 1 .. Len(SetToSeq(S)) : SetToSeq(S)[i] = SetToSeq(S)[j] => i = j
           /\ \A x \in S : \E i \in 1 .. Len(SetToSeq(S)) : SetToSeq(S)[i] = x
  <1> DEFINE n == Cardinality(S)
             s == SetToSeq(S)
  <1>1. n \in Nat /\ ExistsBijection(1 .. n, S) BY FS_CardinalityType
  <1>2. s = CHOOSE f \in [1 .. n -> S] : IsInjective(f) BY DEF SetToSeq
  <1>3. \E f \in [1 .. n -> S] : IsInjective(f)
    BY <1>1 DEF ExistsBijection, Bijection, Injection
  <1>4. s \in [1 .. n -> S] /\ IsInjective(s) BY <1>2, <1>3
  <1> HIDE DEF s
  <1>5. s \in Injection(1 .. n, S) BY <1>4 DEF Injection
  <1>6. Cardinality(1 .. n) = n BY <1>1, FS_Interval
  <1>7. Cardinality(S) = n OBVIOUS
  <1> HIDE DEF n
  <1>8. s \in Surjection(1 .. n, S) BY <1>5, <1>6, <1>7, FS_Injection
  <1>9. s \in Seq(S) /\ Len(s) = n BY <1>1, <1>4
  <1>10. \A i, j \in 1 .. n : s[i] = s[j] => i = j BY <1>4 DEF IsInjective
  <1>11. \A x \in S : \E i \in 1 .. n : s[i] = x BY <1>8 DEF Surjection
  <1> QED BY <1>9, <1>10, <1>11 DEF s

\* SetToSeq of no element.
LEMMA EnumeratesNone == SetToSeq({}) = <<>>
  <1>1. IsFiniteSet({}) BY FS_EmptySet
  <1> DEFINE s == SetToSeq({})
  <1>2. s \in Seq({}) BY <1>1, Enumerates
  <1> HIDE DEF s
  <1>3. s = <<>> BY <1>2
  <1> QED BY <1>3 DEF s

\* SetToSeq of one element.
LEMMA EnumeratesOne == ASSUME NEW x PROVE SetToSeq({x}) = <<x>>
  <1>1. IsFiniteSet({x}) BY FS_Singleton
  <1> DEFINE s == SetToSeq({x})
  <1>2. /\ s \in Seq({x})
        /\ \A i, j \in 1 .. Len(s) : s[i] = s[j] => i = j
        /\ \E i \in 1 .. Len(s) : s[i] = x
    BY <1>1, Enumerates
  <1> HIDE DEF s
  <1>3. Len(s) \in Nat /\ Len(s) >= 1 /\ \A i \in 1 .. Len(s) : s[i] = x BY <1>2
  <1>4. Len(s) = 1
    <2>1. ASSUME Len(s) >= 2 PROVE FALSE
      <3>1. 1 \in 1 .. Len(s) /\ 2 \in 1 .. Len(s) BY <1>3, <2>1
      <3>2. s[1] = s[2] BY <1>3, <3>1
      <3> QED BY <1>2, <3>1, <3>2
    <2> QED BY <1>3, <2>1
  <1>5. s = <<x>> BY <1>2, <1>3, <1>4
  <1> QED BY <1>5 DEF s

\* What the daemon finds of one player is one engagement at most.
LEMMA EngagedIs ==
    ASSUME TypeInv, CoupleInv, NEW pid, NEW gone \in {{}, Engaged(pid)}
    PROVE  \/ gone = {}
           \/ \E k \in Couple : gone = {k} /\ couple[k] = "engaged" /\ pid \in {k[1], k[2]}
  <1>1. ASSUME NEW k \in Engaged(pid), NEW l \in Engaged(pid) PROVE k = l
    BY <1>1 DEF Engaged, CoupleInv, Sharing
  <1>2. \A k \in Engaged(pid) : k \in Couple /\ couple[k] = "engaged" /\ pid \in {k[1], k[2]}
    BY DEF Engaged
  <1> QED BY <1>1, <1>2

\* Concatenations of lists of one or no packet.
LEMMA Joined == \A a, b : <<a>> \o <<b>> = <<a, b>> /\ <<a>> \o <<>> = <<a>>
  <1> SUFFICES ASSUME NEW a, NEW b PROVE <<a>> \o <<b>> = <<a, b>> /\ <<a>> \o <<>> = <<a>>
    OBVIOUS
  <1>1. <<a>> \in Seq({a, b}) /\ b \in {a, b} OBVIOUS
  <1>2. <<a>> \o <<b>> = Append(<<a>>, b) BY <1>1, AppendIs
  <1>3. Append(<<a>>, b) = <<a, b>>
    <2> DEFINE r == Append(<<a>>, b)
               s == <<a, b>>
    <2>1. r \in Seq({a, b}) /\ Len(r) = 2 /\ r[1] = a /\ r[2] = b BY <1>1, AppendIs
    <2>2. s \in Seq({a, b}) /\ Len(s) = 2 /\ s[1] = a /\ s[2] = b OBVIOUS
    <2> HIDE DEF r, s
    <2>3. \A i \in 1 .. Len(r) : r[i] = s[i] BY <2>1, <2>2
    <2>4. r = s BY <2>1, <2>2, <2>3, SameSequence
    <2> QED BY <2>4 DEF r, s
  <1>4. <<a>> \o <<>> = <<a>> BY <1>1
  <1> QED BY <1>2, <1>3, <1>4

\* What is told of those parted by the end of a wedding.
LEMMA GoneTold ==
    ASSUME NEW gone, gone = {} \/ \E k \in Couple : gone = {k}, NEW e \in Couple
    PROVE  /\ gone = {} => <<Packet("end", e)>> \o SetToSeq({Packet("remove", k) : k \in gone})
                            = <<Packet("end", e)>>
           /\ \A k \in gone : <<Packet("end", e)>> \o SetToSeq({Packet("remove", l) : l \in gone})
                               = <<Packet("end", e), Packet("remove", k)>>
  <1>1. CASE gone = {}
    <2>1. {Packet("remove", k) : k \in gone} = {} BY <1>1
    <2>2. SetToSeq({Packet("remove", k) : k \in gone}) = <<>> BY <2>1, EnumeratesNone
    <2> QED BY <1>1, <2>2, Joined
  <1>2. ASSUME NEW k \in gone PROVE gone = {k} => <<Packet("end", e)>> \o SetToSeq({Packet("remove", l) : l \in gone})
                               = <<Packet("end", e), Packet("remove", k)>>
    <2> SUFFICES ASSUME gone = {k} PROVE <<Packet("end", e)>> \o SetToSeq({Packet("remove", l) : l \in gone})
                               = <<Packet("end", e), Packet("remove", k)>>
      OBVIOUS
    <2>1. {Packet("remove", l) : l \in gone} = {Packet("remove", k)} OBVIOUS
    <2>2. SetToSeq({Packet("remove", l) : l \in gone}) = <<Packet("remove", k)>> BY <2>1, EnumeratesOne
    <2>3. <<Packet("end", e)>> \o <<Packet("remove", k)>> = <<Packet("end", e), Packet("remove", k)>>
      BY Joined
    <2> QED BY <2>2, <2>3
  <1> QED BY <1>1, <1>2

\* SETUP: each couple of the daemon once as ADD, then as UPDATE, and the weddings under way.
SetupShape(n, t) ==
    /\ n \in Nat /\ n <= Len(Setup)
    /\ \A i \in 1 .. Len(Setup) : i > n =>
          \E k \in Couple : running[k] # 0 /\ Setup[i] = Ready(k, running[k])
    /\ t \in [1 .. n -> Couple]
    /\ \A i \in 1 .. n :
          /\ couple[t[i]] # "none"
          /\ \/ /\ Setup[i] = Packet("add", t[i]) /\ i + 1 \in 1 .. n /\ t[i + 1] = t[i]
                /\ Setup[i + 1] = Update(t[i], couple[t[i]])
             \/ /\ Setup[i] = Update(t[i], couple[t[i]]) /\ i - 1 \in 1 .. n /\ t[i - 1] = t[i]
                /\ Setup[i - 1] = Packet("add", t[i])
    /\ \A i, j \in 1 .. n : t[i] = t[j] =>
          \/ i = j
          \/ i = j + 1 /\ Setup[j] = Packet("add", t[i])
          \/ j = i + 1 /\ Setup[i] = Packet("add", t[i])
    /\ \A k \in Couple : couple[k] # "none" => \E i \in 1 .. n : t[i] = k

\* CManager::OnSetup tells a core one ADD for every couple, one UPDATE for the
\* married ones, and the weddings under way after them.
LEMMA SetupIs ==
    ASSUME TypeInv, CoupleInv
    PROVE  Setup \in Seq(Told) /\ \E n, t : SetupShape(n, t)
  <1> DEFINE known == SetToSeq({k \in Couple : couple[k] # "none"})
             begun == SetToSeq({k \in Couple : running[k] # 0})
             a == [i \in 1 .. 2 * Len(known) |->
                      IF i % 2 = 1 THEN Packet("add", known[(i + 1) \div 2])
                      ELSE Update(known[(i + 1) \div 2], couple[known[(i + 1) \div 2]])]
             b == [i \in 1 .. Len(begun) |-> Ready(begun[i], running[begun[i]])]
             n == 2 * Len(known)
             t == [i \in 1 .. n |-> known[(i + 1) \div 2]]
  <1>1. /\ known \in Seq({k \in Couple : couple[k] # "none"})
        /\ \A i, j \in 1 .. Len(known) : known[i] = known[j] => i = j
        /\ \A k \in Couple : couple[k] # "none" => \E i \in 1 .. Len(known) : known[i] = k
    BY Enumerates DEF CoupleInv
  <1>2. begun \in Seq({k \in Couple : running[k] # 0})
    BY Enumerates DEF CoupleInv
  <1>3. Setup = a \o b BY DEF Setup
  <1> HIDE DEF known, begun
  <1>4. Len(known) \in Nat /\ \A i \in 1 .. Len(known) : known[i] \in Couple /\ couple[known[i]] \in {"engaged", "married"}
    BY <1>1 DEF TypeInv, DaemonType, Status
  <1>5. Len(begun) \in Nat /\ \A i \in 1 .. Len(begun) : begun[i] \in Couple /\ running[begun[i]] \in Nat \ {0}
    BY <1>2 DEF TypeInv, DaemonType
  <1>6. \A i \in 1 .. n : (i + 1) \div 2 \in 1 .. Len(known) BY <1>4
  <1>7. a \in Seq(Told) /\ Len(a) = n
    <2>1. ASSUME NEW i \in 1 .. n PROVE a[i] \in Told
      <3>1. known[(i + 1) \div 2] \in Couple /\ couple[known[(i + 1) \div 2]] \in {"engaged", "married"} BY <1>4, <1>6
      <3> QED BY <3>1, PacketKinds
    <2>2. a \in [1 .. n -> Told] BY <2>1
    <2> QED BY <1>4, <2>2
  <1>8. b \in Seq(Told) /\ Len(b) = Len(begun)
    <2>1. ASSUME NEW i \in 1 .. Len(begun) PROVE b[i] \in Told BY <1>5, PacketKinds
    <2>2. b \in [1 .. Len(begun) -> Told] BY <2>1
    <2> QED BY <1>5, <2>2
  <1>9. /\ Setup \in Seq(Told) /\ Len(Setup) = n + Len(begun) /\ n \in Nat
        /\ \A i \in 1 .. n : Setup[i] = a[i]
        /\ \A i \in 1 .. Len(Setup) : i > n => i - n \in 1 .. Len(begun) /\ Setup[i] = b[i - n]
    <2> HIDE DEF a, b
    <2>1. n \in Nat BY <1>4
    <2>2. Len(begun) \in Nat BY <1>5
    <2>3. a \in Seq(Told) /\ b \in Seq(Told) BY <1>7, <1>8
    <2>4. /\ a \o b \in Seq(Told) /\ Len(a \o b) = Len(a) + Len(b)
          /\ \A i \in 1 .. Len(a) : (a \o b)[i] = a[i]
          /\ \A i \in 1 .. Len(a \o b) : i > Len(a) =>
                i - Len(a) \in 1 .. Len(b) /\ (a \o b)[i] = b[i - Len(a)]
      BY <2>3, ConcatIs
    <2>5. Len(a) = n /\ Len(b) = Len(begun) BY <1>7, <1>8
    <2> QED BY ONLY <1>3, <2>1, <2>4, <2>5
  <1>10. \A i \in 1 .. Len(Setup) : i > n => \E k \in Couple : running[k] # 0 /\ Setup[i] = Ready(k, running[k])
    <2> SUFFICES ASSUME NEW i \in 1 .. Len(Setup), i > n
                 PROVE  \E k \in Couple : running[k] # 0 /\ Setup[i] = Ready(k, running[k])
      OBVIOUS
    <2>1. i - n \in 1 .. Len(begun) /\ Setup[i] = b[i - n] BY <1>9
    <2>2. begun[i - n] \in Couple /\ running[begun[i - n]] # 0 BY <2>1, <1>5
    <2>3. b[i - n] = Ready(begun[i - n], running[begun[i - n]]) BY <2>1
    <2> QED BY <2>1, <2>2, <2>3
  <1>11. t \in [1 .. n -> Couple] BY <1>4, <1>6
  <1>12. ASSUME NEW i \in 1 .. n
         PROVE  /\ couple[t[i]] # "none"
                /\ \/ /\ Setup[i] = Packet("add", t[i]) /\ i + 1 \in 1 .. n /\ t[i + 1] = t[i]
                      /\ Setup[i + 1] = Update(t[i], couple[t[i]])
                   \/ /\ Setup[i] = Update(t[i], couple[t[i]]) /\ i - 1 \in 1 .. n /\ t[i - 1] = t[i]
                      /\ Setup[i - 1] = Packet("add", t[i])
    <2>1. couple[t[i]] # "none" BY <1>4, <1>6
    <2>2. CASE i % 2 = 1
      <3>1. i + 1 \in 1 .. n /\ (i + 1) % 2 = 0 /\ (i + 2) \div 2 = (i + 1) \div 2 BY <2>2, <1>4
      <3>2. Setup[i] = Packet("add", known[(i + 1) \div 2]) BY <2>2, <1>9
      <3>3. Setup[i + 1] = Update(known[(i + 2) \div 2], couple[known[(i + 2) \div 2]]) BY <3>1, <1>9
      <3> QED BY <2>1, <3>1, <3>2, <3>3
    <2>3. CASE i % 2 # 1
      <3>1. i - 1 \in 1 .. n /\ (i - 1) % 2 = 1 /\ i \div 2 = (i + 1) \div 2 BY <2>3, <1>4
      <3>2. Setup[i] = Update(known[(i + 1) \div 2], couple[known[(i + 1) \div 2]]) BY <2>3, <1>9
      <3>3. Setup[i - 1] = Packet("add", known[i \div 2]) BY <3>1, <1>9
      <3>4. t[i - 1] = known[i \div 2] BY <3>1
      <3> QED BY <2>1, <3>1, <3>2, <3>3, <3>4
    <2> QED BY <2>2, <2>3
  <1>13. ASSUME NEW i \in 1 .. n, NEW j \in 1 .. n, t[i] = t[j]
         PROVE  \/ i = j
                \/ i = j + 1 /\ Setup[j] = Packet("add", t[i])
                \/ j = i + 1 /\ Setup[i] = Packet("add", t[i])
    <2>1. (i + 1) \div 2 = (j + 1) \div 2 BY <1>1, <1>6, <1>13
    <2>2. i = j \/ (i = j + 1 /\ j % 2 = 1) \/ (j = i + 1 /\ i % 2 = 1) BY <2>1
    <2>3. \A x \in 1 .. n : x % 2 = 1 => Setup[x] = Packet("add", t[x]) BY <1>9
    <2> QED BY <2>2, <2>3, <1>13
  <1>14. ASSUME NEW k \in Couple, couple[k] # "none" PROVE \E i \in 1 .. n : t[i] = k
    <2>1. PICK j \in 1 .. Len(known) : known[j] = k BY <1>1, <1>14
    <2>2. 2 * j \in 1 .. n /\ (2 * j + 1) \div 2 = j BY <1>4
    <2>3. t[2 * j] = k BY <2>1, <2>2
    <2> QED BY <2>2, <2>3
  <1> HIDE DEF n, t, a, b
  <1>15. n <= Len(Setup) BY <1>5, <1>9
  <1>16. SetupShape(n, t) BY <1>9, <1>10, <1>11, <1>12, <1>13, <1>14, <1>15 DEF SetupShape
  <1> QED BY <1>9, <1>16

-----------------------------------------------------------------------------
(* Types *)

\* A packet to the daemon joins the queue of a core that is connected.
LEMMA SendIs ==
    ASSUME TypeInv, NEW c \in Core, NEW p \in Asked
    PROVE  /\ Send(toDb, c, p) \in [Core -> Seq(Asked)]
           /\ \A d \in Core : d # c \/ ~up[c] => Send(toDb, c, p)[d] = toDb[d]
           /\ up[c] => Send(toDb, c, p)[c] = Append(toDb[c], p)
  BY DEF TypeInv, NetType, Send

\* Packets to all join the queues of the cores that are connected.
LEMMA ForwardIs ==
    ASSUME TypeInv, NEW ps \in Seq(Told)
    PROVE  /\ Forward(ps) \in [Core -> Seq(Told)]
           /\ \A c \in Core : up[c] => Forward(ps)[c] = toCore[c] \o ps
           /\ \A c \in Core : ~up[c] => Forward(ps)[c] = toCore[c]
  BY DEF TypeInv, NetType, Forward

\* One packet to all.
LEMMA ForwardOne ==
    ASSUME TypeInv, NEW p \in Told
    PROVE  /\ Forward(<<p>>) \in [Core -> Seq(Told)]
           /\ \A c \in Core : up[c] => Forward(<<p>>)[c] = Append(toCore[c], p)
           /\ \A c \in Core : ~up[c] => Forward(<<p>>)[c] = toCore[c]
  <1>1. <<p>> \in Seq(Told) OBVIOUS
  <1>2. ASSUME NEW c \in Core PROVE toCore[c] \o <<p>> = Append(toCore[c], p)
    <2>1. toCore[c] \in Seq(Told) BY DEF TypeInv, NetType
    <2> QED BY <2>1, AppendIs
  <1> QED BY <1>1, <1>2, ForwardIs

\* Two packets to all.
LEMMA ForwardTwo ==
    ASSUME TypeInv, NEW p \in Told, NEW r \in Told
    PROVE  /\ Forward(<<p, r>>) \in [Core -> Seq(Told)]
           /\ \A c \in Core : up[c] => Forward(<<p, r>>)[c] = Append(Append(toCore[c], p), r)
           /\ \A c \in Core : ~up[c] => Forward(<<p, r>>)[c] = toCore[c]
  <1>1. <<p, r>> \in Seq(Told) /\ Len(<<p, r>>) = 2 /\ <<p, r>>[1] = p /\ <<p, r>>[2] = r OBVIOUS
  <1>2. ASSUME NEW c \in Core PROVE toCore[c] \o <<p, r>> = Append(Append(toCore[c], p), r)
    <2> DEFINE q == toCore[c]
               s == q \o <<p, r>>
               u == Append(Append(q, p), r)
    <2>1. q \in Seq(Told) BY DEF TypeInv, NetType
    <2> HIDE DEF q
    <2>2. /\ s \in Seq(Told) /\ Len(s) = Len(q) + 2 /\ Len(q) \in Nat
          /\ \A i \in 1 .. Len(q) : s[i] = q[i]
          /\ \A i \in 1 .. Len(s) : i > Len(q) => s[i] = <<p, r>>[i - Len(q)]
      BY <1>1, <2>1, ConcatIs
    <2>3. /\ u \in Seq(Told) /\ Len(u) = Len(q) + 2
          /\ \A i \in 1 .. Len(q) : u[i] = q[i]
          /\ u[Len(q) + 1] = p /\ u[Len(q) + 2] = r
      <3> DEFINE v == Append(q, p)
      <3>1. /\ v \in Seq(Told) /\ Len(v) = Len(q) + 1 /\ \A i \in 1 .. Len(q) : v[i] = q[i]
            /\ v[Len(q) + 1] = p
        BY <2>1, AppendIs
      <3> HIDE DEF v
      <3>2. /\ Append(v, r) \in Seq(Told) /\ Len(Append(v, r)) = Len(v) + 1
            /\ \A i \in 1 .. Len(v) : Append(v, r)[i] = v[i]
            /\ Append(v, r)[Len(v) + 1] = r
        BY <3>1, AppendIs
      <3>3. Append(v, r) = u BY DEF v
      <3> QED BY <2>2, <3>1, <3>2, <3>3
    <2> HIDE DEF s, u
    <2>4. ASSUME NEW i \in 1 .. Len(s) PROVE s[i] = u[i]
      <3>1. i \in 1 .. Len(q) \/ i = Len(q) + 1 \/ i = Len(q) + 2 BY <2>2
      <3>2. Len(q) + 1 \in 1 .. Len(s) /\ Len(q) + 2 \in 1 .. Len(s)
            /\ Len(q) + 1 > Len(q) /\ Len(q) + 2 > Len(q)
            /\ Len(q) + 1 - Len(q) = 1 /\ Len(q) + 2 - Len(q) = 2
        BY <2>2
      <3>3. s[Len(q) + 1] = p /\ s[Len(q) + 2] = r BY <1>1, <2>2, <3>2
      <3> QED BY <2>2, <2>3, <3>1, <3>3
    <2>5. s = u BY <2>2, <2>3, <2>4, SameSequence
    <2> QED BY <2>5 DEF s, u, q
  <1> QED BY <1>1, <1>2, ForwardIs

\* What the head of a queue is.
LEMMA DbHead ==
    ASSUME TypeInv, NEW c \in Core, toDb[c] # <<>>
    PROVE  /\ Head(toDb[c]) \in Asked /\ Head(toDb[c]) \in Told /\ Head(toDb[c]).pair \in Couple
           /\ [toDb EXCEPT ![c] = Tail(@)] \in [Core -> Seq(Asked)]
  <1>1. toDb \in [Core -> Seq(Asked)] /\ toDb[c] \in Seq(Asked) BY DEF TypeInv, NetType
  <1>2. Head(toDb[c]) \in Asked /\ Tail(toDb[c]) \in Seq(Asked) BY <1>1, HeadIs
  <1> QED BY <1>1, <1>2, AskedFacts, ToldFacts

\* What the head of a queue to a core is.
LEMMA CoreHead ==
    ASSUME TypeInv, NEW c \in Core, toCore[c] # <<>>
    PROVE  /\ Head(toCore[c]) \in Told /\ Head(toCore[c]).pair \in Couple
           /\ [toCore EXCEPT ![c] = Tail(@)] \in [Core -> Seq(Told)]
  <1>1. toCore \in [Core -> Seq(Told)] /\ toCore[c] \in Seq(Told) BY DEF TypeInv, NetType
  <1>2. Head(toCore[c]) \in Told /\ Tail(toCore[c]) \in Seq(Told) BY <1>1, HeadIs
  <1> QED BY <1>1, <1>2, ToldFacts

\* A change of one core's copy of one couple.
LEMMA ChangeOne ==
    ASSUME NEW S, NEW f \in [Core -> [Couple -> S]], NEW c \in Core, NEW k \in Couple, NEW v \in S
    PROVE  /\ [f EXCEPT ![c][k] = v] \in [Core -> [Couple -> S]]
           /\ \A d \in Core, l \in Couple :
                 [f EXCEPT ![c][k] = v][d][l] = IF d = c /\ l = k THEN v ELSE f[d][l]
           /\ \A d \in Core : d # c => [f EXCEPT ![c][k] = v][d] = f[d]
           /\ [f EXCEPT ![c][k] = v][c] = [f[c] EXCEPT ![k] = v]
  <1> DEFINE g == [f[c] EXCEPT ![k] = v]
  <1>1. g \in [Couple -> S] /\ \A l \in Couple : g[l] = IF l = k THEN v ELSE f[c][l] OBVIOUS
  <1>2. [f EXCEPT ![c][k] = v] = [f EXCEPT ![c] = g] OBVIOUS
  <1> HIDE DEF g
  <1>3. [f EXCEPT ![c] = g] \in [Core -> [Couple -> S]] BY <1>1
  <1>4. \A d \in Core : [f EXCEPT ![c] = g][d] = IF d = c THEN g ELSE f[d] OBVIOUS
  <1> QED BY <1>1, <1>2, <1>3, <1>4 DEF g

\* The daemon and the cores start without couples, weddings and packets.
LEMMA TypeInit == Init => TypeInv
  <1> SUFFICES ASSUME Init PROVE TypeInv OBVIOUS
  <1>1. \A S : <<>> \in Seq(S) OBVIOUS
  <1>2. NetType BY <1>1 DEF Init, Nothing, NetType
  <1>3. DOMAIN hall = {} /\ hall \in [DOMAIN hall -> [pair : Couple, ending : BOOLEAN]] BY DEF Init
  <1>4. HallType BY <1>3 DEF HallType, Init
  <1>5. DaemonType /\ CopyType /\ HistoryType
    BY DEF Init, DaemonType, CopyType, HistoryType, Nobody, Nowhere, Status
  <1> QED BY <1>2, <1>4, <1>5 DEF TypeInv

\* The quests of the players.
LEMMA TypeQuest ==
    ASSUME TypeInv, NEW c \in Core, NEW k \in Couple,
           RequestAdd(c, k) \/ RequestRemove(c, k) \/ RequestEndWedding(c, k) \/ SetMarried(c, k)
    PROVE  TypeInv'
  <1>1. PICK p \in Asked : Quest(c, p)
    BY PacketKinds DEF RequestAdd, RequestRemove, RequestEndWedding, SetMarried
  <1>2. bond' = bond \/ bond' = [bond EXCEPT ![c][k] = "married"]
    BY DEF RequestAdd, RequestRemove, RequestEndWedding, SetMarried
  <1>3. CopyType'
    <2>1. bond \in [Core -> [Couple -> Status]] /\ "married" \in Status BY DEF TypeInv, CopyType, Status
    <2>2. [bond EXCEPT ![c][k] = "married"] \in [Core -> [Couple -> Status]] BY <2>1, ChangeOne
    <2>3. bond' \in [Core -> [Couple -> Status]] BY ONLY <1>2, <2>1, <2>2
    <2> QED BY <1>1, <2>3 DEF Quest, CopyType, TypeInv
  <1>4. DaemonType' BY <1>1 DEF Quest, TypeInv, DaemonType, daemon
  <1>5. HallType' BY <1>1 DEF Quest, TypeInv, HallType
  <1>6. Send(toDb, c, p) \in [Core -> Seq(Asked)] BY SendIs
  <1>7. NetType' BY <1>1, <1>6 DEF Quest, TypeInv, NetType
  <1>8. HistoryType' BY <1>1 DEF Quest, TypeInv, HistoryType
  <1> QED BY <1>3, <1>4, <1>5, <1>7, <1>8 DEF TypeInv

\* The handlers of the daemon keep the types.
LEMMA TypeDaemon ==
    ASSUME TypeInv, NEW c \in Core, DaemonReads(c)
    PROVE  TypeInv'
  <1> DEFINE p == Head(toDb[c])
  <1>1. toDb[c] # <<>> /\ toDb' = [toDb EXCEPT ![c] = Tail(@)]
        /\ UNCHANGED <<core, up, synced, quests, weddings, faults>>
    BY DEF DaemonReads, MarriageAdd, MarriageUpdate, MarriageRemove, WeddingRequest, WeddingReady, EndWedding, Handle
  <1>2. p \in Asked /\ p \in Told /\ p.pair \in Couple /\ toDb' \in [Core -> Seq(Asked)]
    BY <1>1, DbHead
  <1>3. Packet("add", p.pair) \in Told BY <1>2, PacketKinds
  <1>4. HallType' /\ CopyType' BY <1>1 DEF HallType, CopyType, core, TypeInv
  <1>5. p.op = "update" => p.status = "married" BY <1>2, AskedFacts
  <1>6. p.op = "ready" => p.map \in Nat \ {0} BY <1>2, ToldFacts
  <1>7. /\ toCore' = toCore \/ toCore' = Forward(<<p>>) \/ toCore' = Forward(<<Packet("add", p.pair)>>)
        /\ asked' \in {asked, asked \ {p.pair}, asked \cup {p.pair}}
        /\ doubled' \in {doubled, doubled \cup {p.pair}} /\ parted' \in {parted, parted \cup {p.pair}}
    BY DEF DaemonReads, MarriageAdd, MarriageUpdate, MarriageRemove, WeddingRequest, WeddingReady, EndWedding, Handle
  <1>8. /\ \/ couple' = couple
           \/ couple' = [couple EXCEPT ![p.pair] = "engaged"]
           \/ couple' = [couple EXCEPT ![p.pair] = "none"]
           \/ couple' = [couple EXCEPT ![p.pair] = p.status] /\ p.op = "update"
        /\ ends' = ends /\ (running' = running \/ running' = [running EXCEPT ![p.pair] = 0])
        /\ \/ starts' = starts
           \/ starts' = starts \cup {[left |-> Delay, map |-> p.map, pair |-> p.pair]} /\ p.op = "ready"
    BY DEF DaemonReads, MarriageAdd, MarriageUpdate, MarriageRemove, WeddingRequest, WeddingReady, EndWedding, Handle, daemon
  <1> HIDE DEF p
  <1>9. NetType'
    <2>1. Forward(<<p>>) \in [Core -> Seq(Told)] /\ Forward(<<Packet("add", p.pair)>>) \in [Core -> Seq(Told)]
      BY <1>2, <1>3, ForwardOne
    <2>2. toCore' \in [Core -> Seq(Told)] BY <1>7, <2>1 DEF TypeInv, NetType
    <2> QED BY <1>1, <1>2, <2>2 DEF TypeInv, NetType
  <1>10. HistoryType' BY <1>1, <1>2, <1>7 DEF TypeInv, HistoryType
  <1>11. DaemonType'
    <2>1. couple' \in [Couple -> Status] BY <1>2, <1>5, <1>8 DEF TypeInv, DaemonType, Status
    <2>2. p.op = "ready" => [left |-> Delay, map |-> p.map, pair |-> p.pair] \in [left : Nat, map : Nat \ {0}, pair : Couple]
      BY <1>2, <1>6, WeddingAssumption
    <2>3. starts' \in SUBSET [left : Nat, map : Nat \ {0}, pair : Couple]
      BY <2>2, <1>8 DEF TypeInv, DaemonType
    <2>4. running' \in [Couple -> Nat] BY <1>2, <1>8 DEF TypeInv, DaemonType
    <2>5. ends' \in SUBSET [left : Nat, pair : Couple] BY <1>8 DEF TypeInv, DaemonType
    <2> QED BY <2>1, <2>3, <2>4, <2>5 DEF DaemonType
  <1> QED BY <1>4, <1>9, <1>10, <1>11 DEF TypeInv

\* The end of a wedding: who is parted and what is told.
LEMMA EndDueIs ==
    ASSUME TypeInv, CoupleInv, NEW e \in ends, EndDue(e), running[e.pair] # 0
    PROVE  \E gone :
             /\ gone = {} \/ \E k \in Couple : gone = {k} /\ couple[k] = "engaged"
                                                /\ e.pair[1] \in {k[1], k[2]}
             /\ couple' = [k \in Couple |-> IF k \in gone THEN "none" ELSE couple[k]]
             /\ parted' = parted \cup (gone \ {e.pair})
             /\ gone = {} => toCore' = Forward(<<Packet("end", e.pair)>>)
             /\ \A k \in gone : toCore' = Forward(<<Packet("end", e.pair), Packet("remove", k)>>)
  <1>1. PICK gone \in {{}, Engaged(e.pair[1])} :
          /\ couple' = [k \in Couple |-> IF k \in gone THEN "none" ELSE couple[k]]
          /\ toCore' = Forward(<<Packet("end", e.pair)>> \o SetToSeq({Packet("remove", k) : k \in gone}))
          /\ parted' = parted \cup (gone \ {e.pair})
    BY DEF EndDue
  <1>2. \/ gone = {}
        \/ \E k \in Couple : gone = {k} /\ couple[k] = "engaged" /\ e.pair[1] \in {k[1], k[2]}
    BY <1>1, EngagedIs
  <1>3. e.pair \in Couple BY DEF TypeInv, DaemonType
  <1>4. gone = {} \/ \E k \in Couple : gone = {k} BY <1>2
  <1>5. gone = {} => toCore' = Forward(<<Packet("end", e.pair)>>)
    BY <1>1, <1>3, <1>4, GoneTold
  <1>6. \A k \in gone : toCore' = Forward(<<Packet("end", e.pair), Packet("remove", k)>>)
    <2> TAKE k \in gone
    <2>1. <<Packet("end", e.pair)>> \o SetToSeq({Packet("remove", l) : l \in gone})
             = <<Packet("end", e.pair), Packet("remove", k)>>
      BY <1>3, <1>4, GoneTold
    <2> QED BY <1>1, <2>1
  <1> QED BY <1>1, <1>2, <1>5, <1>6

\* The daemon's timer keeps the types.
LEMMA TypeTimer ==
    ASSUME TypeInv, CoupleInv, Timer \/ Tick
    PROVE  TypeInv'
  <1>1. ASSUME NEW e \in ends, EndDue(e) PROVE TypeInv'
    <2>1. ends' \in SUBSET [left : Nat, pair : Couple] /\ starts' = starts
      BY <1>1 DEF EndDue, TypeInv, DaemonType
    <2>2. /\ couple' \in [Couple -> Status] /\ parted' \subseteq Couple
          /\ running' \in [Couple -> Nat] /\ toCore' \in [Core -> Seq(Told)]
      <3>1. CASE running[e.pair] = 0
        BY <1>1, <3>1 DEF EndDue, TypeInv, DaemonType, NetType, HistoryType
      <3>2. CASE running[e.pair] # 0
        <4>1. e.pair \in Couple BY DEF TypeInv, DaemonType
        <4>2. running' = [running EXCEPT ![e.pair] = 0] BY <1>1, <3>2 DEF EndDue
        <4>3. Packet("end", e.pair) \in Told /\ \A k \in Couple : Packet("remove", k) \in Told
          BY <4>1, PacketKinds
        <4>4. PICK gone :
             /\ gone = {} \/ \E k \in Couple : gone = {k} /\ couple[k] = "engaged"
                                                /\ e.pair[1] \in {k[1], k[2]}
             /\ couple' = [k \in Couple |-> IF k \in gone THEN "none" ELSE couple[k]]
             /\ parted' = parted \cup (gone \ {e.pair})
             /\ gone = {} => toCore' = Forward(<<Packet("end", e.pair)>>)
             /\ \A k \in gone : toCore' = Forward(<<Packet("end", e.pair), Packet("remove", k)>>)
          BY <1>1, <3>2, EndDueIs
        <4>5. toCore' \in [Core -> Seq(Told)]
          <5>1. CASE gone = {} BY <4>3, <4>4, <5>1, ForwardOne
          <5>2. CASE gone # {}
            <6>1. PICK k \in Couple : gone = {k} BY <4>4, <5>2
            <6> QED BY <4>3, <4>4, <6>1, ForwardTwo
          <5> QED BY <5>1, <5>2
        <4>6. couple' \in [Couple -> Status] BY <4>4 DEF TypeInv, DaemonType, Status
        <4>7. parted' \subseteq Couple BY <4>4 DEF TypeInv, HistoryType
        <4>8. running' \in [Couple -> Nat] BY <4>1, <4>2 DEF TypeInv, DaemonType
        <4> QED BY <4>5, <4>6, <4>7, <4>8
      <3> QED BY <3>1, <3>2
    <2>3. DaemonType' BY <2>1, <2>2 DEF TypeInv, DaemonType
    <2>4. NetType' BY <1>1, <2>2 DEF EndDue, TypeInv, NetType
    <2>5. CopyType' /\ HallType' /\ HistoryType'
      BY <1>1, <2>2 DEF EndDue, TypeInv, CopyType, HallType, HistoryType, core
    <2> QED BY <2>3, <2>4, <2>5 DEF TypeInv
  <1>2. ASSUME NEW s \in starts, StartDue(s) PROVE TypeInv'
    <2>1. s \in [left : Nat, map : Nat \ {0}, pair : Couple] BY DEF TypeInv, DaemonType
    <2>2. [left |-> Length, pair |-> s.pair] \in [left : Nat, pair : Couple]
      BY <2>1, WeddingAssumption
    <2>3. DaemonType' BY <1>2, <2>1, <2>2 DEF StartDue, TypeInv, DaemonType
    <2> QED BY <1>2, <2>3 DEF StartDue, TypeInv, CopyType, HallType, NetType, HistoryType, core, net, history
  <1>3. ASSUME Tick PROVE TypeInv'
    <2>1. \A s \in starts : s \in [left : Nat, map : Nat \ {0}, pair : Couple] /\ s.left # 0
      BY <1>3 DEF Tick, Due, TypeInv, DaemonType
    <2>2. \A e \in ends : e \in [left : Nat, pair : Couple] /\ e.left # 0
      BY <1>3 DEF Tick, Due, TypeInv, DaemonType
    <2>3. starts' \in SUBSET [left : Nat, map : Nat \ {0}, pair : Couple]
      BY <1>3, <2>1 DEF Tick
    <2>4. ends' \in SUBSET [left : Nat, pair : Couple]
      BY <1>3, <2>2 DEF Tick
    <2>5. DaemonType' BY <1>3, <2>3, <2>4 DEF Tick, TypeInv, DaemonType
    <2> QED BY <1>3, <2>5 DEF Tick, TypeInv, CopyType, HallType, NetType, HistoryType, core, net, history
  <1> QED BY <1>1, <1>2, <1>3 DEF Timer

\* The handlers of the cores keep the types.
LEMMA TypeCore ==
    ASSUME TypeInv, NEW c \in Core, CoreReads(c)
    PROVE  TypeInv'
  <1> DEFINE p == Head(toCore[c])
  <1>1. toCore[c] # <<>> /\ toCore' = [toCore EXCEPT ![c] = Tail(@)]
        /\ UNCHANGED <<daemon, up, synced, asked, doubled, parted, quests, faults>>
    BY DEF CoreReads, CoreAdd, CoreUpdate, CoreRemove, CoreRequest, CoreReady, CoreEnd, Receive
  <1>2. p \in Told /\ p.pair \in Couple /\ toCore' \in [Core -> Seq(Told)]
    BY <1>1, CoreHead
  <1>3. Packet("request", p.pair) \in Asked /\ Ready(p.pair, nextMap) \in Asked
    BY <1>2, PacketKinds DEF TypeInv, HallType
  <1>4. /\ weddings' \in {weddings, weddings + 1}
        /\ \/ toDb' = toDb
           \/ toDb' = Send(toDb, c, Packet("request", p.pair))
           \/ toDb' = Send(toDb, c, Ready(p.pair, nextMap))
    BY DEF CoreReads, CoreAdd, CoreUpdate, CoreRemove, CoreRequest, CoreReady, CoreEnd, Receive
  <1>5. /\ \/ bond' = bond
           \/ bond' = [bond EXCEPT ![c][p.pair] = "engaged"]
           \/ bond' = [bond EXCEPT ![c][p.pair] = "none"]
           \/ bond' = [bond EXCEPT ![c][p.pair] = p.status] /\ p.op = "update"
        /\ \/ info' = info
           \/ info' = [info EXCEPT ![c][p.pair] = 0]
           \/ info' = [info EXCEPT ![c][p.pair] = p.map] /\ p.op = "ready"
    BY DEF CoreReads, CoreAdd, CoreUpdate, CoreRemove, CoreRequest, CoreReady, CoreEnd, Receive
  <1>6. \/ /\ nextMap' = nextMap + 1
           /\ hall' = [m \in DOMAIN hall \cup {nextMap} |->
                        IF m = nextMap THEN [pair |-> p.pair, ending |-> FALSE] ELSE hall[m]]
        \/ nextMap' = nextMap /\ (hall' = hall \/ \E m : hall' = [hall EXCEPT ![m].ending = TRUE])
    BY DEF CoreReads, CoreAdd, CoreUpdate, CoreRemove, CoreRequest, CoreReady, CoreEnd, Receive
  <1>7. p.op = "update" => p.status \in {"engaged", "married"} BY <1>2, ToldFacts
  <1>8. p.op = "ready" => p.map \in Nat \ {0} BY <1>2, ToldFacts
  <1> HIDE DEF p
  <1>9. DaemonType' /\ HistoryType'
    BY <1>1, <1>4 DEF TypeInv, DaemonType, HistoryType, daemon
  <1>10. NetType'
    <2>1. Send(toDb, c, Packet("request", p.pair)) \in [Core -> Seq(Asked)]
          /\ Send(toDb, c, Ready(p.pair, nextMap)) \in [Core -> Seq(Asked)]
      BY <1>3, SendIs
    <2>2. toDb' \in [Core -> Seq(Asked)] BY <1>4, <2>1 DEF TypeInv, NetType
    <2> QED BY <1>1, <1>2, <2>2 DEF TypeInv, NetType
  <1>11. CopyType'
    <2>1. bond' \in [Core -> [Couple -> Status]]
      <3>1. bond \in [Core -> [Couple -> Status]] /\ {"none", "engaged", "married"} = Status
        BY DEF TypeInv, CopyType, Status
      <3>2. "engaged" \in Status /\ "none" \in Status /\ (p.op = "update" => p.status \in Status)
        BY <1>7, <3>1
      <3>3. /\ [bond EXCEPT ![c][p.pair] = "engaged"] \in [Core -> [Couple -> Status]]
            /\ [bond EXCEPT ![c][p.pair] = "none"] \in [Core -> [Couple -> Status]]
        BY <1>2, <3>1, <3>2, ChangeOne
      <3>4. p.op = "update" => [bond EXCEPT ![c][p.pair] = p.status] \in [Core -> [Couple -> Status]]
        BY <1>2, <3>1, <3>2, ChangeOne
      <3> QED BY ONLY <1>5, <3>1, <3>3, <3>4
    <2>2. info' \in [Core -> [Couple -> Nat]]
      <3>1. info \in [Core -> [Couple -> Nat]] /\ 0 \in Nat /\ (p.op = "ready" => p.map \in Nat)
        BY <1>8 DEF TypeInv, CopyType
      <3>2. [info EXCEPT ![c][p.pair] = 0] \in [Core -> [Couple -> Nat]]
        BY <1>2, <3>1, ChangeOne
      <3>3. p.op = "ready" => [info EXCEPT ![c][p.pair] = p.map] \in [Core -> [Couple -> Nat]]
        BY <1>2, <3>1, ChangeOne
      <3> QED BY ONLY <1>5, <3>1, <3>2, <3>3
    <2> QED BY <2>1, <2>2 DEF CopyType
  <1>12. HallType'
    <2>1. CASE /\ nextMap' = nextMap + 1
               /\ hall' = [m \in DOMAIN hall \cup {nextMap} |->
                        IF m = nextMap THEN [pair |-> p.pair, ending |-> FALSE] ELSE hall[m]]
      <3>1. DOMAIN hall' = DOMAIN hall \cup {nextMap} BY <2>1
      <3>2. DOMAIN hall' \subseteq 1 .. nextMap' - 1 /\ nextMap' \in Nat \ {0}
        BY <2>1, <3>1 DEF TypeInv, HallType
      <3>3. \A m \in DOMAIN hall : hall[m] \in [pair : Couple, ending : BOOLEAN]
        BY DEF TypeInv, HallType
      <3>4. hall' \in [DOMAIN hall' -> [pair : Couple, ending : BOOLEAN]]
        BY <1>2, <2>1, <3>1, <3>3
      <3> QED BY <3>2, <3>4 DEF HallType
    <2>2. ASSUME NEW m, nextMap' = nextMap, hall' = [hall EXCEPT ![m].ending = TRUE] PROVE HallType'
      <3>1. DOMAIN hall' = DOMAIN hall BY <2>2
      <3>2. \A n \in DOMAIN hall : hall[n] \in [pair : Couple, ending : BOOLEAN]
        BY DEF TypeInv, HallType
      <3>3. ASSUME NEW n \in DOMAIN hall PROVE hall'[n] \in [pair : Couple, ending : BOOLEAN]
        <4>1. hall'[n] = IF n = m THEN [hall[n] EXCEPT !.ending = TRUE] ELSE hall[n] BY <2>2
        <4> QED BY <3>2, <4>1
      <3>4. hall' = [n \in DOMAIN hall' |-> hall'[n]] BY <2>2
      <3>5. hall' \in [DOMAIN hall' -> [pair : Couple, ending : BOOLEAN]]
        <4> DEFINE S == [pair : Couple, ending : BOOLEAN]
        <4>1. \A n \in DOMAIN hall' : hall'[n] \in S BY <3>1, <3>3
        <4> HIDE DEF S
        <4>2. hall' \in [DOMAIN hall' -> S] BY <3>4, <4>1
        <4> QED BY <4>2 DEF S
      <3> QED BY <2>2, <3>1, <3>5 DEF TypeInv, HallType
    <2>3. CASE nextMap' = nextMap /\ hall' = hall BY <2>3 DEF TypeInv, HallType
    <2> QED BY <1>6, <2>1, <2>2, <2>3
  <1> QED BY <1>9, <1>10, <1>11, <1>12 DEF TypeInv

\* Destroyed maps and failing connections and processes keep the types.
LEMMA TypeOther ==
    ASSUME TypeInv, CoupleInv,
           \/ \E m \in Map : DestroyWeddingMap(m)
           \/ \E c \in Core : LinkDrops(c) \/ CoreCrash(c) \/ Reconnect(c)
           \/ DaemonRestart
    PROVE  TypeInv'
  <1>0. \A S : <<>> \in Seq(S) OBVIOUS
  <1>1. ASSUME NEW m, DestroyWeddingMap(m) PROVE TypeInv'
    <2>1. HallType'
      <3> DEFINE S == [pair : Couple, ending : BOOLEAN]
      <3>1. hall' = [n \in DOMAIN hall \ {m} |-> hall[n]] /\ nextMap' = nextMap
        BY <1>1 DEF DestroyWeddingMap
      <3>2. DOMAIN hall' = DOMAIN hall \ {m} BY <3>1
      <3>3. \A n \in DOMAIN hall : hall[n] \in S BY DEF TypeInv, HallType
      <3> HIDE DEF S
      <3>4. hall' \in [DOMAIN hall' -> S] BY <3>1, <3>2, <3>3
      <3> QED BY <3>1, <3>2, <3>4 DEF TypeInv, HallType, S
    <2> QED BY <1>1, <2>1 DEF DestroyWeddingMap, TypeInv, DaemonType, CopyType, NetType, HistoryType, daemon, net, history
  <1>2. ASSUME NEW c \in Core, LinkDrops(c) PROVE TypeInv'
    <2>1. NetType' BY <1>0, <1>2 DEF LinkDrops, Cut, TypeInv, NetType
    <2> QED BY <1>2, <2>1 DEF LinkDrops, Fault, TypeInv, DaemonType, CopyType, HallType, HistoryType, daemon, core
  <1>3. ASSUME NEW c \in Core, CoreCrash(c) PROVE TypeInv'
    <2>1. HallType'
      <3>1. CASE c = Host
        <4>1. hall' = <<>> /\ nextMap' = 1 BY <1>3, <3>1 DEF CoreCrash
        <4>2. DOMAIN hall' = {} BY <4>1
        <4>3. hall' \in [DOMAIN hall' -> [pair : Couple, ending : BOOLEAN]] BY <4>1, <4>2
        <4> QED BY <4>1, <4>2, <4>3 DEF HallType
      <3>2. CASE c # Host
        <4>1. hall' = hall /\ nextMap' = nextMap BY <1>3, <3>2 DEF CoreCrash
        <4> QED BY <4>1 DEF TypeInv, HallType
      <3> QED BY <3>1, <3>2
    <2>2. NetType' BY <1>0, <1>3 DEF CoreCrash, Cut, TypeInv, NetType
    <2>3. CopyType' BY <1>3 DEF CoreCrash, TypeInv, CopyType, Nobody, Nowhere, Status
    <2> QED BY <1>3, <2>1, <2>2, <2>3 DEF CoreCrash, Fault, TypeInv, DaemonType, HistoryType, daemon
  <1>4. ASSUME NEW c \in Core, Reconnect(c) PROVE TypeInv'
    <2>1. Setup \in Seq(Told) BY SetupIs
    <2>2. NetType' BY <1>4, <2>1 DEF Reconnect, TypeInv, NetType, history
    <2> QED BY <1>4, <2>2 DEF Reconnect, TypeInv, DaemonType, CopyType, HallType, HistoryType, daemon, core, history
  <1>5. ASSUME DaemonRestart PROVE TypeInv'
    <2>1. NetType' BY <1>0, <1>5 DEF DaemonRestart, Nothing, NetType
    <2>2. DaemonType' BY <1>5 DEF DaemonRestart, TypeInv, DaemonType, Status, Nowhere
    <2> QED BY <1>5, <2>1, <2>2 DEF DaemonRestart, Fault, TypeInv, CopyType, HallType, HistoryType, core
  <1> QED BY <1>1, <1>2, <1>3, <1>4, <1>5

\* Every step keeps the types.
LEMMA TypeStep == TypeInv /\ CoupleInv /\ [Next]_vars => TypeInv'
  <1> SUFFICES ASSUME TypeInv, CoupleInv, [Next]_vars PROVE TypeInv' OBVIOUS
  <1>1. CASE UNCHANGED vars
    BY <1>1 DEF vars, daemon, core, net, history, TypeInv, DaemonType, CopyType, HallType, NetType, HistoryType
  <1> QED BY <1>1, TypeQuest, TypeDaemon, TypeTimer, TypeCore, TypeOther DEF Next

-----------------------------------------------------------------------------
(* Couples, connections and the weddings a core shows *)

\* Nobody is engaged at the start.
LEMMA CoupleInit == Init => CoupleInv
  <1> SUFFICES ASSUME Init PROVE CoupleInv OBVIOUS
  <1>1. {k \in Couple : couple[k] # "none"} = {} /\ {k \in Couple : running[k] # 0} = {}
    BY DEF Init, Nobody, Nowhere
  <1> QED BY <1>1, FS_EmptySet DEF CoupleInv, Init, Nobody

\* A change of one couple, when it is no new one or none of its players is engaged.
LEMMA CoupleAfter ==
    ASSUME TypeInv, CoupleInv, couple' \in [Couple -> Status], running' \in [Couple -> Nat],
           NEW k \in Couple,
           \/ \A l \in Couple : couple'[l] # "none" => couple[l] # "none"
           \/ ~Taken(couple, k) /\ \A l \in Couple : couple'[l] # "none" => couple[l] # "none" \/ l = k,
           \A l \in Couple : running'[l] # 0 => running[l] # 0 \/ l = k
    PROVE  CoupleInv'
  <1>1. ASSUME NEW a \in Couple, NEW b \in Couple, couple'[a] # "none", couple'[b] # "none", Sharing(a, b)
        PROVE  a = b
    <2>1. Sharing(b, a) BY <1>1 DEF Sharing
    <2> QED BY <1>1, <2>1 DEF CoupleInv, Taken, Sharing
  <1>2. IsFiniteSet({l \in Couple : couple[l] # "none"} \cup {k})
        /\ IsFiniteSet({l \in Couple : running[l] # 0} \cup {k})
    BY FS_AddElement DEF CoupleInv
  <1>3. {l \in Couple : couple'[l] # "none"} \subseteq {l \in Couple : couple[l] # "none"} \cup {k}
    OBVIOUS
  <1>4. {l \in Couple : running'[l] # 0} \subseteq {l \in Couple : running[l] # 0} \cup {k}
    OBVIOUS
  <1>5. IsFiniteSet({l \in Couple : couple'[l] # "none"}) /\ IsFiniteSet({l \in Couple : running'[l] # 0})
    BY <1>2, <1>3, <1>4, FS_Subset
  <1> QED BY <1>1, <1>5 DEF CoupleInv, Sharing

\* Add refuses a couple of which one player is engaged or married.
LEMMA CoupleStep == TypeInv /\ CoupleInv /\ [Next]_vars => CoupleInv'
  <1> SUFFICES ASSUME TypeInv, CoupleInv, [Next]_vars PROVE CoupleInv' OBVIOUS
  <1>0. /\ TypeInv' /\ couple' \in [Couple -> Status] /\ running' \in [Couple -> Nat]
        /\ couple \in [Couple -> Status] /\ running \in [Couple -> Nat]
    BY TypeStep DEF TypeInv, DaemonType
  <1>1. CASE UNCHANGED <<couple, running>>
    BY <1>1 DEF CoupleInv
  <1>2. ASSUME NEW c \in Core, DaemonReads(c) PROVE CoupleInv'
    <2> DEFINE p == Head(toDb[c])
    <2>1. toDb[c] # <<>>
      BY <1>2 DEF DaemonReads, MarriageAdd, MarriageUpdate, MarriageRemove, WeddingRequest, WeddingReady, EndWedding, Handle
    <2>2. p.pair \in Couple BY <2>1, DbHead
    <2>3. CASE MarriageAdd(c)
      <3>1. running' = running /\ (couple' = couple \/ (couple' = [couple EXCEPT ![p.pair] = "engaged"] /\ ~Taken(couple, p.pair)))
        BY <2>3 DEF MarriageAdd
      <3> HIDE DEF p
      <3> QED BY <2>2, <3>1, <1>0, CoupleAfter
    <2>4. CASE MarriageUpdate(c) \/ MarriageRemove(c)
      <3>1. running' = running /\ (couple' = couple \/ (couple[p.pair] # "none" /\ \E v : couple' = [couple EXCEPT ![p.pair] = v]))
        BY <2>4 DEF MarriageUpdate, MarriageRemove
      <3> HIDE DEF p
      <3> QED BY <2>2, <3>1, <1>0, CoupleAfter
    <2>5. CASE WeddingRequest(c) \/ WeddingReady(c) BY <2>5, <1>1 DEF WeddingRequest, WeddingReady, daemon
    <2>6. CASE EndWedding(c)
      <3>1. couple' = couple /\ (running' = running \/ running' = [running EXCEPT ![p.pair] = 0])
        BY <2>6 DEF EndWedding
      <3> HIDE DEF p
      <3> QED BY <2>2, <3>1, <1>0, CoupleAfter
    <2> QED BY <1>2, <2>3, <2>4, <2>5, <2>6 DEF DaemonReads
  <1>3. ASSUME NEW e \in ends, EndDue(e) PROVE CoupleInv'
    <2>1. e.pair \in Couple BY DEF TypeInv, DaemonType
    <2>2. \/ couple' = couple
          \/ \E gone : couple' = [k \in Couple |-> IF k \in gone THEN "none" ELSE couple[k]]
      BY <1>3 DEF EndDue
    <2>3. running' = running \/ running' = [running EXCEPT ![e.pair] = 0] BY <1>3 DEF EndDue
    <2>4. \A l \in Couple : couple'[l] # "none" => couple[l] # "none" BY <2>2
    <2>5. \A l \in Couple : running'[l] # 0 => running[l] # 0 BY <1>0, <2>1, <2>3
    <2> QED BY <1>0, <2>1, <2>4, <2>5, CoupleAfter
  <1>4. ASSUME NEW s \in starts, StartDue(s) PROVE CoupleInv'
    <2>1. s.pair \in Couple BY DEF TypeInv, DaemonType
    <2>2. couple' = couple /\ (running' = running \/ running' = [running EXCEPT ![s.pair] = s.map])
      BY <1>4 DEF StartDue
    <2>3. \A l \in Couple : running'[l] # 0 => running[l] # 0 \/ l = s.pair BY <1>0, <2>1, <2>2
    <2>4. \A l \in Couple : couple'[l] # "none" => couple[l] # "none" BY <2>2
    <2> QED BY <1>0, <2>1, <2>3, <2>4, CoupleAfter
  <1>5. ASSUME DaemonRestart PROVE CoupleInv'
    <2>1. CASE Couple = {}
      <3>1. {k \in Couple : couple'[k] # "none"} = {} /\ {k \in Couple : running'[k] # 0} = {} BY <2>1
      <3> QED BY <2>1, <3>1, FS_EmptySet DEF CoupleInv
    <2>2. CASE Couple # {}
      <3>1. PICK k \in Couple : TRUE BY <2>2
      <3>2. \A l \in Couple : couple'[l] # "none" => couple[l] # "none" BY <1>5 DEF DaemonRestart
      <3>3. \A l \in Couple : running'[l] # 0 => running[l] # 0 BY <1>5 DEF DaemonRestart, Nowhere
      <3> QED BY <1>0, <3>1, <3>2, <3>3, CoupleAfter
    <2> QED BY <2>1, <2>2
  <1>6. ASSUME NEW c \in Core, NEW k \in Couple,
               RequestAdd(c, k) \/ RequestRemove(c, k) \/ RequestEndWedding(c, k) \/ SetMarried(c, k)
        PROVE  UNCHANGED <<couple, running>>
    BY <1>6 DEF RequestAdd, RequestRemove, RequestEndWedding, SetMarried, Quest, daemon
  <1>7. ASSUME NEW c \in Core, CoreReads(c) PROVE UNCHANGED <<couple, running>>
    BY <1>7 DEF CoreReads, CoreAdd, CoreUpdate, CoreRemove, CoreRequest, CoreReady, CoreEnd, Receive, daemon
  <1>8. ASSUME Tick \/ UNCHANGED vars PROVE UNCHANGED <<couple, running>>
    BY <1>8 DEF Tick, vars, daemon
  <1>9. ASSUME NEW c \in Core, LinkDrops(c) \/ CoreCrash(c) \/ Reconnect(c) PROVE UNCHANGED <<couple, running>>
    BY <1>9 DEF LinkDrops, CoreCrash, Reconnect, daemon
  <1>10. ASSUME NEW m, DestroyWeddingMap(m) PROVE UNCHANGED <<couple, running>>
    BY <1>10 DEF DestroyWeddingMap, daemon
  <1> QED BY <1>1, <1>2, <1>3, <1>4, <1>5, <1>6, <1>7, <1>8, <1>9, <1>10 DEF Next, Timer

\* All cores are connected at the start and show no wedding.
LEMMA LinkInit == Init => LinkInv /\ BondInv
  BY DEF Init, LinkInv, BondInv, Nobody, Nowhere

\* Nothing is under way to or from a core without a connection, and a core that has
\* just started knows nothing.
LEMMA LinkStep == TypeInv /\ CoupleInv /\ LinkInv /\ [Next]_vars => LinkInv'
  <1> SUFFICES ASSUME TypeInv, CoupleInv, LinkInv, [Next]_vars PROVE LinkInv' OBVIOUS
  <1>0. NetType /\ CopyType BY DEF TypeInv
  <1>1. ASSUME NEW c \in Core, NEW k \in Couple,
               RequestAdd(c, k) \/ RequestRemove(c, k) \/ RequestEndWedding(c, k) \/ SetMarried(c, k)
        PROVE  LinkInv'
    <2>1. PICK p \in Asked : Quest(c, p)
      BY <1>1, PacketKinds DEF RequestAdd, RequestRemove, RequestEndWedding, SetMarried
    <2>2. bond' = bond \/ (bond[c][k] # "none" /\ bond' = [bond EXCEPT ![c][k] = "married"])
      BY <1>1 DEF RequestAdd, RequestRemove, RequestEndWedding, SetMarried
    <2>3. \A d \in Core : ~up[d] => toDb'[d] = toDb[d] BY <2>1, SendIs DEF Quest
    <2>4. \A d \in Core : ~up[d] /\ synced[d] => bond'[d] = bond[d]
      <3> SUFFICES ASSUME NEW d \in Core, ~up[d], synced[d] PROVE bond'[d] = bond[d] OBVIOUS
      <3>1. bond[d][k] = "none" BY DEF LinkInv, Nobody
      <3>2. CASE d = c BY <2>2, <3>1, <3>2
      <3>3. CASE d # c
        <4>1. DOMAIN bond = Core BY <1>0 DEF CopyType
        <4>2. [bond EXCEPT ![c][k] = "married"][d] = bond[d] BY <3>3, <4>1
        <4> QED BY <2>2, <4>2
      <3> QED BY <3>2, <3>3
    <2> QED BY <2>1, <2>3, <2>4 DEF Quest, LinkInv
  <1>2. ASSUME NEW c \in Core, DaemonReads(c) PROVE LinkInv'
    <2> DEFINE p == Head(toDb[c])
    <2>1. /\ toDb[c] # <<>> /\ toDb' = [toDb EXCEPT ![c] = Tail(@)]
          /\ UNCHANGED <<core, up, synced, faults>>
          /\ toCore' = toCore \/ toCore' = Forward(<<p>>) \/ toCore' = Forward(<<Packet("add", p.pair)>>)
      BY <1>2 DEF DaemonReads, MarriageAdd, MarriageUpdate, MarriageRemove, WeddingRequest, WeddingReady, EndWedding, Handle
    <2>2. \A d \in Core : ~up[d] => toCore'[d] = toCore[d] BY <2>1 DEF Forward
    <2>3. up[c] BY <2>1 DEF LinkInv
    <2>4. \A d \in Core : ~up[d] => toDb'[d] = toDb[d] BY <2>1, <2>3
    <2> QED BY <2>1, <2>2, <2>4 DEF LinkInv, core
  <1>3. ASSUME Timer \/ Tick PROVE LinkInv'
    <2>1. toCore' = toCore \/ \E ps : toCore' = Forward(ps)
      BY <1>3 DEF Timer, Tick, EndDue, StartDue, net
    <2>2. UNCHANGED <<toDb, bond, info, up, synced, faults>>
      BY <1>3 DEF Timer, Tick, EndDue, StartDue, net, core, history
    <2>3. \A d \in Core : ~up[d] => toCore'[d] = toCore[d] BY <2>1 DEF Forward
    <2> QED BY <2>2, <2>3 DEF LinkInv
  <1>4. ASSUME NEW c \in Core, CoreReads(c) PROVE LinkInv'
    <2> DEFINE p == Head(toCore[c])
    <2>1. /\ toCore[c] # <<>> /\ toCore' = [toCore EXCEPT ![c] = Tail(@)]
          /\ UNCHANGED <<up, synced, faults>>
          /\ toDb' = toDb \/ \E x : toDb' = Send(toDb, c, x)
          /\ bond' = bond \/ \E v : bond' = [bond EXCEPT ![c][p.pair] = v]
          /\ info' = info \/ \E v : info' = [info EXCEPT ![c][p.pair] = v]
      BY <1>4 DEF CoreReads, CoreAdd, CoreUpdate, CoreRemove, CoreRequest, CoreReady, CoreEnd, Receive
    <2>2. up[c] BY <2>1 DEF LinkInv
    <2> HIDE DEF p
    <2>3. ASSUME NEW d \in Core, d # c PROVE bond'[d] = bond[d] /\ info'[d] = info[d]
      <3>1. DOMAIN bond = Core /\ DOMAIN info = Core BY <1>0 DEF CopyType
      <3>2. \A v : [bond EXCEPT ![c][p.pair] = v][d] = bond[d] BY <2>3, <3>1
      <3>3. \A v : [info EXCEPT ![c][p.pair] = v][d] = info[d] BY <2>3, <3>1
      <3> QED BY <2>1, <3>2, <3>3
    <2>4. \A d \in Core : d # c => toDb'[d] = toDb[d] /\ toCore'[d] = toCore[d]
      BY <1>0, <2>1 DEF Send, NetType
    <2> QED BY <2>1, <2>2, <2>3, <2>4 DEF LinkInv
  <1>5. ASSUME NEW m, DestroyWeddingMap(m) PROVE LinkInv'
    BY <1>5 DEF DestroyWeddingMap, LinkInv, net, history
  <1>6. ASSUME NEW c \in Core, LinkDrops(c) PROVE LinkInv'
    <2>1. faults' # 0 BY <1>6 DEF LinkDrops, Fault, TypeInv, HistoryType
    <2> QED BY <1>0, <1>6, <2>1 DEF LinkDrops, Cut, LinkInv, core, NetType
  <1>7. ASSUME NEW c \in Core, CoreCrash(c) PROVE LinkInv'
    <2>1. faults' # 0 BY <1>7 DEF CoreCrash, Fault, TypeInv, HistoryType
    <2> QED BY <1>0, <1>7, <2>1 DEF CoreCrash, Cut, LinkInv, NetType, CopyType
  <1>8. ASSUME NEW c \in Core, Reconnect(c) PROVE LinkInv'
    BY <1>0, <1>8 DEF Reconnect, LinkInv, core, history, NetType
  <1>9. ASSUME DaemonRestart PROVE LinkInv'
    <2>1. faults' # 0 BY <1>9 DEF DaemonRestart, Fault, TypeInv, HistoryType
    <2> QED BY <1>9, <2>1 DEF DaemonRestart, LinkInv, Nothing
  <1>10. CASE UNCHANGED vars BY <1>10 DEF vars, core, net, history, LinkInv
  <1> QED BY <1>1, <1>2, <1>3, <1>4, <1>5, <1>6, <1>7, <1>8, <1>9, <1>10 DEF Next

\* pWeddingInfo is a part of the couple: it goes with it.
LEMMA BondStep == TypeInv /\ BondInv /\ [Next]_vars => BondInv'
  <1> SUFFICES ASSUME TypeInv, BondInv, [Next]_vars PROVE BondInv' OBVIOUS
  <1>0. /\ bond \in [Core -> [Couple -> Status]] /\ info \in [Core -> [Couple -> Nat]]
        /\ "none" \in Status /\ "engaged" \in Status /\ "married" \in Status /\ 0 \in Nat
    BY DEF TypeInv, CopyType, Status
  <1>1. CASE UNCHANGED <<bond, info>> BY <1>1 DEF BondInv
  <1>2. ASSUME NEW c \in Core, NEW k \in Couple, NEW v \in Status, v # "none",
               bond' = [bond EXCEPT ![c][k] = v], info' = info
        PROVE  BondInv'
    <2>1. \A d \in Core, l \in Couple :
             [bond EXCEPT ![c][k] = v][d][l] = IF d = c /\ l = k THEN v ELSE bond[d][l]
      BY ONLY <1>0, v \in Status, c \in Core, k \in Couple, ChangeOne
    <2>2. bond' = [bond EXCEPT ![c][k] = v] /\ info' = info /\ v # "none" BY <1>2
    <2>3. \A d \in Core, l \in Couple : bond'[d][l] = IF d = c /\ l = k THEN v ELSE bond[d][l]
      BY ONLY <2>1, <2>2
    <2> QED BY <2>2, <2>3 DEF BondInv
  <1>3. ASSUME NEW c \in Core, NEW k \in Couple,
               RequestAdd(c, k) \/ RequestRemove(c, k) \/ RequestEndWedding(c, k) \/ SetMarried(c, k)
        PROVE  BondInv'
    <2>1. info' = info /\ (bond' = bond \/ bond' = [bond EXCEPT ![c][k] = "married"])
      BY <1>3 DEF RequestAdd, RequestRemove, RequestEndWedding, SetMarried, Quest
    <2> QED BY <1>0, <1>1, <1>2, <2>1
  <1>4. ASSUME NEW c \in Core, CoreReads(c) PROVE BondInv'
    <2> DEFINE p == Head(toCore[c])
    <2>1. toCore[c] # <<>>
      BY <1>4 DEF CoreReads, CoreAdd, CoreUpdate, CoreRemove, CoreRequest, CoreReady, CoreEnd, Receive
    <2>2. p \in Told /\ p.pair \in Couple BY <2>1, CoreHead
    <2>3. p.op = "update" => p.status \in {"engaged", "married"} BY <2>2, ToldFacts
    <2>4. CASE CoreAdd(c)
      <3>1. info' = info /\ (bond' = bond \/ bond' = [bond EXCEPT ![c][p.pair] = "engaged"])
        BY <2>4 DEF CoreAdd
      <3> QED BY <1>0, <1>1, <1>2, <2>2, <3>1
    <2>5. CASE CoreUpdate(c)
      <3>1. p.op = "update" /\ info' = info /\ (bond' = bond \/ bond' = [bond EXCEPT ![c][p.pair] = p.status])
        BY <2>5 DEF CoreUpdate, Receive
      <3>2. p.status \in Status /\ p.status # "none" BY <2>3, <3>1 DEF Status
      <3> QED BY <1>0, <1>1, <1>2, <2>2, <3>1, <3>2
    <2>6. CASE CoreRemove(c)
      <3>1. bond' = [bond EXCEPT ![c][p.pair] = "none"] /\ info' = [info EXCEPT ![c][p.pair] = 0]
        BY <2>6 DEF CoreRemove
      <3>2. \A d \in Core, l \in Couple :
               [bond EXCEPT ![c][p.pair] = "none"][d][l] = IF d = c /\ l = p.pair THEN "none" ELSE bond[d][l]
        BY <1>0, <2>2, ChangeOne
      <3>3. \A d \in Core, l \in Couple :
               [info EXCEPT ![c][p.pair] = 0][d][l] = IF d = c /\ l = p.pair THEN 0 ELSE info[d][l]
        BY <1>0, <2>2, ChangeOne
      <3> HIDE DEF p
      <3> QED BY <3>1, <3>2, <3>3 DEF BondInv
    <2>7. CASE CoreRequest(c) BY <1>1, <2>7 DEF CoreRequest
    <2>8. CASE CoreReady(c)
      <3>1. p.op = "ready" /\ bond' = bond
            /\ (info' = info \/ (bond[c][p.pair] # "none" /\ info' = [info EXCEPT ![c][p.pair] = p.map]))
        BY <2>8 DEF CoreReady, Receive
      <3>2. p.map \in Nat BY <2>2, <3>1, ToldFacts
      <3>3. \A d \in Core, l \in Couple :
               [info EXCEPT ![c][p.pair] = p.map][d][l] = IF d = c /\ l = p.pair THEN p.map ELSE info[d][l]
        BY <1>0, <2>2, <3>2, ChangeOne
      <3> HIDE DEF p
      <3>4. \/ bond' = bond /\ info' = info
            \/ /\ bond' = bond /\ bond[c][p.pair] # "none"
               /\ \A d \in Core, l \in Couple : info'[d][l] = IF d = c /\ l = p.pair THEN p.map ELSE info[d][l]
        BY ONLY <3>1, <3>3
      <3> QED BY <3>4 DEF BondInv
    <2>9. CASE CoreEnd(c)
      <3>1. bond' = bond /\ (info' = info \/ info' = [info EXCEPT ![c][p.pair] = 0])
        BY <2>9 DEF CoreEnd
      <3>2. \A d \in Core, l \in Couple :
               [info EXCEPT ![c][p.pair] = 0][d][l] = IF d = c /\ l = p.pair THEN 0 ELSE info[d][l]
        BY <1>0, <2>2, ChangeOne
      <3> HIDE DEF p
      <3>3. \/ bond' = bond /\ info' = info
            \/ /\ bond' = bond
               /\ \A d \in Core, l \in Couple : info'[d][l] = IF d = c /\ l = p.pair THEN 0 ELSE info[d][l]
        BY ONLY <3>1, <3>2
      <3> QED BY <3>3 DEF BondInv
    <2> QED BY <1>4, <2>4, <2>5, <2>6, <2>7, <2>8, <2>9 DEF CoreReads
  <1>5. ASSUME NEW c \in Core, CoreCrash(c) PROVE BondInv'
    BY <1>0, <1>5 DEF CoreCrash, BondInv, Nobody, Nowhere
  <1>6. ASSUME NEW c \in Core, DaemonReads(c) \/ LinkDrops(c) \/ Reconnect(c) PROVE UNCHANGED <<bond, info>>
    BY <1>6 DEF DaemonReads, MarriageAdd, MarriageUpdate, MarriageRemove, WeddingRequest, WeddingReady,
       EndWedding, Handle, LinkDrops, Reconnect, core
  <1>7. ASSUME Timer \/ Tick \/ DaemonRestart \/ UNCHANGED vars PROVE UNCHANGED <<bond, info>>
    BY <1>7 DEF Timer, Tick, EndDue, StartDue, DaemonRestart, core, vars
  <1>8. ASSUME NEW m, DestroyWeddingMap(m) PROVE UNCHANGED <<bond, info>>
    BY <1>8 DEF DestroyWeddingMap
  <1> QED BY <1>1, <1>3, <1>4, <1>5, <1>6, <1>7, <1>8 DEF Next

-----------------------------------------------------------------------------
(* What a core will have when it has read its queue *)

\* A set of the first numbers that is not empty has a last one.
LEMMA LastOf ==
    ASSUME NEW n \in Nat, NEW T \in SUBSET (1 .. n), T # {}
    PROVE  \E m \in T : \A j \in T : j <= m
  <1> DEFINE R == {x \in Nat \X Nat : x[1] < x[2]}
             above == {n - j : j \in T}
  <1>1. IsWellFoundedOn(R, Nat) BY NatLessThanWellFounded, Zenon DEF OpToRel
  <1>2. above \subseteq Nat /\ above # {}
    <2>1. \A j \in T : n - j \in Nat OBVIOUS
    <2> QED BY <2>1
  <1>3. PICK x \in above : \A y \in above : ~ (<<y, x>> \in R)
    <2> HIDE DEF R, above
    <2> QED BY <1>1, <1>2, WFMin
  <1>4. PICK m \in T : x = n - m OBVIOUS
  <1>5. ASSUME NEW j \in T PROVE j <= m
    <2>1. n - j \in above /\ n - j \in Nat /\ x \in Nat BY <1>2
    <2>2. ~ (n - j < x) BY <1>3, <2>1
    <2> QED BY <1>4, <2>2
  <1> QED BY <1>4, <1>5

\* The last packet about a couple, when there is one.
LEMMA LastAbout ==
    ASSUME NEW q \in Seq(Told), NEW k, ~NoneAbout(q, 1, Len(q), k)
    PROVE  \E j \in 1 .. Len(q) : About(q[j], k) /\ NoneAbout(q, j + 1, Len(q), k)
  <1> DEFINE T == {j \in 1 .. Len(q) : About(q[j], k)}
  <1>1. T # {} /\ T \in SUBSET (1 .. Len(q)) /\ Len(q) \in Nat BY DEF NoneAbout
  <1>2. PICK m \in T : \A j \in T : j <= m BY <1>1, LastOf
  <1>3. NoneAbout(q, m + 1, Len(q), k) BY <1>1, <1>2 DEF NoneAbout
  <1> QED BY <1>2, <1>3

\* What a packet says about a couple is a status.
LEMMA SaysIs ==
    ASSUME NEW p \in Told, NEW k, About(p, k)
    PROVE  Says(p) \in Status /\ (Says(p) = "none" <=> p.op = "remove") /\ k = p.pair
  BY ToldFacts DEF About, Says, Status

\* A core will have the couples the daemon has, when it has read all.
LEMMA HasAll ==
    ASSUME NEW b \in [Couple -> Status], NEW q \in Seq(Told), NEW d, NEW of \in [Couple -> Status],
           InStep(b, q, d, of), NEW k \in Couple
    PROVE  Has(b, q, Len(q), k) <=> of[k] # "none"
  <1>1. Len(q) \in Nat /\ \A i \in 1 .. Len(q) : q[i] \in Told OBVIOUS
  <1>2. CASE NoneAbout(q, 1, Len(q), k)
    <2>1. b[k] = "none" <=> of[k] = "none" BY <1>2 DEF InStep, Settled
    <2> QED BY <1>1, <1>2, <2>1 DEF Has, NoneAbout
  <1>3. CASE ~NoneAbout(q, 1, Len(q), k)
    <2>1. PICK j \in 1 .. Len(q) : About(q[j], k) /\ NoneAbout(q, j + 1, Len(q), k)
      BY <1>3, LastAbout
    <2>2. of[k] = Says(q[j]) BY <2>1 DEF InStep, Recent
    <2>3. Says(q[j]) = "none" <=> q[j].op = "remove" BY <1>1, <2>1, SaysIs
    <2>4. \A i \in 1 .. Len(q) : About(q[i], k) /\ NoneAbout(q, i + 1, Len(q), k) => i = j
      <3> SUFFICES ASSUME NEW i \in 1 .. Len(q), About(q[i], k), NoneAbout(q, i + 1, Len(q), k)
                   PROVE  i = j
        OBVIOUS
      <3>1. ~(i < j) BY <1>1, <2>1 DEF NoneAbout
      <3>2. ~(j < i) BY <1>1, <2>1 DEF NoneAbout
      <3> QED BY <3>1, <3>2
    <2> QED BY <1>3, <2>1, <2>2, <2>3, <2>4 DEF Has
  <1> QED BY <1>2, <1>3

\* A packet at the end of the queue changes nothing that comes before it.
LEMMA HasAppend ==
    ASSUME NEW b, NEW q \in Seq(Told), NEW p \in Told, NEW i \in Nat, i <= Len(q), NEW k
    PROVE  Has(b, Append(q, p), i, k) <=> Has(b, q, i, k)
  <1>1. \A n \in 1 .. i : Append(q, p)[n] = q[n] BY AppendIs
  <1>2. \A x \in Nat : NoneAbout(Append(q, p), x + 1, i, k) <=> NoneAbout(q, x + 1, i, k)
    BY <1>1 DEF NoneAbout
  <1>3. NoneAbout(Append(q, p), 1, i, k) <=> NoneAbout(q, 1, i, k)
    BY <1>1 DEF NoneAbout
  <1> QED BY <1>1, <1>2, <1>3 DEF Has

\* What is told to all, and fits what the couples are, keeps a core in step.
LEMMA InStepAppend ==
    ASSUME NEW b \in [Couple -> Status], NEW q \in Seq(Told), NEW d, NEW of \in [Couple -> Status],
           InStep(b, q, d, of), NEW p \in Told, NEW now \in [Couple -> Status],
           p.op = "add" => \A l \in Couple : Sharing(l, p.pair) => of[l] = "none",
           p.op = "update" => of[p.pair] # "none",
           \A k \in Couple : now[k] = IF About(p, k) THEN Says(p) ELSE of[k]
    PROVE  InStep(b, Append(q, p), d, now)
  <1> DEFINE r == Append(q, p)
  <1>1. /\ r \in Seq(Told) /\ Len(r) = Len(q) + 1 /\ Len(q) \in Nat
        /\ \A i \in 1 .. Len(q) : r[i] = q[i]
        /\ r[Len(q) + 1] = p
    BY AppendIs
  <1>2. \A i \in Nat, k \in Couple : i <= Len(q) => (Has(b, r, i, k) <=> Has(b, q, i, k))
    BY HasAppend
  <1>3. \A k \in Couple : Has(b, q, Len(q), k) <=> of[k] # "none" BY HasAll
  <1>4. p.pair \in Couple BY ToldFacts
  <1> HIDE DEF r
  <1>5. Accepted(b, r)
    <2> SUFFICES ASSUME NEW i \in 1 .. Len(r)
                 PROVE  /\ r[i].op = "add" => \A l \in Couple : Sharing(l, r[i].pair) => ~Has(b, r, i - 1, l)
                        /\ r[i].op = "update" => Has(b, r, i - 1, r[i].pair)
      BY DEF Accepted
    <2>1. CASE i \in 1 .. Len(q)
      <3>1. /\ q[i].op = "add" => \A l \in Couple : Sharing(l, q[i].pair) => ~Has(b, q, i - 1, l)
            /\ q[i].op = "update" => Has(b, q, i - 1, q[i].pair)
        BY <2>1 DEF InStep, Accepted
      <3>2. r[i] = q[i] /\ i - 1 \in Nat /\ i - 1 <= Len(q) BY <1>1, <2>1
      <3>3. q[i].pair \in Couple BY <2>1, ToldFacts
      <3> QED BY <1>2, <3>1, <3>2, <3>3
    <2>2. CASE i = Len(q) + 1
      <3>1. r[i] = p /\ i - 1 = Len(q) BY <1>1, <2>2
      <3> QED BY <1>1, <1>2, <1>3, <1>4, <3>1
    <2> QED BY <1>1, <2>1, <2>2
  <1>6. Recent(r, now)
    <2> SUFFICES ASSUME NEW k \in Couple, NEW j \in 1 .. Len(r), About(r[j], k),
                        NoneAbout(r, j + 1, Len(r), k)
                 PROVE  now[k] = Says(r[j])
      BY DEF Recent
    <2>1. CASE j = Len(q) + 1 BY <1>1, <2>1
    <2>2. CASE j \in 1 .. Len(q)
      <3>1. ~About(p, k) BY <1>1, <2>2 DEF NoneAbout
      <3>2. NoneAbout(q, j + 1, Len(q), k) BY <1>1, <2>2 DEF NoneAbout
      <3>3. of[k] = Says(q[j]) BY <1>1, <2>2, <3>2 DEF InStep, Recent
      <3> QED BY <1>1, <2>2, <3>1, <3>3
    <2> QED BY <1>1, <2>1, <2>2
  <1>7. Settled(b, r, d, now)
    <2> SUFFICES ASSUME NEW k \in Couple, NoneAbout(r, 1, Len(r), k)
                 PROVE  \/ b[k] = now[k]
                        \/ b[k] = "married" /\ now[k] = "engaged" /\ On(d, "update", k)
      BY DEF Settled
    <2>1. ~About(p, k) /\ NoneAbout(q, 1, Len(q), k) BY <1>1 DEF NoneAbout
    <2> QED BY <2>1 DEF InStep, Settled
  <1> QED BY <1>5, <1>6, <1>7 DEF InStep, r

\* What a core will have, seen from before and from after its next packet.
LEMMA HasTail ==
    ASSUME NEW b \in [Couple -> Status], NEW q \in Seq(Told), q # <<>>, NEW c \in [Couple -> Status],
           \A k \in Couple : c[k] = IF About(Head(q), k) THEN Says(Head(q)) ELSE b[k]
    PROVE  \A i \in 0 .. Len(Tail(q)), k \in Couple : Has(c, Tail(q), i, k) <=> Has(b, q, i + 1, k)
  <1> DEFINE r == Tail(q)
  <1>1. /\ r \in Seq(Told) /\ Len(r) = Len(q) - 1 /\ Len(q) \in Nat /\ Len(q) > 0
        /\ \A i \in 1 .. Len(r) : r[i] = q[i + 1]
        /\ Head(q) = q[1] /\ q[1] \in Told
    BY HeadIs
  <1> HIDE DEF r
  <1>2. ASSUME NEW i \in 0 .. Len(r), NEW k \in Couple PROVE Has(c, r, i, k) <=> Has(b, q, i + 1, k)
    <2>1. NoneAbout(r, 1, i, k) <=> NoneAbout(q, 2, i + 1, k)
      <3>1. ASSUME NoneAbout(r, 1, i, k), NEW n \in 2 .. i + 1 PROVE ~About(q[n], k)
        <4>1. n - 1 \in 1 .. i /\ n - 1 \in 1 .. Len(r) /\ r[n - 1] = q[n] BY <1>1
        <4> QED BY <3>1, <4>1 DEF NoneAbout
      <3>2. ASSUME NoneAbout(q, 2, i + 1, k), NEW n \in 1 .. i PROVE ~About(r[n], k)
        <4>1. n + 1 \in 2 .. i + 1 /\ n \in 1 .. Len(r) /\ r[n] = q[n + 1] BY <1>1
        <4> QED BY <3>2, <4>1 DEF NoneAbout
      <3> QED BY <3>1, <3>2 DEF NoneAbout
    <2>2. NoneAbout(q, 1, i + 1, k) <=> ~About(q[1], k) /\ NoneAbout(q, 2, i + 1, k)
      BY <1>1 DEF NoneAbout
    <2>3. c[k] # "none" <=> (About(q[1], k) /\ q[1].op # "remove") \/ (~About(q[1], k) /\ b[k] # "none")
      BY <1>1, SaysIs
    <2>4. ASSUME NEW j \in 1 .. i
          PROVE  /\ r[j] = q[j + 1] /\ j + 1 \in 1 .. i + 1
                 /\ NoneAbout(r, j + 1, i, k) <=> NoneAbout(q, j + 2, i + 1, k)
      <3>1. ASSUME NoneAbout(r, j + 1, i, k), NEW n \in j + 2 .. i + 1 PROVE ~About(q[n], k)
        <4>1. n - 1 \in j + 1 .. i /\ n - 1 \in 1 .. Len(r) /\ r[n - 1] = q[n] BY <1>1
        <4> QED BY <3>1, <4>1 DEF NoneAbout
      <3>2. ASSUME NoneAbout(q, j + 2, i + 1, k), NEW n \in j + 1 .. i PROVE ~About(r[n], k)
        <4>1. n + 1 \in j + 2 .. i + 1 /\ n \in 1 .. Len(r) /\ r[n] = q[n + 1] BY <1>1
        <4> QED BY <3>2, <4>1 DEF NoneAbout
      <3>3. r[j] = q[j + 1] /\ j + 1 \in 1 .. i + 1 BY <1>1
      <3> QED BY <3>1, <3>2, <3>3 DEF NoneAbout
    <2>5. (\E j \in 1 .. i : About(r[j], k) /\ r[j].op # "remove" /\ NoneAbout(r, j + 1, i, k))
          <=> \E j \in 2 .. i + 1 : About(q[j], k) /\ q[j].op # "remove" /\ NoneAbout(q, j + 1, i + 1, k)
      <3>1. ASSUME NEW j \in 1 .. i, About(r[j], k) /\ r[j].op # "remove" /\ NoneAbout(r, j + 1, i, k)
            PROVE  \E m \in 2 .. i + 1 : About(q[m], k) /\ q[m].op # "remove" /\ NoneAbout(q, m + 1, i + 1, k)
        <4>1. j + 1 \in 2 .. i + 1 /\ (j + 1) + 1 = j + 2 BY <1>1
        <4> QED BY <2>4, <3>1, <4>1
      <3>2. ASSUME NEW j \in 2 .. i + 1, About(q[j], k) /\ q[j].op # "remove" /\ NoneAbout(q, j + 1, i + 1, k)
            PROVE  \E m \in 1 .. i : About(r[m], k) /\ r[m].op # "remove" /\ NoneAbout(r, m + 1, i, k)
        <4>1. j - 1 \in 1 .. i /\ (j - 1) + 1 = j /\ (j - 1) + 2 = j + 1 BY <1>1
        <4> QED BY <2>4, <3>2, <4>1
      <3> QED BY <3>1, <3>2
    <2>6. (\E j \in 1 .. i + 1 : About(q[j], k) /\ q[j].op # "remove" /\ NoneAbout(q, j + 1, i + 1, k))
          <=> \/ About(q[1], k) /\ q[1].op # "remove" /\ NoneAbout(q, 2, i + 1, k)
              \/ \E j \in 2 .. i + 1 : About(q[j], k) /\ q[j].op # "remove" /\ NoneAbout(q, j + 1, i + 1, k)
      <3>1. 1 + 1 = 2 /\ 1 \in 1 .. i + 1 /\ \A j \in 1 .. i + 1 : j = 1 \/ j \in 2 .. i + 1 BY <1>1
      <3>2. \A j \in 2 .. i + 1 : j \in 1 .. i + 1 BY <1>1
      <3> QED BY <3>1, <3>2
    <2> QED BY <2>1, <2>2, <2>3, <2>5, <2>6 DEF Has
  <1> QED BY <1>2 DEF r

\* Reading the head keeps a core in step.
LEMMA InStepTail ==
    ASSUME NEW b \in [Couple -> Status], NEW q \in Seq(Told), q # <<>>, NEW d,
           NEW of \in [Couple -> Status], InStep(b, q, d, of), NEW c \in [Couple -> Status],
           \A k \in Couple : c[k] = IF About(Head(q), k) THEN Says(Head(q)) ELSE b[k]
    PROVE  InStep(c, Tail(q), d, of)
  <1> DEFINE r == Tail(q)
  <1>1. /\ r \in Seq(Told) /\ Len(r) = Len(q) - 1 /\ Len(q) \in Nat /\ Len(q) > 0
        /\ \A i \in 1 .. Len(r) : r[i] = q[i + 1]
        /\ Head(q) = q[1] /\ q[1] \in Told
    BY HeadIs
  <1>2. \A i \in 0 .. Len(r), k \in Couple : Has(c, r, i, k) <=> Has(b, q, i + 1, k) BY HasTail
  <1> HIDE DEF r
  <1>3. Accepted(c, r)
    <2> SUFFICES ASSUME NEW i \in 1 .. Len(r)
                 PROVE  /\ r[i].op = "add" => \A l \in Couple : Sharing(l, r[i].pair) => ~Has(c, r, i - 1, l)
                        /\ r[i].op = "update" => Has(c, r, i - 1, r[i].pair)
      BY DEF Accepted
    <2>1. i + 1 \in 1 .. Len(q) /\ r[i] = q[i + 1] /\ (i + 1) - 1 = i /\ i - 1 \in 0 .. Len(r) /\ (i - 1) + 1 = i
      BY <1>1
    <2>2. /\ q[i + 1].op = "add" => \A l \in Couple : Sharing(l, q[i + 1].pair) => ~Has(b, q, i, l)
          /\ q[i + 1].op = "update" => Has(b, q, i, q[i + 1].pair)
      BY <2>1 DEF InStep, Accepted
    <2>3. q[i + 1].pair \in Couple BY <2>1, ToldFacts
    <2>4. \A l \in Couple : Has(c, r, i - 1, l) <=> Has(b, q, i, l) BY <1>2, <2>1
    <2> QED BY <2>1, <2>2, <2>3, <2>4
  <1>4. \A k \in Couple, j \in 0 .. Len(r) : NoneAbout(r, j + 1, Len(r), k) => NoneAbout(q, j + 2, Len(q), k)
    <2> SUFFICES ASSUME NEW k \in Couple, NEW j \in 0 .. Len(r), NoneAbout(r, j + 1, Len(r), k),
                        NEW n \in j + 2 .. Len(q)
                 PROVE  ~About(q[n], k)
      BY DEF NoneAbout
    <2>1. n - 1 \in j + 1 .. Len(r) /\ n - 1 \in 1 .. Len(r) /\ r[n - 1] = q[n] BY <1>1
    <2> QED BY <2>1 DEF NoneAbout
  <1>5. Recent(r, of)
    <2> SUFFICES ASSUME NEW k \in Couple, NEW j \in 1 .. Len(r), About(r[j], k),
                        NoneAbout(r, j + 1, Len(r), k)
                 PROVE  of[k] = Says(r[j])
      BY DEF Recent
    <2>1. j + 1 \in 1 .. Len(q) /\ r[j] = q[j + 1] /\ j + 2 = (j + 1) + 1 /\ j \in 0 .. Len(r) BY <1>1
    <2>2. NoneAbout(q, (j + 1) + 1, Len(q), k) BY <1>4, <2>1
    <2> QED BY <2>1, <2>2 DEF InStep, Recent
  <1>6. Settled(c, r, d, of)
    <2> SUFFICES ASSUME NEW k \in Couple, NoneAbout(r, 1, Len(r), k)
                 PROVE  \/ c[k] = of[k]
                        \/ c[k] = "married" /\ of[k] = "engaged" /\ On(d, "update", k)
      BY DEF Settled
    <2>1. 0 + 1 = 1 /\ 0 + 2 = 2 /\ 1 + 1 = 2 /\ 0 \in 0 .. Len(r) /\ 1 \in 1 .. Len(q) BY <1>1
    <2>2. NoneAbout(q, 2, Len(q), k) BY <1>4, <2>1
    <2>3. CASE About(q[1], k)
      <3>1. of[k] = Says(q[1]) BY <2>1, <2>2, <2>3 DEF InStep, Recent
      <3> QED BY <1>1, <2>3, <3>1
    <2>4. CASE ~About(q[1], k)
      <3>1. NoneAbout(q, 1, Len(q), k) BY <1>1, <2>2, <2>4 DEF NoneAbout
      <3> QED BY <1>1, <2>4, <3>1 DEF InStep, Settled
    <2> QED BY <2>3, <2>4
  <1> QED BY <1>3, <1>5, <1>6 DEF InStep, r

\* What waits of the core itself only has to excuse an engagement.
LEMMA InStepPending ==
    ASSUME NEW b, NEW q, NEW d, NEW of, InStep(b, q, d, of), NEW e,
           \A k \in Couple : of[k] = "engaged" /\ On(d, "update", k) /\ NoneAbout(q, 1, Len(q), k)
                                => On(e, "update", k)
    PROVE  InStep(b, q, e, of)
  BY DEF InStep, Settled

\* A core that marries its couple is in step while its own packet waits.
LEMMA InStepMarry ==
    ASSUME NEW b \in [Couple -> Status], NEW q \in Seq(Told), NEW d, NEW of \in [Couple -> Status],
           InStep(b, q, d, of), NEW k \in Couple, b[k] # "none", On(d, "update", k)
    PROVE  InStep([b EXCEPT ![k] = "married"], q, d, of)
  <1> DEFINE c == [b EXCEPT ![k] = "married"]
  <1>1. \A l \in Couple : (c[l] # "none" <=> b[l] # "none") /\ c[l] = IF l = k THEN "married" ELSE b[l]
    OBVIOUS
  <1> HIDE DEF c
  <1>2. \A i, l : l \in Couple => (Has(c, q, i, l) <=> Has(b, q, i, l)) BY <1>1 DEF Has
  <1>3. Accepted(c, q)
    <2>1. \A i \in 1 .. Len(q) :
             /\ q[i].op = "add" => \A l \in Couple : Sharing(l, q[i].pair) => ~Has(c, q, i - 1, l)
             /\ q[i].op = "update" => Has(c, q, i - 1, q[i].pair)
      <3> TAKE i \in 1 .. Len(q)
      <3>1. q[i].pair \in Couple BY ToldFacts
      <3> QED BY <1>2, <3>1 DEF InStep, Accepted
    <2> QED BY <2>1 DEF Accepted
  <1>4. Settled(c, q, d, of)
    <2> SUFFICES ASSUME NEW l \in Couple, NoneAbout(q, 1, Len(q), l)
                 PROVE  \/ c[l] = of[l]
                        \/ c[l] = "married" /\ of[l] = "engaged" /\ On(d, "update", l)
      BY DEF Settled
    <2>1. \/ b[l] = of[l]
          \/ b[l] = "married" /\ of[l] = "engaged" /\ On(d, "update", l)
      BY DEF InStep, Settled
    <2> QED BY <1>1, <2>1 DEF Status
  <1> QED BY <1>3, <1>4 DEF InStep, c

-----------------------------------------------------------------------------
(* The copies of the cores follow the daemon *)

\* A core that has just started is in step once SETUP is on its way.
LEMMA InStepSetup ==
    ASSUME TypeInv, CoupleInv, NEW d
    PROVE  InStep(Nobody, Setup, d, couple)
  <1> DEFINE q == Setup
  <1>1. q \in Seq(Told) /\ Len(q) \in Nat BY SetupIs
  <1>2. PICK n, t : SetupShape(n, t) BY SetupIs
  <1>3. /\ n \in Nat /\ n <= Len(q) /\ t \in [1 .. n -> Couple]
        /\ \A i \in 1 .. Len(q) : i > n => \E k \in Couple : q[i] = Ready(k, running[k])
        /\ \A i \in 1 .. n :
              /\ couple[t[i]] # "none"
              /\ \/ /\ q[i] = Packet("add", t[i]) /\ i + 1 \in 1 .. n /\ t[i + 1] = t[i]
                    /\ q[i + 1] = Update(t[i], couple[t[i]])
                 \/ /\ q[i] = Update(t[i], couple[t[i]]) /\ i - 1 \in 1 .. n /\ t[i - 1] = t[i]
                    /\ q[i - 1] = Packet("add", t[i])
        /\ \A i, j \in 1 .. n : t[i] = t[j] =>
              \/ i = j
              \/ i = j + 1 /\ q[j] = Packet("add", t[i])
              \/ j = i + 1 /\ q[i] = Packet("add", t[i])
        /\ \A k \in Couple : couple[k] # "none" => \E i \in 1 .. n : t[i] = k
    BY <1>2 DEF SetupShape
  <1> HIDE DEF q
  <1>4. ASSUME NEW i \in 1 .. n
        PROVE  /\ t[i] \in Couple /\ couple[t[i]] \in Status
               /\ q[i].pair = t[i] /\ q[i].op \in {"add", "update"}
               /\ q[i].op = "add" => i + 1 \in 1 .. n /\ t[i + 1] = t[i]
               /\ q[i].op = "update" => i - 1 \in 1 .. n /\ t[i - 1] = t[i] /\ q[i - 1].op = "add"
                                          /\ q[i].status = couple[t[i]]
    <2>1. t[i] \in Couple /\ couple[t[i]] \in Status BY <1>3 DEF TypeInv, DaemonType
    <2> QED BY <1>3, <2>1, PacketKinds
  <1>5. ASSUME NEW i \in 1 .. Len(q), i > n PROVE q[i].op = "ready"
    BY <1>3, <1>5, PacketKinds
  <1>6. ASSUME NEW i \in 1 .. Len(q), NEW k
        PROVE  About(q[i], k) <=> i <= n /\ t[i] = k
    <2>1. CASE i <= n
      <3>1. i \in 1 .. n BY <1>1, <2>1
      <3> QED BY <1>4, <2>1, <3>1 DEF About
    <2>2. CASE i > n BY <1>3, <1>5, <2>2 DEF About
    <2> QED BY <1>3, <2>1, <2>2
  <1>7. Accepted(Nobody, q)
    <2>1. ASSUME NEW i \in 1 .. Len(q), q[i].op = "add", NEW l \in Couple, Sharing(l, q[i].pair)
          PROVE  ~Has(Nobody, q, i - 1, l)
      <3>1. i \in 1 .. n BY <1>1, <1>3, <1>5, <2>1
      <3>2. SUFFICES ASSUME NEW j \in 1 .. i - 1, About(q[j], l) PROVE FALSE
        BY DEF Has, Nobody
      <3>3. j \in 1 .. Len(q) /\ j < i BY <1>1
      <3>4. j <= n /\ t[j] = l BY <1>6, <3>2, <3>3
      <3>5. j \in 1 .. n BY <1>3, <3>3, <3>4
      <3>6. couple[l] # "none" /\ couple[t[i]] # "none" /\ q[i].pair = t[i] /\ t[i] \in Couple
        BY <1>3, <1>4, <3>1, <3>4, <3>5
      <3>7. l = t[i] BY <2>1, <3>6 DEF CoupleInv
      <3>8. i + 1 \in 1 .. n /\ t[i + 1] = t[i] BY <1>4, <2>1, <3>1
      <3>9. i + 1 = j + 1 \/ j = (i + 1) + 1 \/ i + 1 = j BY <1>3, <3>4, <3>5, <3>7, <3>8
      <3> QED BY <3>3, <3>9
    <2>2. ASSUME NEW i \in 1 .. Len(q), q[i].op = "update"
          PROVE  Has(Nobody, q, i - 1, q[i].pair)
      <3>1. i \in 1 .. n BY <1>1, <1>3, <1>5, <2>2
      <3>2. i - 1 \in 1 .. n /\ t[i - 1] = t[i] /\ q[i - 1].op = "add" /\ q[i].pair = t[i]
        BY <1>4, <2>2, <3>1
      <3>3. i - 1 \in 1 .. Len(q) /\ i - 1 \in 1 .. i - 1 /\ i - 1 <= n BY <1>1, <1>3, <3>2
      <3>4. About(q[i - 1], q[i].pair) BY <1>6, <3>2, <3>3
      <3>5. NoneAbout(q, (i - 1) + 1, i - 1, q[i].pair) BY <1>1 DEF NoneAbout
      <3> QED BY <3>2, <3>3, <3>4, <3>5 DEF Has
    <2> QED BY <2>1, <2>2 DEF Accepted
  <1>8. Recent(q, couple)
    <2> SUFFICES ASSUME NEW k \in Couple, NEW j \in 1 .. Len(q), About(q[j], k),
                        NoneAbout(q, j + 1, Len(q), k)
                 PROVE  couple[k] = Says(q[j])
      BY DEF Recent
    <2>0. j <= n /\ t[j] = k BY <1>6
    <2>1. j \in 1 .. n /\ t[j] = k BY <1>1, <1>3, <2>0
    <2>2. q[j].op # "add"
      <3> SUFFICES ASSUME q[j].op = "add" PROVE FALSE OBVIOUS
      <3>1. j + 1 \in 1 .. n /\ t[j + 1] = k BY <1>4, <2>1
      <3>2. j + 1 \in 1 .. Len(q) /\ j + 1 <= n /\ j + 1 \in j + 1 .. Len(q) BY <1>1, <1>3, <3>1
      <3>3. About(q[j + 1], k) BY <1>6, <3>1, <3>2
      <3> QED BY <3>2, <3>3 DEF NoneAbout
    <2>3. q[j].op = "update" /\ q[j].status = couple[k] BY <1>4, <2>1, <2>2
    <2> QED BY <2>3 DEF Says
  <1>9. Settled(Nobody, q, d, couple)
    <2> SUFFICES ASSUME NEW k \in Couple, NoneAbout(q, 1, Len(q), k) PROVE Nobody[k] = couple[k]
      BY DEF Settled
    <2>1. ASSUME couple[k] # "none" PROVE FALSE
      <3>1. PICK i \in 1 .. n : t[i] = k BY <1>3, <2>1
      <3>2. i \in 1 .. Len(q) /\ i <= n BY <1>1, <1>3
      <3> QED BY <1>6, <3>1, <3>2 DEF NoneAbout
    <2> QED BY <2>1 DEF Nobody
  <1> QED BY <1>7, <1>8, <1>9 DEF InStep, q

\* Nobody is engaged, and no packet is on its way.
LEMMA CopyInit == Init => CopyInv
  <1> SUFFICES ASSUME Init, NEW c \in Core PROVE InStep(bond[c], toCore[c], toDb[c], couple)
    BY DEF CopyInv
  <1>1. bond[c] = Nobody /\ toCore[c] = <<>> /\ toDb[c] = <<>> /\ couple = Nobody BY DEF Init, Nothing
  <1>2. Len(<<>>) = 0 OBVIOUS
  <1> QED BY <1>1, <1>2 DEF InStep, Accepted, Recent, Settled

\* Reading the head of a queue of the daemon drops one packet.
LEMMA OnTail ==
    ASSUME NEW S, NEW q \in Seq(S), q # <<>>, NEW op, NEW k, On(q, op, k),
           Head(q).op # op \/ Head(q).pair # k
    PROVE  On(Tail(q), op, k)
  <1>1. PICK i \in 1 .. Len(q) : q[i].op = op /\ q[i].pair = k BY DEF On
  <1>2. i # 1 BY <1>1, HeadIs
  <1>3. i - 1 \in 1 .. Len(Tail(q)) /\ Tail(q)[i - 1] = q[i] BY <1>2, HeadIs
  <1> QED BY <1>1, <1>3 DEF On

\* A queue with one more packet has the packets it had, and that one.
LEMMA OnAppend ==
    ASSUME NEW S, NEW q \in Seq(S), NEW p \in S, NEW op, NEW k
    PROVE  On(Append(q, p), op, k) <=> On(q, op, k) \/ (p.op = op /\ p.pair = k)
  <1>1. /\ Len(Append(q, p)) = Len(q) + 1 /\ Len(q) \in Nat /\ Append(q, p)[Len(q) + 1] = p
        /\ \A i \in 1 .. Len(q) : Append(q, p)[i] = q[i]
    BY AppendIs
  <1>2. ASSUME On(Append(q, p), op, k) PROVE On(q, op, k) \/ (p.op = op /\ p.pair = k)
    <2>1. PICK i \in 1 .. Len(q) + 1 : Append(q, p)[i].op = op /\ Append(q, p)[i].pair = k
      BY <1>1, <1>2 DEF On
    <2>2. CASE i = Len(q) + 1 BY <1>1, <2>1, <2>2
    <2>3. CASE i \in 1 .. Len(q) BY <1>1, <2>1, <2>3 DEF On
    <2> QED BY <1>1, <2>2, <2>3
  <1>3. ASSUME On(q, op, k) PROVE On(Append(q, p), op, k)
    <2>1. PICK i \in 1 .. Len(q) : q[i].op = op /\ q[i].pair = k BY <1>3 DEF On
    <2>2. i \in 1 .. Len(q) + 1 BY <1>1
    <2> QED BY <1>1, <2>1, <2>2 DEF On
  <1>4. ASSUME p.op = op /\ p.pair = k PROVE On(Append(q, p), op, k)
    <2>1. Len(q) + 1 \in 1 .. Len(q) + 1 BY <1>1
    <2> QED BY <1>1, <1>4, <2>1 DEF On
  <1> QED BY <1>2, <1>3, <1>4

\* What waits for the daemon of a core that sends it a packet.
LEMMA SendOn ==
    ASSUME TypeInv, NEW c \in Core, NEW p \in Asked, NEW d \in Core, NEW op, NEW k, On(toDb[d], op, k)
    PROVE  On(Send(toDb, c, p)[d], op, k)
  <1>1. toDb[d] \in Seq(Asked) BY DEF TypeInv, NetType
  <1>2. CASE d = c /\ up[c]
    <2>1. Send(toDb, c, p)[d] = Append(toDb[d], p) BY <1>2, SendIs
    <2>2. On(Append(toDb[d], p), op, k) BY <1>1, OnAppend
    <2> QED BY <2>1, <2>2
  <1>3. CASE d # c \/ ~up[c] BY <1>3, SendIs
  <1> QED BY <1>2, <1>3

\* The steps of the players' quests.
LEMMA CopyQuest ==
    ASSUME TypeInv, CopyInv, NEW c \in Core, NEW k \in Couple,
           RequestAdd(c, k) \/ RequestRemove(c, k) \/ RequestEndWedding(c, k) \/ SetMarried(c, k)
    PROVE  CopyInv'
  <1> SUFFICES ASSUME NEW d \in Core, up[d], synced[d]
               PROVE  InStep(bond'[d], toCore'[d], toDb'[d], couple')
    <2>1. up' = up /\ synced' = synced
      BY DEF RequestAdd, RequestRemove, RequestEndWedding, SetMarried, Quest
    <2> QED BY <2>1 DEF CopyInv
  <1>1. InStep(bond[d], toCore[d], toDb[d], couple) BY DEF CopyInv
  <1>2. /\ bond[d] \in [Couple -> Status] /\ toCore[d] \in Seq(Told) /\ couple \in [Couple -> Status]
        /\ bond \in [Core -> [Couple -> Status]] /\ "married" \in Status /\ toDb[d] \in Seq(Asked)
    BY DEF TypeInv, CopyType, NetType, DaemonType, Status
  <1>3. PICK p \in Asked : Quest(c, p)
    BY PacketKinds DEF RequestAdd, RequestRemove, RequestEndWedding, SetMarried
  <1>4. toDb' = Send(toDb, c, p) /\ toCore' = toCore /\ couple' = couple BY <1>3 DEF Quest, daemon
  <1>5. \A l : On(toDb[d], "update", l) => On(toDb'[d], "update", l) BY <1>4, SendOn
  <1>6. InStep(bond[d], toCore[d], toDb'[d], couple) BY <1>1, <1>5, InStepPending
  <1>7. CASE bond' = bond BY <1>4, <1>6, <1>7
  <1>8. CASE SetMarried(c, k)
    <2>1. bond[c][k] # "none" /\ bond' = [bond EXCEPT ![c][k] = "married"]
          /\ toDb' = Send(toDb, c, Update(k, "married"))
      BY <1>8 DEF SetMarried, Quest
    <2>2. CASE d # c
      <3>1. [bond EXCEPT ![c][k] = "married"][d] = bond[d] BY <1>2, <2>2, ChangeOne
      <3>2. bond'[d] = bond[d] BY <2>1, <3>1
      <3> QED BY <1>4, <1>6, <3>2
    <2>3. CASE d = c
      <3>1. [bond EXCEPT ![c][k] = "married"][c] = [bond[c] EXCEPT ![k] = "married"] BY <1>2, ChangeOne
      <3>2. bond'[d] = [bond[d] EXCEPT ![k] = "married"] BY <2>1, <2>3, <3>1
      <3>3. Update(k, "married") \in Asked /\ Update(k, "married").op = "update" /\ Update(k, "married").pair = k
        BY PacketKinds
      <3>4. toDb'[d] = Append(toDb[d], Update(k, "married")) BY <2>1, <2>3, <3>3, SendIs
      <3>5. On(toDb'[d], "update", k) BY <1>2, <3>3, <3>4, OnAppend
      <3>6. bond[d][k] # "none" BY <2>1, <2>3
      <3>7. InStep([bond[d] EXCEPT ![k] = "married"], toCore[d], toDb'[d], couple)
        BY <1>2, <1>6, <3>5, <3>6, InStepMarry
      <3> QED BY <1>4, <3>2, <3>7
    <2> QED BY <2>2, <2>3
  <1> QED BY <1>7, <1>8 DEF RequestAdd, RequestRemove, RequestEndWedding

\* A packet to all about what the daemon has just changed.
LEMMA CopyForward ==
    ASSUME TypeInv, CopyInv, couple' \in [Couple -> Status], NEW p \in Told, NEW d \in Core, up[d], synced[d],
           toCore'[d] = Append(toCore[d], p), bond' = bond,
           p.op = "add" => ~Taken(couple, p.pair),
           p.op = "update" => couple[p.pair] # "none",
           \A k \in Couple : couple'[k] = IF About(p, k) THEN Says(p) ELSE couple[k],
           \A k \in Couple : On(toDb[d], "update", k) => On(toDb'[d], "update", k) \/ couple'[k] # "engaged"
    PROVE  InStep(bond'[d], toCore'[d], toDb'[d], couple')
  <1>1. InStep(bond[d], toCore[d], toDb[d], couple) BY DEF CopyInv
  <1>2. /\ bond[d] \in [Couple -> Status] /\ toCore[d] \in Seq(Told) /\ couple \in [Couple -> Status]
    BY DEF TypeInv, CopyType, NetType, DaemonType
  <1>3. p.op = "add" => \A l \in Couple : Sharing(l, p.pair) => couple[l] = "none"
    BY DEF Taken, Sharing
  <1>4. InStep(bond[d], Append(toCore[d], p), toDb[d], couple')
    BY <1>1, <1>2, <1>3, InStepAppend
  <1>5. InStep(bond[d], Append(toCore[d], p), toDb'[d], couple')
    BY <1>4, InStepPending
  <1> QED BY <1>5

\* Cores that the step does not concern.
LEMMA CopySame ==
    ASSUME CopyInv, NEW d \in Core, up[d], synced[d],
           bond'[d] = bond[d], toCore'[d] = toCore[d], couple' = couple,
           \A k \in Couple : On(toDb[d], "update", k) => On(toDb'[d], "update", k) \/ couple'[k] # "engaged"
    PROVE  InStep(bond'[d], toCore'[d], toDb'[d], couple')
  <1>1. InStep(bond[d], toCore[d], toDb[d], couple) BY DEF CopyInv
  <1>2. InStep(bond[d], toCore[d], toDb'[d], couple) BY <1>1, InStepPending
  <1> QED BY <1>2

\* The handlers of the daemon tell all cores what they change, and nothing else.
LEMMA CopyDaemon ==
    ASSUME TypeInv, CoupleInv, LinkInv, CopyInv, NEW c \in Core, DaemonReads(c)
    PROVE  CopyInv'
  <1> DEFINE p == Head(toDb[c])
  <1>1. /\ toDb[c] # <<>> /\ toDb' = [toDb EXCEPT ![c] = Tail(@)]
        /\ UNCHANGED <<core, up, synced, faults>>
    BY DEF DaemonReads, MarriageAdd, MarriageUpdate, MarriageRemove, WeddingRequest, WeddingReady, EndWedding, Handle
  <1> SUFFICES ASSUME NEW d \in Core, up[d], synced[d]
               PROVE  InStep(bond'[d], toCore'[d], toDb'[d], couple')
    BY <1>1 DEF CopyInv
  <1>2. bond' = bond BY <1>1 DEF core
  <1>3. p \in Asked /\ p \in Told /\ p.pair \in Couple BY <1>1, DbHead
  <1>4. p.op = "update" => p.status = "married" BY <1>3, AskedFacts
  <1>5. \A op, k : On(toDb[d], op, k) => On(toDb'[d], op, k) \/ (p.op = op /\ p.pair = k)
    <2>1. toDb[c] \in Seq(Asked) /\ DOMAIN toDb = Core BY DEF TypeInv, NetType
    <2>2. CASE d = c
      <3>1. toDb'[d] = Tail(toDb[d]) BY <1>1, <2>1, <2>2
      <3> QED BY <1>1, <2>1, <2>2, <3>1, OnTail
    <2>3. CASE d # c BY <1>1, <2>1, <2>3
    <2> QED BY <2>2, <2>3
  <1>6. couple' \in [Couple -> Status] /\ couple \in [Couple -> Status]
    BY TypeStep, TypeDaemon DEF TypeInv, DaemonType
  <1>7. Packet("add", p.pair) \in Told /\ Packet("add", p.pair).op = "add" /\ Packet("add", p.pair).pair = p.pair
    BY <1>3, PacketKinds
  <1> HIDE DEF p
  <1>8. CASE MarriageAdd(c)
    <2>0. p.op = "add" BY <1>8 DEF MarriageAdd, Handle, p
    <2>1. CASE Taken(couple, p.pair)
      <3>1. couple' = couple /\ toCore' = toCore BY <1>8, <2>1 DEF MarriageAdd, p
      <3> QED BY <1>2, <1>5, <2>0, <3>1, CopySame
    <2>2. CASE ~Taken(couple, p.pair)
      <3>1. couple' = [couple EXCEPT ![p.pair] = "engaged"] /\ toCore' = Forward(<<Packet("add", p.pair)>>)
        BY <1>8, <2>2 DEF MarriageAdd, p
      <3>2. toCore'[d] = Append(toCore[d], Packet("add", p.pair)) BY <1>7, <3>1, ForwardOne
      <3>3. \A k \in Couple : couple'[k] = IF About(Packet("add", p.pair), k)
                                           THEN Says(Packet("add", p.pair)) ELSE couple[k]
        BY <1>3, <1>6, <1>7, <3>1 DEF About, Says
      <3> QED BY <1>2, <1>5, <1>6, <1>7, <2>0, <2>2, <3>2, <3>3, CopyForward
    <2> QED BY <2>1, <2>2
  <1>9. CASE MarriageUpdate(c)
    <2>0. p.op = "update" BY <1>9 DEF MarriageUpdate, Handle, p
    <2>1. CASE couple[p.pair] \in {"none", p.status}
      <3>1. couple' = couple /\ toCore' = toCore BY <1>9, <2>1 DEF MarriageUpdate, p
      <3>2. couple[p.pair] # "engaged" BY <1>4, <2>0, <2>1
      <3> QED BY <1>2, <1>5, <3>1, <3>2, CopySame
    <2>2. CASE couple[p.pair] \notin {"none", p.status}
      <3>1. couple' = [couple EXCEPT ![p.pair] = p.status] /\ toCore' = Forward(<<p>>)
        BY <1>9, <2>2 DEF MarriageUpdate, p
      <3>2. toCore'[d] = Append(toCore[d], p) BY <1>3, <3>1, ForwardOne
      <3>3. \A k \in Couple : couple'[k] = IF About(p, k) THEN Says(p) ELSE couple[k]
        BY <1>3, <1>6, <2>0, <3>1 DEF About, Says
      <3>4. couple'[p.pair] # "engaged" BY <1>3, <1>4, <1>6, <2>0, <3>1
      <3>5. \A k \in Couple : On(toDb[d], "update", k) => On(toDb'[d], "update", k) \/ couple'[k] # "engaged"
        BY <1>5, <3>4
      <3> QED BY <1>2, <1>3, <1>6, <2>0, <2>2, <3>2, <3>3, <3>5, CopyForward
    <2> QED BY <2>1, <2>2
  <1>10. CASE MarriageRemove(c)
    <2>0. p.op = "remove" BY <1>10 DEF MarriageRemove, Handle, p
    <2>1. CASE couple[p.pair] = "none"
      <3>1. couple' = couple /\ toCore' = toCore BY <1>10, <2>1 DEF MarriageRemove, p
      <3> QED BY <1>2, <1>5, <2>0, <3>1, CopySame
    <2>2. CASE couple[p.pair] # "none"
      <3>1. couple' = [couple EXCEPT ![p.pair] = "none"] /\ toCore' = Forward(<<p>>)
        BY <1>10, <2>2 DEF MarriageRemove, p
      <3>2. toCore'[d] = Append(toCore[d], p) BY <1>3, <3>1, ForwardOne
      <3>3. \A k \in Couple : couple'[k] = IF About(p, k) THEN Says(p) ELSE couple[k]
        BY <1>3, <1>6, <2>0, <3>1 DEF About, Says
      <3> QED BY <1>2, <1>3, <1>5, <1>6, <2>0, <3>2, <3>3, CopyForward
    <2> QED BY <2>1, <2>2
  <1>11. CASE WeddingRequest(c) \/ WeddingReady(c) \/ EndWedding(c)
    <2>0. p.op \in {"request", "ready", "end"}
      BY <1>11 DEF WeddingRequest, WeddingReady, EndWedding, Handle, p
    <2>1. couple' = couple /\ (toCore' = toCore \/ toCore' = Forward(<<p>>))
      BY <1>11 DEF WeddingRequest, WeddingReady, EndWedding, p, daemon
    <2>2. CASE toCore' = toCore BY <1>2, <1>5, <2>0, <2>1, <2>2, CopySame
    <2>3. CASE toCore' = Forward(<<p>>)
      <3>1. toCore'[d] = Append(toCore[d], p) BY <1>3, <2>3, ForwardOne
      <3>2. \A k \in Couple : couple'[k] = IF About(p, k) THEN Says(p) ELSE couple[k]
        BY <2>0, <2>1 DEF About
      <3> QED BY <1>2, <1>3, <1>5, <1>6, <2>0, <3>1, <3>2, CopyForward
    <2> QED BY <2>1, <2>2, <2>3
  <1> QED BY <1>8, <1>9, <1>10, <1>11 DEF DaemonReads

\* The timer tells all cores of a couple that it parts at the end of its wedding.
LEMMA CopyTimer ==
    ASSUME TypeInv, CoupleInv, CopyInv, Timer \/ Tick
    PROVE  CopyInv'
  <1>0. UNCHANGED <<bond, toDb, up, synced>>
    BY DEF Timer, Tick, EndDue, StartDue, core, net, history
  <1> SUFFICES ASSUME NEW d \in Core, up[d], synced[d]
               PROVE  InStep(bond'[d], toCore'[d], toDb'[d], couple')
    BY <1>0 DEF CopyInv
  <1>1. CASE couple' = couple /\ toCore' = toCore BY <1>0, <1>1, CopySame
  <1>2. ASSUME NEW e \in ends, EndDue(e), running[e.pair] # 0
        PROVE  InStep(bond'[d], toCore'[d], toDb'[d], couple')
    <2>1. /\ bond[d] \in [Couple -> Status] /\ toCore[d] \in Seq(Told) /\ couple \in [Couple -> Status]
          /\ e.pair \in Couple
      BY DEF TypeInv, CopyType, NetType, DaemonType
    <2>2. InStep(bond[d], toCore[d], toDb[d], couple) BY DEF CopyInv
    <2> DEFINE p == Packet("end", e.pair)
    <2>3. p \in Told /\ p.op = "end" BY <2>1, PacketKinds
    <2> HIDE DEF p
    <2>4. InStep(bond[d], Append(toCore[d], p), toDb[d], couple)
      <3>1. \A k \in Couple : couple[k] = IF About(p, k) THEN Says(p) ELSE couple[k]
        BY <2>3 DEF About
      <3> HIDE DEF InStep
      <3> QED BY <2>1, <2>2, <2>3, <3>1, InStepAppend
    <2>5. PICK gone :
             /\ gone = {} \/ \E k \in Couple : gone = {k} /\ couple[k] = "engaged"
                                                /\ e.pair[1] \in {k[1], k[2]}
             /\ couple' = [k \in Couple |-> IF k \in gone THEN "none" ELSE couple[k]]
             /\ parted' = parted \cup (gone \ {e.pair})
             /\ gone = {} => toCore' = Forward(<<Packet("end", e.pair)>>)
             /\ \A k \in gone : toCore' = Forward(<<Packet("end", e.pair), Packet("remove", k)>>)
      BY <1>2, EndDueIs
    <2>6. CASE gone = {}
      <3>1. toCore'[d] = Append(toCore[d], p) BY <2>3, <2>5, <2>6, ForwardOne DEF p
      <3>2. couple' = couple BY <2>1, <2>5, <2>6
      <3> QED BY <1>0, <2>4, <3>1, <3>2
    <2>7. CASE gone # {}
      <3>1. PICK k \in Couple : gone = {k} BY <2>5, <2>7
      <3> DEFINE r == Packet("remove", k)
      <3>2. r \in Told /\ r.op = "remove" /\ r.pair = k BY PacketKinds
      <3>8. toCore' = Forward(<<p, r>>) BY <2>5, <3>1 DEF p
      <3>3. toCore'[d] = Append(Append(toCore[d], p), r)
        <4> HIDE DEF r
        <4> QED BY <2>3, <3>2, <3>8, ForwardTwo
      <3> HIDE DEF r
      <3>4. Append(toCore[d], p) \in Seq(Told) BY <2>1, <2>3, AppendIs
      <3>5. couple' \in [Couple -> Status] BY <2>1, <2>5 DEF Status
      <3>6. \A l \in Couple : couple'[l] = IF About(r, l) THEN Says(r) ELSE couple[l]
        BY <2>5, <3>1, <3>2 DEF About, Says
      <3> HIDE DEF InStep
      <3>7. InStep(bond[d], Append(Append(toCore[d], p), r), toDb[d], couple')
        BY <2>1, <2>4, <3>2, <3>4, <3>5, <3>6, InStepAppend
      <3> QED BY <1>0, <3>3, <3>7
    <2> QED BY <2>6, <2>7
  <1>3. ASSUME NEW e \in ends, EndDue(e), running[e.pair] = 0 PROVE couple' = couple /\ toCore' = toCore
    BY <1>3 DEF EndDue
  <1>4. ASSUME (\E s \in starts : StartDue(s)) \/ Tick PROVE couple' = couple /\ toCore' = toCore
    BY <1>4 DEF StartDue, Tick, core, net
  <1> QED BY <1>1, <1>2, <1>3, <1>4 DEF Timer

\* What a core knows of the couples after its next packet is what the packet says.
LEMMA CoreLearns ==
    ASSUME TypeInv, CopyInv, NEW c \in Core, CoreReads(c), up[c], synced[c]
    PROVE  \A k \in Couple : bond'[c][k] = IF About(Head(toCore[c]), k) THEN Says(Head(toCore[c])) ELSE bond[c][k]
  <1> DEFINE p == Head(toCore[c])
  <1>1. toCore[c] # <<>>
    BY DEF CoreReads, CoreAdd, CoreUpdate, CoreRemove, CoreRequest, CoreReady, CoreEnd, Receive
  <1>2. /\ bond \in [Core -> [Couple -> Status]] /\ toCore[c] \in Seq(Told)
        /\ "none" \in Status /\ "engaged" \in Status /\ "married" \in Status
    BY DEF TypeInv, CopyType, NetType, Status
  <1>3. p \in Told /\ p.pair \in Couple BY <1>1, CoreHead
  <1>4. InStep(bond[c], toCore[c], toDb[c], couple) BY DEF CopyInv
  <1>5. \A k \in Couple : bond'[c][k] = IF About(p, k) THEN Says(p) ELSE bond[c][k]
    <2>1. ASSUME NEW v \in Status
          PROVE  \A k \in Couple : [bond EXCEPT ![c][p.pair] = v][c][k] = IF k = p.pair THEN v ELSE bond[c][k]
      BY <1>2, <1>3, ChangeOne
    <2>2. CASE CoreAdd(c)
      <3>1. p.op = "add" BY <2>2 DEF CoreAdd, Receive
      <3>2. ~Taken(bond[c], p.pair)
        <4>1. toCore[c] \in Seq(Told) /\ toCore[c][1] = p /\ 1 \in 1 .. Len(toCore[c]) /\ 1 - 1 = 0
          BY <1>1, <1>2, HeadIs
        <4>2. Accepted(bond[c], toCore[c]) BY <1>4 DEF InStep
        <4>3. \A l \in Couple : Sharing(l, p.pair) => ~Has(bond[c], toCore[c], 0, l)
          BY <3>1, <4>1, <4>2 DEF Accepted
        <4>4. \A l \in Couple : ~Has(bond[c], toCore[c], 0, l) => bond[c][l] = "none"
          BY DEF Has, NoneAbout
        <4> QED BY <4>3, <4>4 DEF Taken, Sharing
      <3>3. bond' = [bond EXCEPT ![c][p.pair] = "engaged"] BY <2>2, <3>2 DEF CoreAdd
      <3>4. \A k \in Couple : bond'[c][k] = IF k = p.pair THEN "engaged" ELSE bond[c][k]
        <4> HIDE DEF p
        <4> QED BY <1>2, <2>1, <3>3
      <3> HIDE DEF p
      <3> QED BY <3>1, <3>4 DEF About, Says
    <2>3. CASE CoreUpdate(c)
      <3>1. p.op = "update" BY <2>3 DEF CoreUpdate, Receive
      <3>2. bond[c][p.pair] # "none"
        <4>1. toCore[c] \in Seq(Told) /\ toCore[c][1] = p /\ 1 \in 1 .. Len(toCore[c]) /\ 1 - 1 = 0
          BY <1>1, <1>2, HeadIs
        <4>2. Accepted(bond[c], toCore[c]) BY <1>4 DEF InStep
        <4>3. Has(bond[c], toCore[c], 0, p.pair) BY <3>1, <4>1, <4>2 DEF Accepted
        <4> QED BY <4>3 DEF Has
      <3>3. bond' = [bond EXCEPT ![c][p.pair] = p.status] BY <2>3, <3>2 DEF CoreUpdate
      <3>4. p.status \in Status BY <1>3, <3>1, ToldFacts DEF Status
      <3> HIDE DEF p
      <3>5. \A k \in Couple : bond'[c][k] = IF k = p.pair THEN p.status ELSE bond[c][k]
        BY <2>1, <3>3, <3>4
      <3> QED BY <3>1, <3>5 DEF About, Says
    <2>4. CASE CoreRemove(c)
      <3>1. p.op = "remove" /\ bond' = [bond EXCEPT ![c][p.pair] = "none"]
        BY <2>4 DEF CoreRemove, Receive
      <3> HIDE DEF p
      <3>2. \A k \in Couple : bond'[c][k] = IF k = p.pair THEN "none" ELSE bond[c][k]
        BY <1>2, <2>1, <3>1
      <3> QED BY <3>1, <3>2 DEF About, Says
    <2>5. CASE CoreRequest(c) \/ CoreReady(c) \/ CoreEnd(c)
      <3>1. p.op \in {"request", "ready", "end"} /\ bond' = bond
        BY <2>5 DEF CoreRequest, CoreReady, CoreEnd, Receive
      <3> QED BY <3>1 DEF About
    <2> QED BY <2>2, <2>3, <2>4, <2>5 DEF CoreReads
  <1> QED BY <1>5

\* A core does what the packet says.
LEMMA CopyCore ==
    ASSUME TypeInv, CopyInv, NEW c \in Core, CoreReads(c)
    PROVE  CopyInv'
  <1> DEFINE p == Head(toCore[c])
  <1>1. /\ toCore[c] # <<>> /\ toCore' = [toCore EXCEPT ![c] = Tail(@)]
        /\ couple' = couple /\ up' = up /\ synced' = synced
    BY DEF CoreReads, CoreAdd, CoreUpdate, CoreRemove, CoreRequest, CoreReady, CoreEnd, Receive, daemon
  <1> SUFFICES ASSUME NEW d \in Core, up[d], synced[d]
               PROVE  InStep(bond'[d], toCore'[d], toDb'[d], couple')
    BY <1>1 DEF CopyInv
  <1>2. /\ bond \in [Core -> [Couple -> Status]] /\ bond[d] \in [Couple -> Status]
        /\ toCore[d] \in Seq(Told) /\ couple \in [Couple -> Status]
        /\ toCore \in [Core -> Seq(Told)] /\ bond' \in [Core -> [Couple -> Status]] /\ nextMap \in Nat \ {0}
        /\ "none" \in Status /\ "engaged" \in Status /\ "married" \in Status
    BY TypeCore DEF TypeInv, CopyType, NetType, DaemonType, Status, HallType
  <1>3. p \in Told /\ p.pair \in Couple BY <1>1, CoreHead
  <1>4. InStep(bond[d], toCore[d], toDb[d], couple) BY DEF CopyInv
  <1>5. \A k \in Couple : On(toDb[d], "update", k) => On(toDb'[d], "update", k)
    <2>1. \/ toDb' = toDb
          \/ toDb' = Send(toDb, c, Packet("request", p.pair))
          \/ toDb' = Send(toDb, c, Ready(p.pair, nextMap))
      BY DEF CoreReads, CoreAdd, CoreUpdate, CoreRemove, CoreRequest, CoreReady, CoreEnd, Receive
    <2>2. Packet("request", p.pair) \in Asked /\ Ready(p.pair, nextMap) \in Asked BY <1>2, <1>3, PacketKinds
    <2> QED BY <2>1, <2>2, SendOn
  <1>6. \E v : v \in Status /\ (bond' = bond \/ bond' = [bond EXCEPT ![c][p.pair] = v])
    <2>1. p.op = "update" => p.status \in Status BY <1>3, ToldFacts DEF Status
    <2> HIDE DEF p
    <2>2. \/ bond' = bond
          \/ bond' = [bond EXCEPT ![c][p.pair] = "engaged"]
          \/ bond' = [bond EXCEPT ![c][p.pair] = "none"]
          \/ bond' = [bond EXCEPT ![c][p.pair] = p.status] /\ p.op = "update"
      BY DEF CoreReads, CoreAdd, CoreUpdate, CoreRemove, CoreRequest, CoreReady, CoreEnd, Receive, p
    <2> QED BY <1>2, <2>1, <2>2
  <1>7. CASE d # c
    <2>1. PICK v \in Status : bond' = bond \/ bond' = [bond EXCEPT ![c][p.pair] = v] BY <1>6
    <2>2. [bond EXCEPT ![c][p.pair] = v][d] = bond[d] BY <1>2, <1>3, <1>7, ChangeOne
    <2>3. bond'[d] = bond[d] BY ONLY <2>1, <2>2
    <2>4. toCore'[d] = toCore[d] BY <1>1, <1>2, <1>7
    <2> QED BY <1>1, <1>5, <2>3, <2>4, CopySame
  <1>8. CASE d = c
    <2>1. toCore'[d] = Tail(toCore[d]) BY <1>1, <1>2, <1>8
    <2>2. \A k \in Couple : bond'[d][k] = IF About(p, k) THEN Says(p) ELSE bond[d][k] BY <1>8, CoreLearns
    <2>3. bond'[d] \in [Couple -> Status] BY <1>2
    <2>4. toCore[d] # <<>> /\ p = Head(toCore[d]) BY <1>1, <1>8
    <2> HIDE DEF InStep, p
    <2>5. InStep(bond'[d], Tail(toCore[d]), toDb[d], couple)
      BY <1>2, <1>4, <2>2, <2>3, <2>4, InStepTail
    <2>6. InStep(bond'[d], Tail(toCore[d]), toDb'[d], couple)
      BY <1>5, <2>5, InStepPending
    <2> QED BY <1>1, <2>1, <2>6
  <1> QED BY <1>7, <1>8

\* Every step keeps the cores in step.
LEMMA CopyStep == TypeInv /\ CoupleInv /\ LinkInv /\ CopyInv /\ [Next]_vars => CopyInv'
  <1> SUFFICES ASSUME TypeInv, CoupleInv, LinkInv, CopyInv, [Next]_vars PROVE CopyInv' OBVIOUS
  <1>0. NetType BY DEF TypeInv
  <1>1. CASE UNCHANGED vars BY <1>1 DEF vars, daemon, core, net, history, CopyInv
  <1>2. ASSUME NEW m, DestroyWeddingMap(m) PROVE CopyInv'
    BY <1>2 DEF DestroyWeddingMap, daemon, net, history, CopyInv
  <1>3. ASSUME NEW c \in Core, LinkDrops(c) PROVE CopyInv'
    BY <1>0, <1>3 DEF LinkDrops, Cut, CopyInv, daemon, core, NetType
  <1>4. ASSUME NEW c \in Core, CoreCrash(c) PROVE CopyInv'
    <2> SUFFICES ASSUME NEW d \in Core, up'[d], synced'[d]
                 PROVE  InStep(bond'[d], toCore'[d], toDb'[d], couple')
      BY DEF CopyInv
    <2>1. d # c BY <1>0, <1>4 DEF CoreCrash, Cut, NetType
    <2>2. up[d] /\ synced[d] /\ toCore'[d] = toCore[d] /\ toDb'[d] = toDb[d] /\ bond'[d] = bond[d] /\ couple' = couple
      BY <1>0, <1>4, <2>1 DEF CoreCrash, Cut, NetType, TypeInv, CopyType, daemon
    <2> QED BY <2>2 DEF CopyInv
  <1>5. ASSUME NEW c \in Core, Reconnect(c) PROVE CopyInv'
    <2> SUFFICES ASSUME NEW d \in Core, up'[d], synced'[d]
                 PROVE  InStep(bond'[d], toCore'[d], toDb'[d], couple')
      BY DEF CopyInv
    <2>1. CASE d = c
      <3>1. bond[d] = Nobody /\ synced[d] BY <1>5, <2>1 DEF Reconnect, LinkInv, history
      <3>2. bond'[d] = Nobody /\ toCore'[d] = Setup /\ couple' = couple
        BY <1>0, <1>5, <2>1, <3>1 DEF Reconnect, core, daemon, NetType
      <3> QED BY <3>2, InStepSetup
    <2>2. CASE d # c
      <3>1. up[d] /\ synced[d] /\ toCore'[d] = toCore[d] /\ toDb'[d] = toDb[d] /\ bond'[d] = bond[d] /\ couple' = couple
        BY <1>0, <1>5, <2>2 DEF Reconnect, NetType, daemon, core, history
      <3> QED BY <3>1 DEF CopyInv
    <2> QED BY <2>1, <2>2
  <1>6. ASSUME DaemonRestart PROVE CopyInv'
    BY <1>6 DEF DaemonRestart, CopyInv
  <1> QED BY <1>1, <1>2, <1>3, <1>4, <1>5, <1>6, CopyQuest, CopyDaemon, CopyTimer, CopyCore DEF Next

\* With no packet about a couple on its way, a core has what the daemon has.
LEMMA AgreeIs == TypeInv /\ CopyInv => Agree
  <1> SUFFICES ASSUME TypeInv, CopyInv, NEW c \in Core, NEW k \in Couple, up[c], synced[c],
                      \A op \in {"add", "update", "remove"} : ~On(toCore[c], op, k),
                      ~On(toDb[c], "update", k)
               PROVE  bond[c][k] = couple[k]
    BY DEF Agree
  <1>1. Settled(bond[c], toCore[c], toDb[c], couple) BY DEF CopyInv, InStep
  <1>2. NoneAbout(toCore[c], 1, Len(toCore[c]), k) BY DEF NoneAbout, About, On
  <1> QED BY <1>1, <1>2 DEF Settled

-----------------------------------------------------------------------------
(* Halls are named once *)

\* What a queue without its head still has.
LEMMA ReadyKept ==
    ASSUME NEW S, NEW q \in Seq(S), q # <<>>
    PROVE  /\ \A h : OpenIn(h, q) => OpenIn(h, Tail(q))
           /\ OnceIn(q) => OnceIn(Tail(q)) /\ (IsReady(Head(q)) => NotIn(Tail(q), Head(q).map))
           /\ \A m : NotIn(q, m) => NotIn(Tail(q), m)
           /\ \A i \in 1 .. Len(Tail(q)) : i + 1 \in 1 .. Len(q) /\ Tail(q)[i] = q[i + 1]
  <1>1. /\ Len(Tail(q)) = Len(q) - 1 /\ Len(q) \in Nat /\ Head(q) = q[1] /\ 1 \in 1 .. Len(q)
        /\ \A i \in 1 .. Len(Tail(q)) : i + 1 \in 1 .. Len(q) /\ Tail(q)[i] = q[i + 1] /\ i + 1 # 1
    BY HeadIs
  <1>2. \A h : OpenIn(h, q) => OpenIn(h, Tail(q)) BY <1>1 DEF OpenIn
  <1>3. ASSUME OnceIn(q) PROVE OnceIn(Tail(q))
    <2> SUFFICES ASSUME NEW i \in 1 .. Len(Tail(q)), NEW j \in 1 .. Len(Tail(q)),
                        IsReady(Tail(q)[i]), IsReady(Tail(q)[j]), Tail(q)[i].map = Tail(q)[j].map
                 PROVE  i = j
      BY DEF OnceIn
    <2>1. i + 1 = j + 1 BY <1>1, <1>3 DEF OnceIn
    <2> QED BY <1>1, <2>1
  <1>4. ASSUME OnceIn(q), IsReady(Head(q)) PROVE NotIn(Tail(q), Head(q).map)
    BY <1>1, <1>4 DEF OnceIn, NotIn
  <1>5. \A m : NotIn(q, m) => NotIn(Tail(q), m) BY <1>1 DEF NotIn
  <1> QED BY <1>1, <1>2, <1>3, <1>4, <1>5

\* What a queue with one more packet has.
LEMMA ReadyAdded ==
    ASSUME NEW S, NEW q \in Seq(S), NEW p \in S
    PROVE  /\ \A h : OpenIn(h, q) /\ (IsReady(p) => Open(h, p.pair, p.map)) => OpenIn(h, Append(q, p))
           /\ OnceIn(q) /\ (IsReady(p) => NotIn(q, p.map)) => OnceIn(Append(q, p))
           /\ \A m : NotIn(q, m) /\ (IsReady(p) => p.map # m) => NotIn(Append(q, p), m)
           /\ \A i \in 1 .. Len(Append(q, p)) :
                 \/ i \in 1 .. Len(q) /\ Append(q, p)[i] = q[i]
                 \/ Append(q, p)[i] = p
  <1> DEFINE r == Append(q, p)
  <1>1. /\ Len(r) = Len(q) + 1 /\ Len(q) \in Nat /\ r[Len(q) + 1] = p
        /\ \A i \in 1 .. Len(q) : r[i] = q[i]
    BY AppendIs
  <1> HIDE DEF r
  <1>2. \A i \in 1 .. Len(r) : (i \in 1 .. Len(q) /\ r[i] = q[i]) \/ (i = Len(q) + 1 /\ r[i] = p)
    BY <1>1
  <1>3. \A h : OpenIn(h, q) /\ (IsReady(p) => Open(h, p.pair, p.map)) => OpenIn(h, r)
    BY <1>2 DEF OpenIn
  <1>4. OnceIn(q) /\ (IsReady(p) => NotIn(q, p.map)) => OnceIn(r)
    BY <1>2 DEF OnceIn, NotIn
  <1>5. \A m : NotIn(q, m) /\ (IsReady(p) => p.map # m) => NotIn(r, m)
    BY <1>2 DEF NotIn
  <1> QED BY <1>2, <1>3, <1>4, <1>5 DEF r

\* Packets other than READY change nothing.
LEMMA MapSend ==
    ASSUME NEW h, NEW d \in Seq(Asked), NEW q, NEW n, MapOf(h, d, q, n), NEW p \in Asked, ~IsReady(p)
    PROVE  MapOf(h, Append(d, p), q, n)
  BY ReadyAdded DEF MapOf

\* A packet other than READY to the host.
LEMMA MapTell ==
    ASSUME NEW h, NEW d, NEW q \in Seq(Told), NEW n, MapOf(h, d, q, n), NEW p \in Told, ~IsReady(p)
    PROVE  MapOf(h, d, Append(q, p), n)
  BY ReadyAdded DEF MapOf

\* The daemon reads a packet.
LEMMA MapRead ==
    ASSUME NEW h, NEW d \in Seq(Asked), d # <<>>, NEW q, NEW n, MapOf(h, d, q, n)
    PROVE  MapOf(h, Tail(d), q, n)
  BY ReadyKept DEF MapOf

\* The host reads a packet.
LEMMA MapHear ==
    ASSUME NEW h, NEW d, NEW q \in Seq(Told), q # <<>>, NEW n, MapOf(h, d, q, n)
    PROVE  MapOf(h, d, Tail(q), n)
  BY ReadyKept DEF MapOf

\* READY passes the daemon.
LEMMA MapPass ==
    ASSUME NEW h, NEW d \in Seq(Asked), d # <<>>, NEW q \in Seq(Told), NEW n, MapOf(h, d, q, n),
           IsReady(Head(d))
    PROVE  MapOf(h, Tail(d), Append(q, Head(d)), n)
  <1> DEFINE p == Head(d)
  <1>1. p \in Told /\ d[1] = p /\ 1 \in 1 .. Len(d) BY HeadIs, AskedFacts
  <1>2. Open(h, p.pair, p.map) /\ NotIn(q, p.map) /\ NotIn(Tail(d), p.map)
        /\ \A k \in Couple : n[k] # 0 => p.map # n[k]
    BY <1>1, ReadyKept DEF MapOf, OpenIn, NotIn
  <1>3. \A i \in 1 .. Len(Tail(d)) : IsReady(Tail(d)[i]) => Tail(d)[i].map # p.map
    BY <1>2 DEF NotIn
  <1> HIDE DEF p
  <1>4. OpenIn(h, Append(q, p)) /\ OnceIn(Append(q, p))
        /\ \A m : NotIn(q, m) /\ p.map # m => NotIn(Append(q, p), m)
    BY <1>1, <1>2, ReadyAdded DEF MapOf
  <1>5. MapOf(h, Tail(d), q, n) BY MapRead
  <1> QED BY <1>2, <1>3, <1>4, <1>5 DEF MapOf, p

\* The host forgets a wedding that it showed.
LEMMA MapForget ==
    ASSUME NEW h, NEW d, NEW q, NEW n, MapOf(h, d, q, n), NEW o,
           \A k \in Couple : o[k] = n[k] \/ o[k] = 0
    PROVE  MapOf(h, d, q, o)
  BY DEF MapOf

\* READY arrives at the host.
LEMMA MapArrive ==
    ASSUME NEW h, NEW d, NEW q \in Seq(Told), q # <<>>, NEW n, MapOf(h, d, q, n),
           IsReady(Head(q)), NEW o,
           \A k \in Couple : o[k] = n[k] \/ (k = Head(q).pair /\ o[k] = Head(q).map)
    PROVE  MapOf(h, d, Tail(q), o)
  <1> DEFINE p == Head(q)
  <1>1. q[1] = p /\ 1 \in 1 .. Len(q) BY HeadIs
  <1>2. Open(h, p.pair, p.map) /\ NotIn(Tail(q), p.map) BY <1>1, ReadyKept DEF MapOf, OpenIn
  <1>3. NotIn(d, p.map) BY <1>1 DEF MapOf, NotIn
  <1> HIDE DEF p
  <1>4. MapOf(h, d, Tail(q), n) BY MapHear
  <1> QED BY <1>2, <1>3, <1>4 DEF MapOf, p

\* The host opens a map.
LEMMA MapOpens ==
    ASSUME NEW h, NEW d \in Seq(Asked), NEW q, NEW n, MapOf(h, d, q, n), NEW k \in Couple, NEW m \in Nat \ {0},
           m \notin DOMAIN h, NEW g,
           g = [x \in DOMAIN h \cup {m} |-> IF x = m THEN [pair |-> k, ending |-> FALSE] ELSE h[x]]
    PROVE  MapOf(g, Append(d, Ready(k, m)), q, n)
  <1> DEFINE p == Ready(k, m)
  <1>1. p \in Asked /\ p.pair = k /\ p.map = m BY PacketKinds
  <1> HIDE DEF p
  <1>2. Open(g, k, m) /\ \A l, x : Open(h, l, x) => Open(g, l, x) /\ x # m BY DEF Open
  <1>3. NotIn(d, m) /\ NotIn(q, m) /\ \A l \in Couple : n[l] # 0 => n[l] # m
    BY <1>2 DEF MapOf, OpenIn, NotIn
  <1>4. OpenIn(g, d) /\ OpenIn(g, q) BY <1>2 DEF MapOf, OpenIn
  <1>5. OpenIn(g, Append(d, p)) /\ OnceIn(Append(d, p))
        /\ \A x : NotIn(d, x) /\ m # x => NotIn(Append(d, p), x)
    BY <1>1, <1>2, <1>3, <1>4, ReadyAdded DEF MapOf
  <1>6. \A i \in 1 .. Len(Append(d, p)) : IsReady(Append(d, p)[i]) => NotIn(q, Append(d, p)[i].map)
    BY <1>1, <1>3, ReadyAdded DEF MapOf
  <1> QED BY <1>2, <1>3, <1>4, <1>5, <1>6 DEF MapOf, p

\* The host tells a map to end and forgets it.
LEMMA MapCloses ==
    ASSUME NEW h, NEW d, NEW q, NEW n, MapOf(h, d, q, n), NEW g, NEW o, NEW k \in Couple, n[k] # 0,
           \A x \in DOMAIN h : x # n[k] => x \in DOMAIN g /\ g[x] = h[x],
           \A l \in Couple : o[l] = IF l = k THEN 0 ELSE n[l]
    PROVE  MapOf(g, d, q, o)
  <1>1. \A l, x : Open(h, l, x) /\ x # n[k] => Open(g, l, x) BY DEF Open
  <1>2. NotIn(d, n[k]) /\ NotIn(q, n[k]) /\ Open(h, k, n[k]) BY DEF MapOf
  <1>3. \A l \in Couple : o[l] # 0 => o[l] = n[l] /\ l # k OBVIOUS
  <1>4. \A l \in Couple : o[l] # 0 => o[l] # n[k]
    <2> SUFFICES ASSUME NEW l \in Couple, o[l] # 0, o[l] = n[k] PROVE FALSE OBVIOUS
    <2>1. Open(h, l, n[k]) /\ l # k BY <1>3 DEF MapOf
    <2>2. h[n[k]].pair = l /\ h[n[k]].pair = k BY <1>2, <2>1 DEF Open
    <2> QED BY <2>1, <2>2
  <1>5. OpenIn(g, d) /\ OpenIn(g, q) BY <1>1, <1>2 DEF MapOf, OpenIn, NotIn
  <1> QED BY <1>1, <1>3, <1>4, <1>5 DEF MapOf

\* A map that was told to end goes.
LEMMA MapGoes ==
    ASSUME NEW h, NEW d, NEW q, NEW n, MapOf(h, d, q, n), NEW g, NEW m,
           \A x \in DOMAIN h : x # m => x \in DOMAIN g /\ g[x] = h[x],
           m \in DOMAIN h => h[m].ending = TRUE
    PROVE  MapOf(g, d, q, n)
  <1>0. \A l, x : Open(h, l, x) => x \in DOMAIN h /\ h[x] = [pair |-> l, ending |-> FALSE] /\ h[x].ending = FALSE
    BY DEF Open
  <1>1. \A l, x : Open(h, l, x) => Open(g, l, x)
    <2> SUFFICES ASSUME NEW l, NEW x, Open(h, l, x) PROVE Open(g, l, x) OBVIOUS
    <2>1. x # m BY <1>0
    <2> QED BY <1>0, <2>1 DEF Open
  <1>2. OpenIn(g, d) /\ OpenIn(g, q) BY <1>1 DEF MapOf, OpenIn
  <1> QED BY <1>1, <1>2 DEF MapOf

\* There is no hall at the start.
LEMMA MapInit == Init => MapInv
  <1> SUFFICES ASSUME Init PROVE MapInv OBVIOUS
  <1>1. \A c \in Core : toDb[c] = <<>> /\ toCore[c] = <<>> /\ info[c] = Nowhere BY DEF Init, Nothing
  <1>2. Len(<<>>) = 0 /\ Host \in Core BY WeddingAssumption
  <1> QED BY <1>1, <1>2 DEF MapInv, MapOf, OpenIn, OnceIn, NotIn, Nowhere

\* What a handler of the daemon does to the queues.
LEMMA DaemonMoves ==
    ASSUME TypeInv, NEW c \in Core, DaemonReads(c)
    PROVE  /\ toDb[c] # <<>> /\ toDb'[c] = Tail(toDb[c]) /\ \A d \in Core : d # c => toDb'[d] = toDb[d]
           /\ toDb[c] \in Seq(Asked) /\ Head(toDb[c]) \in Told
           /\ \E p \in Told : /\ \A d \in Core : toCore'[d] = toCore[d] \/ (up[d] /\ toCore'[d] = Append(toCore[d], p))
                              /\ p = Head(toDb[c]) \/ p.op = "add"
           /\ WeddingReady(c) => \A d \in Core : up[d] => toCore'[d] = Append(toCore[d], Head(toDb[c]))
           /\ ~WeddingReady(c) => Head(toDb[c]).op # "ready"
  <1> DEFINE p == Head(toDb[c])
  <1>1. /\ toDb[c] # <<>> /\ toDb' = [toDb EXCEPT ![c] = Tail(@)]
    BY DEF DaemonReads, MarriageAdd, MarriageUpdate, MarriageRemove, WeddingRequest, WeddingReady, EndWedding, Handle
  <1>2. toDb \in [Core -> Seq(Asked)] /\ toDb[c] \in Seq(Asked) BY DEF TypeInv, NetType
  <1>3. p \in Told /\ p.pair \in Couple BY <1>1, DbHead
  <1>4. Packet("add", p.pair) \in Told /\ Packet("add", p.pair).op = "add" BY <1>3, PacketKinds
  <1>5. toCore' = toCore \/ toCore' = Forward(<<p>>) \/ toCore' = Forward(<<Packet("add", p.pair)>>)
    BY DEF DaemonReads, MarriageAdd, MarriageUpdate, MarriageRemove, WeddingRequest, WeddingReady, EndWedding, Handle
  <1>6. WeddingReady(c) => toCore' = Forward(<<p>>) BY DEF WeddingReady
  <1>7. ~WeddingReady(c) => p.op # "ready"
    BY DEF DaemonReads, MarriageAdd, MarriageUpdate, MarriageRemove, WeddingRequest, EndWedding, Handle
  <1>8. toDb'[c] = Tail(toDb[c]) /\ \A d \in Core : d # c => toDb'[d] = toDb[d] BY <1>1, <1>2
  <1> HIDE DEF p
  <1>9. ASSUME NEW r \in Told, toCore' = Forward(<<r>>)
        PROVE  /\ \A d \in Core : toCore'[d] = toCore[d] \/ (up[d] /\ toCore'[d] = Append(toCore[d], r))
               /\ \A d \in Core : up[d] => toCore'[d] = Append(toCore[d], r)
    BY <1>9, ForwardOne
  <1>10. \E r \in Told : /\ \A d \in Core : toCore'[d] = toCore[d] \/ (up[d] /\ toCore'[d] = Append(toCore[d], r))
                         /\ r = p \/ r.op = "add"
    BY <1>3, <1>4, <1>5, <1>9
  <1>11. WeddingReady(c) => \A d \in Core : up[d] => toCore'[d] = Append(toCore[d], p)
    BY <1>3, <1>6, <1>9
  <1> QED BY <1>1, <1>2, <1>3, <1>7, <1>8, <1>10, <1>11 DEF p

\* What a handler of a core does to the queues and to the other cores.
LEMMA CoreMoves ==
    ASSUME TypeInv, NEW c \in Core, CoreReads(c)
    PROVE  /\ toCore[c] # <<>> /\ toCore'[c] = Tail(toCore[c]) /\ \A d \in Core : d # c => toCore'[d] = toCore[d]
           /\ toCore[c] \in Seq(Told) /\ Head(toCore[c]) \in Told /\ Head(toCore[c]).pair \in Couple
           /\ \A d \in Core : d # c => info'[d] = info[d] /\ toDb'[d] = toDb[d]
           /\ UNCHANGED <<daemon, up, synced, asked, doubled, parted, faults>>
           /\ ~CoreRequest(c) => \/ toDb'[c] = toDb[c]
                                 \/ toDb'[c] = Append(toDb[c], Packet("request", Head(toCore[c]).pair))
           /\ c # Host => \/ toDb'[c] = toDb[c]
                          \/ toDb'[c] = Append(toDb[c], Packet("request", Head(toCore[c]).pair))
           /\ CoreRequest(c) => toDb'[c] = toDb[c] \/ toDb'[c] = Append(toDb[c], Ready(Head(toCore[c]).pair, nextMap))
           /\ CoreRequest(c) /\ c = Host /\ up[c] => toDb'[c] = Append(toDb[c], Ready(Head(toCore[c]).pair, nextMap))
           /\ ~(CoreRequest(c) \/ CoreEnd(c)) => hall' = hall
           /\ c # Host => hall' = hall /\ nextMap' = nextMap
           /\ Packet("request", Head(toCore[c]).pair) \in Asked /\ Ready(Head(toCore[c]).pair, nextMap) \in Asked
           /\ Packet("request", Head(toCore[c]).pair).op = "request"
           /\ toDb[c] \in Seq(Asked)
  <1> DEFINE p == Head(toCore[c])
  <1>1. /\ toCore[c] # <<>> /\ toCore' = [toCore EXCEPT ![c] = Tail(@)]
        /\ UNCHANGED <<daemon, up, synced, asked, doubled, parted, faults>>
    BY DEF CoreReads, CoreAdd, CoreUpdate, CoreRemove, CoreRequest, CoreReady, CoreEnd, Receive
  <1>2. /\ toCore \in [Core -> Seq(Told)] /\ toCore[c] \in Seq(Told) /\ toDb[c] \in Seq(Asked)
        /\ info \in [Core -> [Couple -> Nat]] /\ nextMap \in Nat \ {0}
    BY DEF TypeInv, NetType, CopyType, HallType
  <1>3. p \in Told /\ p.pair \in Couple BY <1>1, CoreHead
  <1>4. Packet("request", p.pair) \in Asked /\ Packet("request", p.pair).op = "request"
        /\ Ready(p.pair, nextMap) \in Asked
    BY <1>2, <1>3, PacketKinds
  <1>5. toCore'[c] = Tail(toCore[c]) /\ \A d \in Core : d # c => toCore'[d] = toCore[d] BY <1>1, <1>2
  <1>6. p.op = "ready" => p.map \in Nat BY <1>3, ToldFacts
  <1>7. \/ info' = info
        \/ info' = [info EXCEPT ![c][p.pair] = 0]
        \/ info' = [info EXCEPT ![c][p.pair] = p.map] /\ p.op = "ready"
    BY DEF CoreReads, CoreAdd, CoreUpdate, CoreRemove, CoreRequest, CoreReady, CoreEnd, Receive
  <1>8. /\ ~CoreRequest(c) => toDb' = toDb \/ toDb' = Send(toDb, c, Packet("request", p.pair))
        /\ CoreRequest(c) /\ c # Host => toDb' = toDb
        /\ CoreRequest(c) /\ c = Host => toDb' = Send(toDb, c, Ready(p.pair, nextMap))
    BY DEF CoreReads, CoreAdd, CoreUpdate, CoreRemove, CoreRequest, CoreReady, CoreEnd, Receive
  <1>9. /\ ~(CoreRequest(c) \/ CoreEnd(c)) => hall' = hall
        /\ c # Host => hall' = hall /\ nextMap' = nextMap
    BY DEF CoreReads, CoreAdd, CoreUpdate, CoreRemove, CoreRequest, CoreReady, CoreEnd, Receive
  <1> HIDE DEF p
  <1>10. ASSUME NEW d \in Core, d # c PROVE info'[d] = info[d]
    <2>1. [info EXCEPT ![c][p.pair] = 0][d] = info[d] BY <1>2, <1>3, <1>10, ChangeOne
    <2>2. p.op = "ready" => [info EXCEPT ![c][p.pair] = p.map][d] = info[d]
      BY <1>2, <1>3, <1>6, <1>10, ChangeOne
    <2> QED BY ONLY <1>7, <2>1, <2>2
  <1>11. ASSUME NEW r \in Asked
         PROVE  /\ \A d \in Core : d # c => Send(toDb, c, r)[d] = toDb[d]
                /\ Send(toDb, c, r)[c] = toDb[c] \/ Send(toDb, c, r)[c] = Append(toDb[c], r)
                /\ up[c] => Send(toDb, c, r)[c] = Append(toDb[c], r)
    BY SendIs
  <1>12. \A d \in Core : d # c => toDb'[d] = toDb[d]
    BY <1>4, <1>8, <1>11
  <1>13. /\ ~CoreRequest(c) => toDb'[c] = toDb[c] \/ toDb'[c] = Append(toDb[c], Packet("request", p.pair))
         /\ c # Host => toDb'[c] = toDb[c] \/ toDb'[c] = Append(toDb[c], Packet("request", p.pair))
         /\ CoreRequest(c) => toDb'[c] = toDb[c] \/ toDb'[c] = Append(toDb[c], Ready(p.pair, nextMap))
         /\ CoreRequest(c) /\ c = Host /\ up[c] => toDb'[c] = Append(toDb[c], Ready(p.pair, nextMap))
    BY <1>4, <1>8, <1>11
  <1> QED BY <1>1, <1>2, <1>3, <1>4, <1>5, <1>9, <1>10, <1>12, <1>13 DEF p

\* What the timer does to the queues.
LEMMA TimerMoves ==
    ASSUME TypeInv, CoupleInv, Timer \/ Tick, NEW d \in Core
    PROVE  /\ toDb' = toDb /\ info' = info /\ bond' = bond /\ hall' = hall /\ up' = up /\ synced' = synced
           /\ faults' = faults /\ nextMap' = nextMap /\ asked' = asked /\ doubled' = doubled
           /\ \/ toCore'[d] = toCore[d]
              \/ \E k \in Couple : toCore'[d] = Append(toCore[d], Packet("end", k))
              \/ \E k, l \in Couple : toCore'[d] = Append(Append(toCore[d], Packet("end", k)), Packet("remove", l))
  <1>1. /\ toDb' = toDb /\ info' = info /\ bond' = bond /\ hall' = hall /\ up' = up /\ synced' = synced
        /\ faults' = faults /\ nextMap' = nextMap /\ asked' = asked /\ doubled' = doubled
    BY DEF Timer, Tick, EndDue, StartDue, core, net, history
  <1>2. ASSUME NEW e \in ends, EndDue(e), running[e.pair] # 0
        PROVE  \/ toCore'[d] = toCore[d]
               \/ \E k \in Couple : toCore'[d] = Append(toCore[d], Packet("end", k))
               \/ \E k, l \in Couple : toCore'[d] = Append(Append(toCore[d], Packet("end", k)), Packet("remove", l))
    <2>1. e.pair \in Couple BY DEF TypeInv, DaemonType
    <2>2. PICK gone :
             /\ gone = {} \/ \E k \in Couple : gone = {k} /\ couple[k] = "engaged"
                                                /\ e.pair[1] \in {k[1], k[2]}
             /\ couple' = [k \in Couple |-> IF k \in gone THEN "none" ELSE couple[k]]
             /\ parted' = parted \cup (gone \ {e.pair})
             /\ gone = {} => toCore' = Forward(<<Packet("end", e.pair)>>)
             /\ \A k \in gone : toCore' = Forward(<<Packet("end", e.pair), Packet("remove", k)>>)
      BY <1>2, EndDueIs
    <2>3. Packet("end", e.pair) \in Told BY <2>1, PacketKinds
    <2>4. CASE gone = {}
      <3>1. toCore' = Forward(<<Packet("end", e.pair)>>) BY <2>2, <2>4
      <3>2. toCore'[d] = toCore[d] \/ toCore'[d] = Append(toCore[d], Packet("end", e.pair))
        BY <2>3, <3>1, ForwardOne
      <3> QED BY <2>1, <3>2
    <2>5. CASE gone # {}
      <3>1. PICK k \in Couple : gone = {k} BY <2>2, <2>5
      <3>2. toCore' = Forward(<<Packet("end", e.pair), Packet("remove", k)>>) BY <2>2, <3>1
      <3>3. Packet("remove", k) \in Told BY PacketKinds
      <3>4. toCore'[d] = toCore[d] \/ toCore'[d] = Append(Append(toCore[d], Packet("end", e.pair)), Packet("remove", k))
        BY <2>3, <3>2, <3>3, ForwardTwo
      <3> QED BY <2>1, <3>4
    <2> QED BY <2>4, <2>5
  <1>3. ASSUME NEW e \in ends, EndDue(e), running[e.pair] = 0 PROVE toCore' = toCore
    BY <1>3 DEF EndDue
  <1>4. ASSUME (\E s \in starts : StartDue(s)) \/ Tick PROVE toCore' = toCore
    BY <1>4 DEF StartDue, Tick, net
  <1> QED BY <1>1, <1>2, <1>3, <1>4 DEF Timer

\* A couple that is plain after a step was so before it, and the step is no fault.
LEMMA PlainBefore ==
    ASSUME TypeInv, LinkInv, [Next]_vars, faults' = 0
    PROVE  /\ faults = 0 /\ ~Fault /\ (\A c \in Core : up[c] /\ synced[c])
           /\ \A c \in Core : ~LinkDrops(c) /\ ~CoreCrash(c) /\ ~Reconnect(c)
           /\ ~DaemonRestart
           /\ \A k : Plainly(k)' => Plainly(k)
  <1>1. ~Fault BY DEF Fault, TypeInv, HistoryType
  <1>2. faults = 0 /\ \A k : k \in parted \cup doubled => k \in (parted \cup doubled)'
    BY <1>1 DEF Next, Fault, RequestAdd, RequestRemove, RequestEndWedding, SetMarried, Quest,
       DaemonReads, MarriageAdd, MarriageUpdate, MarriageRemove, WeddingRequest, WeddingReady, EndWedding, Handle,
       CoreReads, CoreAdd, CoreUpdate, CoreRemove, CoreRequest, CoreReady, CoreEnd, Receive,
       Timer, EndDue, StartDue, Tick, DestroyWeddingMap, LinkDrops, CoreCrash, Reconnect, DaemonRestart,
       vars, history
  <1>3. \A c \in Core : up[c] /\ synced[c] BY <1>2 DEF LinkInv
  <1>4. /\ \A c \in Core : ~LinkDrops(c) /\ ~CoreCrash(c) /\ ~Reconnect(c)
        /\ ~DaemonRestart
    BY <1>1, <1>3 DEF LinkDrops, CoreCrash, Reconnect, DaemonRestart
  <1> QED BY <1>1, <1>2, <1>3, <1>4 DEF Plainly

\* Every step keeps the halls named once.
LEMMA MapStep == TypeInv /\ CoupleInv /\ LinkInv /\ BondInv /\ MapInv /\ [Next]_vars => MapInv'
  <1> SUFFICES ASSUME TypeInv, CoupleInv, LinkInv, BondInv, MapInv, [Next]_vars, faults' = 0
               PROVE  /\ \A c \in Core \ {Host} : \A i \in 1 .. Len(toDb'[c]) : ~IsReady(toDb'[c][i])
                      /\ MapOf(hall', toDb'[Host], toCore'[Host], info'[Host])
    BY DEF MapInv
  <1>0. /\ Host \in Core /\ DOMAIN toDb = Core /\ DOMAIN toCore = Core /\ toDb[Host] \in Seq(Asked)
        /\ toCore[Host] \in Seq(Told) /\ DOMAIN info[Host] = Couple
        /\ \A c \in Core : toDb[c] \in Seq(Asked)
        /\ info \in [Core -> [Couple -> Nat]] /\ nextMap \in Nat \ {0} /\ nextMap \notin DOMAIN hall
    BY WeddingAssumption DEF TypeInv, NetType, CopyType, HallType
  <1>3. faults = 0 BY PlainBefore
  <1>4. /\ \A c \in Core \ {Host} : \A i \in 1 .. Len(toDb[c]) : ~IsReady(toDb[c][i])
        /\ MapOf(hall, toDb[Host], toCore[Host], info[Host])
    BY <1>3 DEF MapInv
  <1>5. \A c \in Core : up[c] BY PlainBefore
  <1>6. ASSUME NEW c \in Core, NEW k \in Couple,
               RequestAdd(c, k) \/ RequestRemove(c, k) \/ RequestEndWedding(c, k) \/ SetMarried(c, k)
        PROVE  /\ \A d \in Core \ {Host} : \A i \in 1 .. Len(toDb'[d]) : ~IsReady(toDb'[d][i])
               /\ MapOf(hall', toDb'[Host], toCore'[Host], info'[Host])
    <2>1. PICK p \in Asked : Quest(c, p) /\ ~IsReady(p)
      BY <1>6, PacketKinds DEF RequestAdd, RequestRemove, RequestEndWedding, SetMarried, IsReady
    <2>2. toDb'[c] = Append(toDb[c], p) /\ (\A d \in Core : d # c => toDb'[d] = toDb[d])
          /\ UNCHANGED <<hall, toCore, info>>
      BY <1>5, <2>1, SendIs DEF Quest
    <2>3. MapOf(hall, toDb'[Host], toCore[Host], info[Host])
      <3>1. MapOf(hall, Append(toDb[Host], p), toCore[Host], info[Host])
        BY <1>0, <1>4, <2>1, MapSend
      <3> QED BY <1>0, <1>4, <2>2, <3>1
    <2>4. ASSUME NEW d \in Core \ {Host}, NEW i \in 1 .. Len(toDb'[d]) PROVE ~IsReady(toDb'[d][i])
      <3>1. CASE d = c
        <4>1. toDb'[d] = Append(toDb[d], p) /\ toDb[d] \in Seq(Asked) BY <1>0, <2>2, <3>1
        <4>2. \/ i \in 1 .. Len(toDb[d]) /\ Append(toDb[d], p)[i] = toDb[d][i]
              \/ Append(toDb[d], p)[i] = p
          <5>1. i \in 1 .. Len(Append(toDb[d], p)) BY <2>4, <4>1
          <5> QED BY <2>1, <4>1, <5>1, ReadyAdded
        <4> QED BY <1>4, <2>1, <4>1, <4>2
      <3>2. CASE d # c BY <1>4, <2>2, <3>2
      <3> QED BY <3>1, <3>2
    <2> QED BY <2>2, <2>3, <2>4
  <1>7. ASSUME NEW c \in Core, DaemonReads(c)
        PROVE  /\ \A d \in Core \ {Host} : \A i \in 1 .. Len(toDb'[d]) : ~IsReady(toDb'[d][i])
               /\ MapOf(hall', toDb'[Host], toCore'[Host], info'[Host])
    <2> DEFINE r == Head(toDb[c])
    <2>1. /\ toDb[c] # <<>> /\ toDb'[c] = Tail(toDb[c]) /\ \A d \in Core : d # c => toDb'[d] = toDb[d]
          /\ toDb[c] \in Seq(Asked) /\ r \in Told
          /\ WeddingReady(c) => \A d \in Core : up[d] => toCore'[d] = Append(toCore[d], r)
          /\ ~WeddingReady(c) => r.op # "ready"
      BY <1>7, DaemonMoves
    <2>2. PICK p \in Told : /\ \A d \in Core : toCore'[d] = toCore[d] \/ (up[d] /\ toCore'[d] = Append(toCore[d], p))
                            /\ p = r \/ p.op = "add"
      BY <1>7, DaemonMoves
    <2>3. hall' = hall /\ info' = info
      BY <1>7 DEF DaemonReads, MarriageAdd, MarriageUpdate, MarriageRemove, WeddingRequest, WeddingReady,
         EndWedding, Handle, core
    <2>4. ASSUME NEW d \in Core \ {Host}, NEW i \in 1 .. Len(toDb'[d]) PROVE ~IsReady(toDb'[d][i])
      <3>1. CASE d = c
        <4>0. toDb'[d] = Tail(toDb[d]) /\ toDb[d] \in Seq(Asked) /\ toDb[d] # <<>> BY <2>1, <3>1
        <4>1. i + 1 \in 1 .. Len(toDb[d]) /\ toDb'[d][i] = toDb[d][i + 1]
          <5>1. i \in 1 .. Len(Tail(toDb[d])) BY <2>4, <4>0
          <5>2. i + 1 \in 1 .. Len(toDb[d]) /\ Tail(toDb[d])[i] = toDb[d][i + 1]
            BY <4>0, <5>1, ReadyKept
          <5> QED BY <4>0, <5>2
        <4> QED BY <1>4, <4>1
      <3>2. CASE d # c BY <1>4, <2>1, <3>2
      <3> QED BY <3>1, <3>2
    <2>5. CASE WeddingReady(c)
      <3>1. IsReady(r) BY <2>5 DEF WeddingReady, Handle, IsReady
      <3>2. c = Host
        <4>1. r = toDb[c][1] /\ 1 \in 1 .. Len(toDb[c]) BY <2>1, HeadIs
        <4> QED BY <1>4, <3>1, <4>1
      <3>3. MapOf(hall, Tail(toDb[Host]), Append(toCore[Host], r), info[Host])
        BY <1>0, <1>4, <2>1, <3>1, <3>2, MapPass
      <3>4. toDb'[Host] = Tail(toDb[Host]) /\ toCore'[Host] = Append(toCore[Host], r)
        BY <1>0, <1>5, <2>1, <2>5, <3>2
      <3> QED BY <2>3, <2>4, <3>3, <3>4
    <2>6. CASE ~WeddingReady(c)
      <3>1. ~IsReady(p) BY <2>1, <2>2, <2>6 DEF IsReady
      <3> HIDE DEF r
      <3>2. MapOf(hall, toDb'[Host], toCore[Host], info[Host])
        <4>1. CASE c = Host
          <5>1. MapOf(hall, Tail(toDb[Host]), toCore[Host], info[Host]) BY <1>0, <1>4, <2>1, <4>1, MapRead
          <5> QED BY <2>1, <4>1, <5>1
        <4>2. CASE c # Host BY <1>0, <1>4, <2>1, <4>2
        <4> QED BY <4>1, <4>2
      <3>3. MapOf(hall, toDb'[Host], Append(toCore[Host], p), info[Host])
        BY <1>0, <3>1, <3>2, MapTell
      <3>4. toCore'[Host] = toCore[Host] \/ toCore'[Host] = Append(toCore[Host], p) BY <1>0, <2>2
      <3>5. MapOf(hall, toDb'[Host], toCore'[Host], info[Host]) BY <3>2, <3>3, <3>4
      <3> QED BY <2>3, <2>4, <3>5
    <2> QED BY <2>5, <2>6
  <1>8. ASSUME Timer \/ Tick
        PROVE  /\ \A d \in Core \ {Host} : \A i \in 1 .. Len(toDb'[d]) : ~IsReady(toDb'[d][i])
               /\ MapOf(hall', toDb'[Host], toCore'[Host], info'[Host])
    <2>1. /\ toDb' = toDb /\ info' = info /\ hall' = hall
          /\ \/ toCore'[Host] = toCore[Host]
             \/ \E k \in Couple : toCore'[Host] = Append(toCore[Host], Packet("end", k))
             \/ \E k, l \in Couple : toCore'[Host] = Append(Append(toCore[Host], Packet("end", k)), Packet("remove", l))
      BY <1>0, <1>8, TimerMoves
    <2>2. \A k \in Couple : /\ Packet("end", k) \in Told /\ Packet("remove", k) \in Told
                            /\ ~IsReady(Packet("end", k)) /\ ~IsReady(Packet("remove", k))
      BY PacketKinds DEF IsReady
    <2>3. ASSUME NEW k \in Couple
          PROVE  /\ MapOf(hall, toDb[Host], Append(toCore[Host], Packet("end", k)), info[Host])
                 /\ Append(toCore[Host], Packet("end", k)) \in Seq(Told)
      BY <1>0, <1>4, <2>2, MapTell, AppendIs
    <2>4. ASSUME NEW k \in Couple, NEW l \in Couple
          PROVE  MapOf(hall, toDb[Host], Append(Append(toCore[Host], Packet("end", k)), Packet("remove", l)), info[Host])
      BY <2>2, <2>3, MapTell
    <2>5. MapOf(hall, toDb[Host], toCore'[Host], info[Host]) BY <1>4, <2>1, <2>3, <2>4
    <2> QED BY <1>4, <2>1, <2>5
  <1>9. ASSUME NEW c \in Core, CoreReads(c)
        PROVE  /\ \A d \in Core \ {Host} : \A i \in 1 .. Len(toDb'[d]) : ~IsReady(toDb'[d][i])
               /\ MapOf(hall', toDb'[Host], toCore'[Host], info'[Host])
    <2> DEFINE p == Head(toCore[c])
               r == Packet("request", p.pair)
    <2>1. /\ toCore[c] # <<>> /\ toCore'[c] = Tail(toCore[c]) /\ \A d \in Core : d # c => toCore'[d] = toCore[d]
          /\ toCore[c] \in Seq(Told) /\ p \in Told /\ p.pair \in Couple
          /\ \A d \in Core : d # c => info'[d] = info[d] /\ toDb'[d] = toDb[d]
          /\ ~CoreRequest(c) => toDb'[c] = toDb[c] \/ toDb'[c] = Append(toDb[c], r)
          /\ c # Host => toDb'[c] = toDb[c] \/ toDb'[c] = Append(toDb[c], r)
          /\ CoreRequest(c) /\ c = Host /\ up[c] => toDb'[c] = Append(toDb[c], Ready(p.pair, nextMap))
          /\ ~(CoreRequest(c) \/ CoreEnd(c)) => hall' = hall
          /\ c # Host => hall' = hall
          /\ r \in Asked /\ Ready(p.pair, nextMap) \in Asked /\ r.op = "request" /\ toDb[c] \in Seq(Asked)
      BY <1>9, CoreMoves
    <2>2. ASSUME NEW d \in Core \ {Host}, NEW i \in 1 .. Len(toDb'[d]) PROVE ~IsReady(toDb'[d][i])
      <3> HIDE DEF p, r
      <3>1. CASE d = c
        <4>1. toDb'[d] = toDb[d] \/ toDb'[d] = Append(toDb[d], r) BY <2>1, <2>2, <3>1
        <4>2. CASE toDb'[d] = toDb[d] BY <1>4, <4>2
        <4>3. CASE toDb'[d] = Append(toDb[d], r)
          BY <1>4, <2>1, <3>1, <4>3, ReadyAdded DEF IsReady
        <4> QED BY <4>1, <4>2, <4>3
      <3>2. CASE d # c BY <1>4, <2>1, <3>2
      <3> QED BY <3>1, <3>2
    <2>3. CASE c # Host
      <3> HIDE DEF p, r
      <3> QED BY <1>0, <1>4, <2>1, <2>2, <2>3
    <2>4. CASE c = Host
      <3>1. ASSUME NEW n, MapOf(hall, toDb[Host], Tail(toCore[Host]), n), ~CoreRequest(c)
            PROVE  MapOf(hall, toDb'[Host], toCore'[Host], n)
        <4> HIDE DEF p, r
        <4>1. MapOf(hall, Append(toDb[Host], r), Tail(toCore[Host]), n)
          BY <1>0, <2>1, <2>4, <3>1, MapSend DEF IsReady
        <4> QED BY <2>1, <2>4, <3>1, <4>1
      <3>2. MapOf(hall, toDb[Host], Tail(toCore[Host]), info[Host])
        BY <1>0, <1>4, <2>1, <2>4, MapHear
      <3>3. CASE CoreAdd(c) \/ CoreUpdate(c)
        <4>1. info' = info /\ ~CoreRequest(c) /\ ~CoreEnd(c)
          BY <3>3 DEF CoreAdd, CoreUpdate, CoreRequest, CoreEnd, Receive
        <4> QED BY <2>1, <2>2, <3>1, <3>2, <4>1
      <3>4. CASE CoreRemove(c)
        <4>1. info' = [info EXCEPT ![c][p.pair] = 0] /\ ~CoreRequest(c) /\ ~CoreEnd(c)
          BY <3>4 DEF CoreRemove, CoreRequest, CoreEnd, Receive
        <4> HIDE DEF p, r
        <4>2. [info EXCEPT ![c][p.pair] = 0][c] = [info[c] EXCEPT ![p.pair] = 0]
          BY <1>0, <2>1, ChangeOne
        <4>3. info'[Host] = [info[Host] EXCEPT ![p.pair] = 0] BY <2>4, <4>1, <4>2
        <4>4. \A k \in Couple : info'[Host][k] = info[Host][k] \/ info'[Host][k] = 0 BY <1>0, <4>3
        <4>5. MapOf(hall, toDb[Host], Tail(toCore[Host]), info'[Host]) BY <3>2, <4>4, MapForget
        <4>6. MapOf(hall, toDb'[Host], toCore'[Host], info'[Host]) BY <3>1, <4>1, <4>5
        <4> QED BY <2>1, <2>2, <4>1, <4>6
      <3>5. CASE CoreRequest(c)
        <4>1. /\ info' = info
              /\ hall' = [m \in DOMAIN hall \cup {nextMap} |->
                              IF m = nextMap THEN [pair |-> p.pair, ending |-> FALSE] ELSE hall[m]]
          BY <2>4, <3>5 DEF CoreRequest
        <4>2. toDb'[Host] = Append(toDb[Host], Ready(p.pair, nextMap)) BY <1>0, <1>5, <2>1, <2>4, <3>5
        <4> HIDE DEF p, r
        <4>3. MapOf(hall', Append(toDb[Host], Ready(p.pair, nextMap)), Tail(toCore[Host]), info[Host])
          <5>1. ASSUME NEW g, g = hall'
                PROVE  MapOf(g, Append(toDb[Host], Ready(p.pair, nextMap)), Tail(toCore[Host]), info[Host])
            <6>1. g = [x \in DOMAIN hall \cup {nextMap} |->
                          IF x = nextMap THEN [pair |-> p.pair, ending |-> FALSE] ELSE hall[x]]
              BY <4>1, <5>1
            <6>2. p.pair \in Couple BY <2>1
            <6> QED BY <1>0, <3>2, <6>1, <6>2, MapOpens
          <5> QED BY <5>1
        <4> QED BY <2>1, <2>2, <2>4, <4>1, <4>2, <4>3
      <3>6. CASE CoreReady(c)
        <4>1. /\ p.op = "ready" /\ ~CoreRequest(c) /\ ~CoreEnd(c)
              /\ info' = info \/ info' = [info EXCEPT ![c][p.pair] = p.map]
          BY <3>6 DEF CoreReady, CoreRequest, CoreEnd, Receive
        <4>2. p.map \in Nat BY <2>1, <4>1, ToldFacts
        <4>3. [info EXCEPT ![c][p.pair] = p.map][c] = [info[c] EXCEPT ![p.pair] = p.map]
          BY <1>0, <2>1, <4>2, ChangeOne
        <4> HIDE DEF p, r
        <4>4. info'[Host] = info[Host] \/ info'[Host] = [info[Host] EXCEPT ![p.pair] = p.map]
          BY ONLY <2>4, <4>1, <4>3
        <4>5. \A k \in Couple : info'[Host][k] = info[Host][k] \/ (k = p.pair /\ info'[Host][k] = p.map)
          BY <1>0, <4>4
        <4>6. MapOf(hall, toDb[Host], Tail(toCore[Host]), info'[Host])
          <5>1. Head(toCore[Host]) = p /\ toCore[Host] # <<>> /\ IsReady(p)
            BY <2>1, <2>4, <4>1 DEF p, IsReady
          <5> QED BY <1>0, <1>4, <4>5, <5>1, MapArrive
        <4>7. MapOf(hall, toDb'[Host], toCore'[Host], info'[Host]) BY <3>1, <4>1, <4>6
        <4> QED BY <2>1, <2>2, <4>1, <4>7
      <3>7. CASE CoreEnd(c)
        <4> DEFINE m == info[c][p.pair]
        <4>0. ~CoreRequest(c) BY <3>7 DEF CoreRequest, CoreEnd, Receive
        <4>1. CASE UNCHANGED <<info, hall>> BY <2>2, <3>1, <3>2, <4>0, <4>1
        <4>2. CASE ~UNCHANGED <<info, hall>>
          <5>1. /\ m # 0 /\ info' = [info EXCEPT ![c][p.pair] = 0]
                /\ hall' = [hall EXCEPT ![m].ending = TRUE]
            BY <2>4, <3>7, <4>2 DEF CoreEnd
          <5>2. [info EXCEPT ![c][p.pair] = 0][c] = [info[c] EXCEPT ![p.pair] = 0]
            BY <1>0, <2>1, ChangeOne
          <5>3. info'[Host] = [info[Host] EXCEPT ![p.pair] = 0] BY <2>4, <5>1, <5>2
          <5>4. \A x \in DOMAIN hall : x # m => x \in DOMAIN hall' /\ hall'[x] = hall[x] BY <5>1
          <5>5. \A l \in Couple : info'[Host][l] = IF l = p.pair THEN 0 ELSE info[Host][l]
            BY <1>0, <5>3
          <5>6. MapOf(hall, toDb'[Host], toCore'[Host], info[Host]) BY <3>1, <3>2, <4>0
          <5>7. p.pair \in Couple /\ info[Host][p.pair] = m BY <2>1, <2>4
          <5> HIDE DEF m, p, r
          <5>8. ASSUME NEW g, NEW o, NEW d, NEW q, NEW k \in Couple, k = p.pair,
                       g = hall', o = info'[Host], d = toDb'[Host], q = toCore'[Host]
                PROVE  MapOf(g, d, q, o)
            <6>1. MapOf(hall, d, q, info[Host]) BY <5>6, <5>8
            <6>2. info[Host][k] # 0 BY <5>1, <5>7, <5>8
            <6>3. \A x \in DOMAIN hall : x # info[Host][k] => x \in DOMAIN g /\ g[x] = hall[x]
              BY <5>4, <5>7, <5>8
            <6>4. \A l \in Couple : o[l] = IF l = k THEN 0 ELSE info[Host][l] BY <5>5, <5>8
            <6> QED BY <6>1, <6>2, <6>3, <6>4, MapCloses
          <5>9. MapOf(hall', toDb'[Host], toCore'[Host], info'[Host]) BY <5>7, <5>8
          <5> QED BY <2>2, <5>9
        <4> QED BY <4>1, <4>2
      <3> QED BY <1>9, <3>3, <3>4, <3>5, <3>6, <3>7 DEF CoreReads
    <2> QED BY <2>3, <2>4
  <1>10. ASSUME NEW m, DestroyWeddingMap(m)
         PROVE  /\ \A d \in Core \ {Host} : \A i \in 1 .. Len(toDb'[d]) : ~IsReady(toDb'[d][i])
                /\ MapOf(hall', toDb'[Host], toCore'[Host], info'[Host])
    <2>1. /\ m \in DOMAIN hall /\ hall[m].ending /\ hall' = [n \in DOMAIN hall \ {m} |-> hall[n]]
          /\ UNCHANGED <<toDb, toCore, info>>
      BY <1>10 DEF DestroyWeddingMap, net
    <2>2. \A x \in DOMAIN hall : x # m => x \in DOMAIN hall' /\ hall'[x] = hall[x] BY <2>1
    <2>3. hall[m].ending = TRUE BY <2>1 DEF TypeInv, HallType
    <2>4. MapOf(hall', toDb[Host], toCore[Host], info[Host]) BY <1>0, <1>4, <2>2, <2>3, MapGoes
    <2> QED BY <1>4, <2>1, <2>4
  <1>11. ASSUME UNCHANGED vars
         PROVE  /\ \A d \in Core \ {Host} : \A i \in 1 .. Len(toDb'[d]) : ~IsReady(toDb'[d][i])
                /\ MapOf(hall', toDb'[Host], toCore'[Host], info'[Host])
    BY <1>4, <1>11 DEF vars, core, net
  <1>12. DaemonRestart \/ (\E c \in Core : LinkDrops(c) \/ CoreCrash(c) \/ Reconnect(c)) => FALSE BY PlainBefore
  <1> QED BY <1>0, <1>6, <1>7, <1>8, <1>9, <1>10, <1>11, <1>12 DEF Next

-----------------------------------------------------------------------------
(* Weddings that are shown are real *)

\* A packet joins the queue: no couple may stop being ahead without its END or REMOVE.
LEMMA ShowAppend ==
    ASSUME NEW n, NEW q \in Seq(Told), NEW p \in Told, NEW a, NEW b, ShowOf(n, q, a),
           p.op = "ready" => p.pair \in b,
           \A k \in Couple : k \in a => k \in b \/ (p.pair = k /\ p.op \in {"end", "remove"})
    PROVE  ShowOf(n, Append(q, p), b)
  <1> DEFINE r == Append(q, p)
  <1>1. /\ Len(r) = Len(q) + 1 /\ Len(q) \in Nat /\ r[Len(q) + 1] = p
        /\ \A i \in 1 .. Len(q) : r[i] = q[i]
    BY AppendIs
  <1> HIDE DEF r
  <1> SUFFICES ASSUME NEW k \in Couple, NEW i \in 0 .. Len(r), Shown(n, r, i, k), k \notin b
               PROVE  Over(r, i, k)
    BY DEF ShowOf, r
  <1>2. i \in 0 .. Len(q) \/ i = Len(q) + 1 BY <1>1
  <1>3. i # Len(q) + 1 BY <1>1 DEF Shown
  <1>4. i \in 0 .. Len(q) BY <1>2, <1>3
  <1>5. Shown(n, q, i, k) BY <1>1, <1>4 DEF Shown
  <1>6. CASE k \in a
    <2>1. r[Len(q) + 1].pair = k /\ r[Len(q) + 1].op \in {"end", "remove"} BY <1>1, <1>6
    <2>2. Len(q) + 1 \in i + 1 .. Len(r) BY <1>1, <1>4
    <2> QED BY <2>1, <2>2 DEF Over
  <1>7. CASE Over(q, i, k)
    <2>1. PICK j \in i + 1 .. Len(q) : q[j].pair = k /\ q[j].op \in {"end", "remove"} BY <1>7 DEF Over
    <2>2. j \in i + 1 .. Len(r) /\ j \in 1 .. Len(q) BY <1>1, <1>4
    <2> QED BY <1>1, <2>1, <2>2 DEF Over
  <1> QED BY <1>4, <1>5, <1>6, <1>7 DEF ShowOf

\* More weddings ahead excuse more.
LEMMA ShowGrow ==
    ASSUME NEW n, NEW q, NEW a, NEW b, ShowOf(n, q, a), \A k \in Couple : k \in a => k \in b
    PROVE  ShowOf(n, q, b)
  BY DEF ShowOf

\* A core reads the head of its queue.
LEMMA ShowTail ==
    ASSUME NEW n, NEW q \in Seq(Told), q # <<>>, NEW a, ShowOf(n, q, a), NEW o,
           \A k \in Couple : o[k] # 0 =>
              \/ Head(q).op = "ready" /\ Head(q).pair = k
              \/ n[k] # 0 /\ ~(Head(q).pair = k /\ Head(q).op \in {"end", "remove"})
    PROVE  ShowOf(o, Tail(q), a)
  <1> DEFINE r == Tail(q)
  <1>1. /\ Len(r) = Len(q) - 1 /\ Len(q) \in Nat /\ Head(q) = q[1] /\ Len(q) > 0
        /\ \A i \in 1 .. Len(q) - 1 : r[i] = q[i + 1]
    BY HeadIs
  <1> HIDE DEF r
  <1>2. ASSUME NEW k, NEW i \in 0 .. Len(r), Over(q, i + 1, k) PROVE Over(r, i, k)
    <2>1. PICK j \in (i + 1) + 1 .. Len(q) : q[j].pair = k /\ q[j].op \in {"end", "remove"} BY <1>2 DEF Over
    <2>2. j - 1 \in i + 1 .. Len(r) /\ j - 1 \in 1 .. Len(q) - 1 /\ (j - 1) + 1 = j BY <1>1
    <2>3. r[j - 1] = q[j] BY <1>1, <2>2
    <2> QED BY <2>1, <2>2, <2>3 DEF Over
  <1> SUFFICES ASSUME NEW k \in Couple, NEW i \in 0 .. Len(r), Shown(o, r, i, k), k \notin a
               PROVE  Over(r, i, k)
    BY DEF ShowOf, r
  <1>3. i + 1 \in 0 .. Len(q) /\ 0 \in 0 .. Len(q) BY <1>1
  <1>4. CASE Shown(n, q, i + 1, k)
    <2>1. Over(q, i + 1, k) BY <1>3, <1>4 DEF ShowOf
    <2> QED BY <1>2, <2>1
  <1>5. CASE i > 0
    <2>1. i \in 1 .. Len(q) - 1 BY <1>1, <1>5
    <2>2. r[i] = q[i + 1] BY <1>1, <2>1
    <2>3. Shown(n, q, i + 1, k) BY <1>5, <2>2 DEF Shown
    <2> QED BY <1>4, <2>3
  <1>6. CASE i = 0
    <2>1. o[k] # 0 BY <1>6 DEF Shown
    <2>2. CASE Head(q).op = "ready" /\ Head(q).pair = k
      <3>1. Shown(n, q, i + 1, k) BY <1>1, <1>6, <2>2 DEF Shown
      <3> QED BY <1>4, <3>1
    <2>3. CASE n[k] # 0 /\ ~(Head(q).pair = k /\ Head(q).op \in {"end", "remove"})
      <3>1. Shown(n, q, 0, k) BY <2>3 DEF Shown
      <3>2. Over(q, 0, k) BY <1>3, <3>1 DEF ShowOf
      <3>3. PICK j \in 0 + 1 .. Len(q) : q[j].pair = k /\ q[j].op \in {"end", "remove"} BY <3>2 DEF Over
      <3>4. j # 1 BY <1>1, <2>3, <3>3
      <3>5. j \in (i + 1) + 1 .. Len(q) BY <1>1, <1>6, <3>4
      <3>6. Over(q, i + 1, k) BY <3>3, <3>5 DEF Over
      <3> QED BY <1>2, <3>6
    <2> QED BY <2>1, <2>2, <2>3
  <1> QED BY <1>5, <1>6

\* SETUP tells of the weddings under way only.
LEMMA ShowSetup ==
    ASSUME TypeInv, CoupleInv
    PROVE  ShowOf(Nowhere, Setup, Ahead)
  <1> DEFINE q == Setup
  <1>1. q \in Seq(Told) BY SetupIs
  <1>2. PICK n, t : SetupShape(n, t) BY SetupIs
  <1>3. /\ n \in Nat
        /\ \A i \in 1 .. Len(q) : i > n => \E k \in Couple : running[k] # 0 /\ q[i] = Ready(k, running[k])
        /\ t \in [1 .. n -> Couple]
        /\ \A i \in 1 .. n : q[i] = Packet("add", t[i]) \/ q[i] = Update(t[i], couple[t[i]])
    BY <1>2 DEF SetupShape
  <1> HIDE DEF q
  <1> SUFFICES ASSUME NEW k \in Couple, NEW i \in 0 .. Len(q), Shown(Nowhere, q, i, k) PROVE k \in Ahead
    BY DEF ShowOf, q
  <1>4. i > 0 /\ q[i].op = "ready" /\ q[i].pair = k BY DEF Shown, Nowhere
  <1>5. ~(i <= n)
    <2> SUFFICES ASSUME i <= n PROVE FALSE OBVIOUS
    <2>1. i \in 1 .. n BY <1>1, <1>3, <1>4
    <2>2. t[i] \in Couple BY <1>3, <2>1
    <2> QED BY <1>3, <1>4, <2>1, <2>2, PacketKinds
  <1>6. i \in 1 .. Len(q) /\ i > n BY <1>1, <1>3, <1>4, <1>5
  <1>7. PICK l \in Couple : running[l] # 0 /\ q[i] = Ready(l, running[l]) BY <1>3, <1>6
  <1>8. l = k BY <1>4, <1>7, PacketKinds
  <1> QED BY <1>7, <1>8 DEF Ahead

\* No core shows a wedding at the start.
LEMMA ShowInit == Init => ShowInv
  <1> SUFFICES ASSUME Init, NEW c \in Core PROVE ShowOf(info[c], toCore[c], Ahead)
    BY DEF ShowInv
  <1>1. info[c] = Nowhere /\ toCore[c] = <<>> BY DEF Init, Nothing
  <1>2. Len(<<>>) = 0 OBVIOUS
  <1> QED BY <1>1, <1>2 DEF ShowOf, Shown, Nowhere

\* The quests of the players tell the cores nothing.
LEMMA ShowQuest ==
    ASSUME TypeInv, ShowInv, NEW c \in Core, NEW k \in Couple,
           RequestAdd(c, k) \/ RequestRemove(c, k) \/ RequestEndWedding(c, k) \/ SetMarried(c, k)
    PROVE  ShowInv'
  BY DEF RequestAdd, RequestRemove, RequestEndWedding, SetMarried, Quest, daemon, ShowInv, Ahead

\* The daemon's handlers end no wedding without telling the cores.
LEMMA ShowDaemon ==
    ASSUME TypeInv, CoupleInv, ShowInv, NEW c \in Core, DaemonReads(c)
    PROVE  ShowInv'
  <1> DEFINE p == Head(toDb[c])
  <1>1. UNCHANGED <<core, up, synced, faults>> /\ toDb[c] # <<>>
    BY DEF DaemonReads, MarriageAdd, MarriageUpdate, MarriageRemove, WeddingRequest, WeddingReady, EndWedding, Handle
  <1>2. p \in Told /\ p.pair \in Couple BY <1>1, DbHead
  <1>3. \A d \in Core : toCore[d] \in Seq(Told) BY DEF TypeInv, NetType
  <1> SUFFICES ASSUME NEW d \in Core, up[d], synced[d], d = Host => faults = 0
               PROVE  ShowOf(info[d], toCore'[d], Ahead')
    BY <1>1 DEF ShowInv, core
  <1>4. ShowOf(info[d], toCore[d], Ahead) BY DEF ShowInv
  <1>5. ASSUME NEW x \in Told, toCore' = Forward(<<x>>) PROVE toCore'[d] = Append(toCore[d], x)
    BY <1>5, ForwardOne
  <1>6. ASSUME NEW x \in Told, toCore' = toCore \/ toCore' = Forward(<<x>>), x.op # "ready", Ahead' = Ahead
        PROVE  ShowOf(info[d], toCore'[d], Ahead')
    <2>1. ShowOf(info[d], Append(toCore[d], x), Ahead) BY <1>3, <1>4, <1>6, ShowAppend
    <2> QED BY <1>4, <1>5, <1>6, <2>1
  <1>7. CASE MarriageAdd(c) \/ MarriageUpdate(c) \/ MarriageRemove(c) \/ WeddingRequest(c)
    <2>1. Ahead' = Ahead
      BY <1>7 DEF MarriageAdd, MarriageUpdate, MarriageRemove, WeddingRequest, Ahead, daemon
    <2>2. p.op # "ready"
      BY <1>7 DEF MarriageAdd, MarriageUpdate, MarriageRemove, WeddingRequest, Handle
    <2>3. Packet("add", p.pair) \in Told /\ Packet("add", p.pair).op # "ready" BY <1>2, PacketKinds
    <2>4. toCore' = toCore \/ toCore' = Forward(<<p>>) \/ toCore' = Forward(<<Packet("add", p.pair)>>)
      BY <1>7 DEF MarriageAdd, MarriageUpdate, MarriageRemove, WeddingRequest
    <2> HIDE DEF p
    <2> QED BY <1>2, <1>6, <2>1, <2>2, <2>3, <2>4
  <1>8. CASE WeddingReady(c)
    <2>1. toCore' = Forward(<<p>>) /\ running' = running /\ starts' = starts \cup {[left |-> Delay, map |-> p.map, pair |-> p.pair]}
      BY <1>8 DEF WeddingReady
    <2> HIDE DEF p
    <2>2. p.pair \in Ahead' /\ \A k \in Couple : k \in Ahead => k \in Ahead'
      <3>1. [left |-> Delay, map |-> p.map, pair |-> p.pair] \in starts' BY <2>1
      <3>2. [left |-> Delay, map |-> p.map, pair |-> p.pair].pair = p.pair OBVIOUS
      <3>3. p.pair \in Ahead' BY <1>2, <3>1, <3>2 DEF Ahead
      <3>4. \A s \in starts : s \in starts' BY <2>1
      <3> QED BY <2>1, <3>3, <3>4 DEF Ahead
    <2>3. toCore'[d] = Append(toCore[d], p) BY <1>2, <1>5, <2>1
    <2>4. ShowOf(info[d], Append(toCore[d], p), Ahead') BY <1>2, <1>3, <1>4, <2>2, ShowAppend
    <2> QED BY <2>3, <2>4
  <1>9. CASE EndWedding(c)
    <2>1. CASE running[p.pair] = 0
      <3>1. Ahead' = Ahead /\ toCore' = toCore BY <1>9, <2>1 DEF EndWedding, Ahead
      <3> QED BY <1>4, <3>1
    <2>2. CASE running[p.pair] # 0
      <3>1. running' = [running EXCEPT ![p.pair] = 0] /\ toCore' = Forward(<<p>>) /\ starts' = starts /\ p.op = "end"
        BY <1>9, <2>2 DEF EndWedding, Handle
      <3> HIDE DEF p
      <3>2. \A k \in Couple : k \in Ahead => k \in Ahead' \/ p.pair = k
        BY <3>1 DEF Ahead, TypeInv, DaemonType
      <3>3. toCore'[d] = Append(toCore[d], p) BY <1>2, <1>5, <3>1
      <3>4. ShowOf(info[d], Append(toCore[d], p), Ahead') BY <1>2, <1>3, <1>4, <3>1, <3>2, ShowAppend
      <3> QED BY <3>3, <3>4
    <2> QED BY <2>1, <2>2
  <1> QED BY <1>7, <1>8, <1>9 DEF DaemonReads

\* The end of a wedding that the timer finds due: what is told, and what changes.
LEMMA EndTells ==
    ASSUME TypeInv, CoupleInv, NEW e \in ends, EndDue(e), running[e.pair] # 0
    PROVE  /\ e.pair \in Couple /\ starts' = starts /\ ends' = ends \ {e}
           /\ running' = [running EXCEPT ![e.pair] = 0]
           /\ Packet("end", e.pair) \in Told
           /\ \/ /\ couple' = couple /\ parted' = parted
                 /\ \A d \in Core : up[d] => toCore'[d] = Append(toCore[d], Packet("end", e.pair))
              \/ \E k \in Couple :
                    /\ Packet("remove", k) \in Told /\ couple[k] = "engaged"
                    /\ couple' = [l \in Couple |-> IF l = k THEN "none" ELSE couple[l]]
                    /\ parted' = parted \cup ({k} \ {e.pair})
                    /\ \A d \in Core : up[d] => toCore'[d] = Append(Append(toCore[d], Packet("end", e.pair)), Packet("remove", k))
  <1>1. e.pair \in Couple BY DEF TypeInv, DaemonType
  <1>2. PICK gone \in {{}, Engaged(e.pair[1])} :
           /\ couple' = [k \in Couple |-> IF k \in gone THEN "none" ELSE couple[k]]
           /\ toCore' = Forward(<<Packet("end", e.pair)>> \o SetToSeq({Packet("remove", k) : k \in gone}))
           /\ parted' = parted \cup (gone \ {e.pair})
    BY DEF EndDue
  <1>3. gone = {} \/ \E k \in Couple : gone = {k} /\ couple[k] = "engaged" BY EngagedIs
  <1>4. Packet("end", e.pair) \in Told /\ \A k \in Couple : Packet("remove", k) \in Told BY <1>1, PacketKinds
  <1>5. CASE gone = {}
    <2>1. toCore' = Forward(<<Packet("end", e.pair)>>) BY <1>1, <1>2, <1>5, GoneTold
    <2>2. \A d \in Core : up[d] => toCore'[d] = Append(toCore[d], Packet("end", e.pair)) BY <1>4, <2>1, ForwardOne
    <2>3. couple' = couple
      <3>1. couple \in [Couple -> Status] BY DEF TypeInv, DaemonType
      <3> QED BY <1>2, <1>5, <3>1
    <2>4. parted' = parted BY <1>2, <1>5
    <2> QED BY <1>1, <1>4, <2>2, <2>3, <2>4 DEF EndDue
  <1>6. CASE gone # {}
    <2>1. PICK k \in Couple : gone = {k} /\ couple[k] = "engaged" BY <1>3, <1>6
    <2>2. toCore' = Forward(<<Packet("end", e.pair), Packet("remove", k)>>) BY <1>1, <1>2, <2>1, GoneTold
    <2>3. \A d \in Core : up[d] => toCore'[d] = Append(Append(toCore[d], Packet("end", e.pair)), Packet("remove", k))
      BY <1>4, <2>2, ForwardTwo
    <2>4. couple' = [l \in Couple |-> IF l = k THEN "none" ELSE couple[l]] BY <1>2, <2>1
    <2>5. parted' = parted \cup ({k} \ {e.pair}) BY <1>2, <2>1
    <2>6. starts' = starts /\ ends' = ends \ {e} /\ running' = [running EXCEPT ![e.pair] = 0] BY DEF EndDue
    <2> QED BY <1>1, <1>4, <2>1, <2>3, <2>4, <2>5, <2>6
  <1> QED BY <1>5, <1>6

\* A wedding that starts was planned, and one that ends is told to end.
LEMMA ShowTimer ==
    ASSUME TypeInv, CoupleInv, ShowInv, Timer \/ Tick
    PROVE  ShowInv'
  <1>1. info' = info /\ up' = up /\ synced' = synced /\ faults' = faults
    BY DEF Timer, Tick, EndDue, StartDue, core, net, history
  <1>2. \A d \in Core : toCore[d] \in Seq(Told) BY DEF TypeInv, NetType
  <1>3. running \in [Couple -> Nat] /\ starts \in SUBSET [left : Nat, map : Nat \ {0}, pair : Couple]
    BY DEF TypeInv, DaemonType
  <1> SUFFICES ASSUME NEW d \in Core, up[d], synced[d], d = Host => faults = 0
               PROVE  ShowOf(info[d], toCore'[d], Ahead')
    BY <1>1 DEF ShowInv
  <1>4. ShowOf(info[d], toCore[d], Ahead) BY DEF ShowInv
  <1>5. ASSUME toCore' = toCore, \A k \in Couple : k \in Ahead => k \in Ahead'
        PROVE  ShowOf(info[d], toCore'[d], Ahead')
    BY <1>4, <1>5, ShowGrow
  <1>6. ASSUME Tick PROVE ShowOf(info[d], toCore'[d], Ahead')
    <2>1. toCore' = toCore /\ running' = running /\ starts' = {[s EXCEPT !.left = @ - 1] : s \in starts}
      BY <1>6 DEF Tick, net
    <2>2. ASSUME NEW s \in starts PROVE \E t \in starts' : t.pair = s.pair
      <3>1. [s EXCEPT !.left = @ - 1] \in starts' BY <2>1
      <3>2. [s EXCEPT !.left = @ - 1].pair = s.pair BY <1>3
      <3> QED BY <3>1, <3>2
    <2> QED BY <1>5, <2>1, <2>2 DEF Ahead
  <1>7. ASSUME NEW s \in starts, StartDue(s) PROVE ShowOf(info[d], toCore'[d], Ahead')
    <2>1. toCore' = toCore /\ starts' = starts \ {s}
          /\ running' = IF running[s.pair] = 0 THEN [running EXCEPT ![s.pair] = s.map] ELSE running
      BY <1>7 DEF StartDue, net
    <2>2. s.pair \in Couple /\ s.map # 0 BY <1>3
    <2>3. running'[s.pair] # 0 /\ \A k \in Couple : running[k] # 0 => running'[k] # 0 BY <1>3, <2>1, <2>2
    <2>4. \A k \in Couple : k \in Ahead => k \in Ahead' BY <2>1, <2>3 DEF Ahead
    <2> QED BY <1>5, <2>1, <2>4
  <1>8. ASSUME NEW e \in ends, EndDue(e), running[e.pair] = 0 PROVE ShowOf(info[d], toCore'[d], Ahead')
    <2>1. toCore' = toCore /\ starts' = starts /\ running' = running BY <1>8 DEF EndDue
    <2> QED BY <1>5, <2>1 DEF Ahead
  <1>9. ASSUME NEW e \in ends, EndDue(e), running[e.pair] # 0 PROVE ShowOf(info[d], toCore'[d], Ahead')
    <2> DEFINE p == Packet("end", e.pair)
    <2>1. /\ e.pair \in Couple /\ starts' = starts
          /\ running' = [running EXCEPT ![e.pair] = 0] /\ p \in Told
          /\ \/ toCore'[d] = Append(toCore[d], p)
             \/ \E k \in Couple : Packet("remove", k) \in Told /\ toCore'[d] = Append(Append(toCore[d], p), Packet("remove", k))
      BY <1>9, EndTells
    <2>2. p.op = "end" /\ p.pair = e.pair BY <2>1, PacketKinds
    <2> HIDE DEF p
    <2>3. \A k \in Couple : k \in Ahead => k \in Ahead' \/ p.pair = k BY <1>3, <2>1, <2>2 DEF Ahead
    <2>4. ShowOf(info[d], Append(toCore[d], p), Ahead') BY <1>2, <1>4, <2>1, <2>2, <2>3, ShowAppend
    <2>5. Append(toCore[d], p) \in Seq(Told) BY <1>2, <2>1, AppendIs
    <2>6. ASSUME NEW k \in Couple, Packet("remove", k) \in Told
          PROVE  ShowOf(info[d], Append(Append(toCore[d], p), Packet("remove", k)), Ahead')
      <3>1. Packet("remove", k).op = "remove" BY PacketKinds
      <3> QED BY <2>4, <2>5, <2>6, <3>1, ShowAppend
    <2> QED BY <2>1, <2>4, <2>6
  <1> QED BY <1>6, <1>7, <1>8, <1>9 DEF Timer

\* A core that reads READY or END shows, or no longer shows, what it says.
LEMMA ShowCore ==
    ASSUME TypeInv, BondInv, MapInv, ShowInv, NEW c \in Core, CoreReads(c)
    PROVE  ShowInv'
  <1> DEFINE p == Head(toCore[c])
  <1>1. /\ toCore[c] # <<>> /\ toCore'[c] = Tail(toCore[c]) /\ \A d \in Core : d # c => toCore'[d] = toCore[d]
        /\ toCore[c] \in Seq(Told) /\ p \in Told /\ p.pair \in Couple
        /\ \A d \in Core : d # c => info'[d] = info[d]
        /\ UNCHANGED <<daemon, up, synced, faults>>
    BY CoreMoves
  <1>2. info \in [Core -> [Couple -> Nat]] BY DEF TypeInv, CopyType
  <1>3. Ahead' = Ahead BY <1>1 DEF Ahead, daemon
  <1> SUFFICES ASSUME NEW d \in Core, up[d], synced[d], d = Host => faults = 0
               PROVE  ShowOf(info'[d], toCore'[d], Ahead)
    BY <1>1, <1>3 DEF ShowInv
  <1>4. ShowOf(info[d], toCore[d], Ahead) BY DEF ShowInv
  <1>5. CASE d # c BY <1>1, <1>4, <1>5
  <1>6. CASE d = c
    <2>1. ASSUME NEW k \in Couple, info'[c][k] # 0
          PROVE  \/ p.op = "ready" /\ p.pair = k
                 \/ info[c][k] # 0 /\ ~(p.pair = k /\ p.op \in {"end", "remove"})
      <3>1. CASE CoreAdd(c) \/ CoreUpdate(c) \/ CoreRequest(c)
        <4>1. info' = info /\ p.op \notin {"end", "remove"}
          BY <3>1 DEF CoreAdd, CoreUpdate, CoreRequest, Receive
        <4> QED BY <2>1, <4>1
      <3>2. CASE CoreRemove(c)
        <4>1. info' = [info EXCEPT ![c][p.pair] = 0] BY <3>2 DEF CoreRemove
        <4> HIDE DEF p
        <4>2. info'[c][k] = IF k = p.pair THEN 0 ELSE info[c][k] BY <1>1, <1>2, <4>1, ChangeOne
        <4> QED BY <2>1, <4>2
      <3>3. CASE CoreReady(c)
        <4>1. p.op = "ready" /\ (info' = info \/ info' = [info EXCEPT ![c][p.pair] = p.map])
          BY <3>3 DEF CoreReady, Receive
        <4>2. p.map \in Nat BY <1>1, <4>1, ToldFacts
        <4> HIDE DEF p
        <4>3. info'[c][k] = info[c][k] \/ k = p.pair
          <5>1. [info EXCEPT ![c][p.pair] = p.map][c][k] = IF k = p.pair THEN p.map ELSE info[c][k]
            BY <1>1, <1>2, <4>2, ChangeOne
          <5> QED BY ONLY <4>1, <5>1
        <4> QED BY <2>1, <4>1, <4>3
      <3>4. CASE CoreEnd(c)
        <4>1. CASE UNCHANGED <<info, hall>>
          <5>1. CASE k # p.pair BY <2>1, <4>1, <5>1
          <5>2. CASE k = p.pair
            <6>1. info[c][k] # 0 BY <2>1, <4>1
            <6>2. bond[c][k] # "none" BY <6>1 DEF BondInv
            <6>3. c = Host => info[c][k] \in DOMAIN hall
              <7> SUFFICES ASSUME c = Host PROVE info[c][k] \in DOMAIN hall OBVIOUS
              <7>1. faults = 0 BY <1>6
              <7> QED BY <6>1, <7>1 DEF MapInv, MapOf, Open
            <6>4. info' = [info EXCEPT ![c][p.pair] = 0] BY <3>4, <5>2, <6>1, <6>2, <6>3 DEF CoreEnd
            <6> HIDE DEF p
            <6>5. info'[c][k] = 0 BY <1>1, <1>2, <5>2, <6>4, ChangeOne
            <6> QED BY <2>1, <6>5
          <5> QED BY <5>1, <5>2
        <4>2. CASE ~UNCHANGED <<info, hall>>
          <5>1. info' = [info EXCEPT ![c][p.pair] = 0] BY <3>4, <4>2 DEF CoreEnd
          <5> HIDE DEF p
          <5>2. info'[c][k] = IF k = p.pair THEN 0 ELSE info[c][k] BY <1>1, <1>2, <5>1, ChangeOne
          <5> QED BY <2>1, <5>2
        <4> QED BY <4>1, <4>2
      <3> QED BY <3>1, <3>2, <3>3, <3>4 DEF CoreReads
    <2>2. ShowOf(info'[c], Tail(toCore[c]), Ahead)
      <3>1. ASSUME NEW o, o = info'[c] PROVE ShowOf(o, Tail(toCore[c]), Ahead)
        BY <1>1, <1>4, <1>6, <2>1, <3>1, ShowTail
      <3> QED BY <3>1
    <2> QED BY <1>1, <1>6, <2>2
  <1> QED BY <1>5, <1>6

\* Every step keeps the weddings that are shown real.
LEMMA ShowStep == TypeInv /\ CoupleInv /\ LinkInv /\ BondInv /\ MapInv /\ ShowInv /\ [Next]_vars => ShowInv'
  <1> SUFFICES ASSUME TypeInv, CoupleInv, LinkInv, BondInv, MapInv, ShowInv, [Next]_vars PROVE ShowInv'
    OBVIOUS
  <1>0. NetType BY DEF TypeInv
  <1>1. CASE UNCHANGED vars BY <1>1 DEF vars, daemon, core, net, history, ShowInv, Ahead
  <1>2. ASSUME NEW m, DestroyWeddingMap(m) PROVE ShowInv'
    BY <1>2 DEF DestroyWeddingMap, daemon, net, history, ShowInv, Ahead
  <1>3. ASSUME NEW c \in Core, LinkDrops(c) PROVE ShowInv'
    <2> SUFFICES ASSUME NEW d \in Core, up'[d], synced'[d], d = Host => faults' = 0
                 PROVE  ShowOf(info'[d], toCore'[d], Ahead')
      BY DEF ShowInv
    <2>1. d # c BY <1>0, <1>3 DEF LinkDrops, NetType
    <2>2. up[d] /\ synced[d] /\ toCore'[d] = toCore[d] /\ info' = info /\ Ahead' = Ahead
      BY <1>0, <1>3, <2>1 DEF LinkDrops, Cut, NetType, daemon, core, Ahead
    <2>3. d # Host BY <1>3 DEF LinkDrops, Fault, TypeInv, HistoryType
    <2> QED BY <2>2, <2>3 DEF ShowInv
  <1>4. ASSUME NEW c \in Core, CoreCrash(c) PROVE ShowInv'
    <2> SUFFICES ASSUME NEW d \in Core, up'[d], synced'[d], d = Host => faults' = 0
                 PROVE  ShowOf(info'[d], toCore'[d], Ahead')
      BY DEF ShowInv
    <2>1. d # c BY <1>0, <1>4 DEF CoreCrash, Cut, NetType
    <2>2. up[d] /\ synced[d] /\ toCore'[d] = toCore[d] /\ info'[d] = info[d] /\ Ahead' = Ahead
      BY <1>0, <1>4, <2>1 DEF CoreCrash, Cut, NetType, TypeInv, CopyType, daemon, Ahead
    <2>3. d # Host BY <1>4 DEF CoreCrash, Fault, TypeInv, HistoryType
    <2> QED BY <2>2, <2>3 DEF ShowInv
  <1>5. ASSUME NEW c \in Core, Reconnect(c) PROVE ShowInv'
    <2> SUFFICES ASSUME NEW d \in Core, up'[d], synced'[d], d = Host => faults' = 0
                 PROVE  ShowOf(info'[d], toCore'[d], Ahead')
      BY DEF ShowInv
    <2>0. Ahead' = Ahead /\ info' = info /\ synced' = synced /\ faults' = faults
      BY <1>5 DEF Reconnect, daemon, core, history, Ahead
    <2>1. CASE d = c
      <3>1. info[d] = Nowhere BY <1>5, <2>0, <2>1 DEF Reconnect, LinkInv
      <3>2. toCore'[d] = Setup BY <1>0, <1>5, <2>1 DEF Reconnect, NetType
      <3>3. ShowOf(Nowhere, Setup, Ahead) BY ShowSetup
      <3> QED BY <2>0, <3>1, <3>2, <3>3
    <2>2. CASE d # c
      <3>1. up[d] /\ synced[d] /\ toCore'[d] = toCore[d]
        BY <1>0, <1>5, <2>0, <2>2 DEF Reconnect, NetType
      <3> QED BY <2>0, <3>1 DEF ShowInv
    <2> QED BY <2>1, <2>2
  <1>6. ASSUME DaemonRestart PROVE ShowInv'
    BY <1>6 DEF DaemonRestart, ShowInv
  <1> QED BY <1>1, <1>2, <1>3, <1>4, <1>5, <1>6, ShowQuest, ShowDaemon, ShowTimer, ShowCore DEF Next

\* What a core shows is a special case of what it will show.
LEMMA RealIs == TypeInv /\ ShowInv => WeddingIsReal
  <1> SUFFICES ASSUME TypeInv, ShowInv, NEW c \in Core, NEW k \in Couple, up[c], synced[c], info[c][k] # 0,
                      c = Host => faults = 0
               PROVE  \/ k \in Ahead
                      \/ On(toCore[c], "end", k) \/ On(toCore[c], "remove", k)
    BY DEF WeddingIsReal, Ahead
  <1>1. toCore[c] \in Seq(Told) BY DEF TypeInv, NetType
  <1>2. 0 \in 0 .. Len(toCore[c]) /\ Shown(info[c], toCore[c], 0, k) BY <1>1 DEF Shown
  <1>3. k \in Ahead \/ Over(toCore[c], 0, k) BY <1>2 DEF ShowInv, ShowOf
  <1>4. CASE Over(toCore[c], 0, k)
    <2>1. PICK j \in 0 + 1 .. Len(toCore[c]) : toCore[c][j].pair = k /\ toCore[c][j].op \in {"end", "remove"}
      BY <1>4 DEF Over
    <2> QED BY <2>1 DEF On
  <1> QED BY <1>3, <1>4

-----------------------------------------------------------------------------
(* One token of a wedding at a time *)

\* A queue that has no packet of a kind about a couple that it did not have before.
NoMore(q, r, op, k) == (On(r, op, k) => On(q, op, k)) /\ (Once(q, op, k) => Once(r, op, k))

\* A packet of another kind, or about another couple.
LEMMA NoMoreAppend ==
    ASSUME NEW S, NEW q \in Seq(S), NEW p \in S, NEW op, NEW k, p.op # op \/ p.pair # k
    PROVE  NoMore(q, Append(q, p), op, k)
  <1>1. On(Append(q, p), op, k) => On(q, op, k) BY OnAppend
  <1> DEFINE r == Append(q, p)
  <1>2. /\ Len(r) = Len(q) + 1 /\ Len(q) \in Nat /\ r[Len(q) + 1] = p
        /\ \A i \in 1 .. Len(q) : r[i] = q[i]
    BY AppendIs
  <1> HIDE DEF r
  <1>3. \A i : IsOn(r, i, op, k) => IsOn(q, i, op, k)
    <2> SUFFICES ASSUME NEW i, IsOn(r, i, op, k) PROVE IsOn(q, i, op, k) OBVIOUS
    <2>1. i \in 1 .. Len(r) /\ r[i].op = op /\ r[i].pair = k BY DEF IsOn
    <2>2. i \in 1 .. Len(q) \/ i = Len(q) + 1 BY <1>2, <2>1
    <2>3. i \in 1 .. Len(q) BY <1>2, <2>1, <2>2
    <2> QED BY <1>2, <2>1, <2>3 DEF IsOn
  <1>4. ASSUME Once(q, op, k) PROVE Once(r, op, k)
    <2> SUFFICES ASSUME NEW i \in 1 .. Len(r), NEW j \in 1 .. Len(r), IsOn(r, i, op, k), IsOn(r, j, op, k)
                 PROVE  i = j
      BY DEF Once
    <2>1. IsOn(q, i, op, k) /\ IsOn(q, j, op, k) BY <1>3
    <2>2. i \in 1 .. Len(q) /\ j \in 1 .. Len(q) BY <2>1 DEF IsOn
    <2> QED BY <1>4, <2>1, <2>2 DEF Once
  <1> QED BY <1>1, <1>4 DEF NoMore, r

\* A queue without its head.
LEMMA NoMoreTail ==
    ASSUME NEW S, NEW q \in Seq(S), q # <<>>, NEW op, NEW k
    PROVE  /\ NoMore(q, Tail(q), op, k)
           /\ Once(q, op, k) /\ Head(q).op = op /\ Head(q).pair = k => ~On(Tail(q), op, k)
           /\ Head(q).op = op /\ Head(q).pair = k => On(q, op, k)
  <1> DEFINE r == Tail(q)
  <1>1. /\ Len(r) = Len(q) - 1 /\ Len(q) \in Nat /\ Head(q) = q[1] /\ Len(q) > 0 /\ 1 \in 1 .. Len(q)
        /\ \A i \in 1 .. Len(r) : r[i] = q[i + 1] /\ i + 1 \in 1 .. Len(q) /\ i + 1 # 1
    BY HeadIs
  <1> HIDE DEF r
  <1>2. \A i \in 1 .. Len(r) : IsOn(r, i, op, k) => IsOn(q, i + 1, op, k) BY <1>1 DEF IsOn
  <1>3. \A i \in 1 .. Len(r) : r[i].op = op /\ r[i].pair = k => IsOn(q, i + 1, op, k) BY <1>1 DEF IsOn
  <1>4. On(r, op, k) => On(q, op, k) BY <1>1, <1>3 DEF On, IsOn
  <1>5. ASSUME Once(q, op, k) PROVE Once(r, op, k)
    <2> SUFFICES ASSUME NEW i \in 1 .. Len(r), NEW j \in 1 .. Len(r), IsOn(r, i, op, k), IsOn(r, j, op, k)
                 PROVE  i = j
      BY DEF Once
    <2>1. i + 1 = j + 1 BY <1>1, <1>2, <1>5 DEF Once
    <2> QED BY <2>1
  <1>6. ASSUME Once(q, op, k), Head(q).op = op, Head(q).pair = k, On(r, op, k) PROVE FALSE
    <2>1. PICK i \in 1 .. Len(r) : r[i].op = op /\ r[i].pair = k BY <1>6 DEF On
    <2>2. IsOn(q, i + 1, op, k) /\ IsOn(q, 1, op, k) BY <1>1, <1>3, <1>6, <2>1 DEF IsOn
    <2> QED BY <1>1, <1>6, <2>2 DEF Once
  <1>7. Head(q).op = op /\ Head(q).pair = k => On(q, op, k) BY <1>1 DEF On
  <1> QED BY <1>4, <1>5, <1>6, <1>7 DEF NoMore, r

\* The one packet of a kind about a couple.
LEMMA OnceAppend ==
    ASSUME NEW S, NEW q \in Seq(S), NEW p \in S, NEW op, NEW k, ~On(q, op, k)
    PROVE  Once(Append(q, p), op, k)
  <1> DEFINE r == Append(q, p)
  <1>1. /\ Len(r) = Len(q) + 1 /\ Len(q) \in Nat
        /\ \A i \in 1 .. Len(q) : r[i] = q[i]
    BY AppendIs
  <1> HIDE DEF r
  <1>2. ASSUME NEW i \in 1 .. Len(r), IsOn(r, i, op, k) PROVE i = Len(q) + 1
    <2>1. i \in 1 .. Len(q) \/ i = Len(q) + 1 BY <1>1
    <2> QED BY <1>1, <1>2, <2>1 DEF On, IsOn
  <1> QED BY <1>2 DEF Once, r

\* Nothing new about a couple.
LEMMA TokenSame ==
    ASSUME NEW k \in Couple, TokenOf(k),
           NoMore(toCore[Host], toCore'[Host], "request", k), NoMore(toDb[Host], toDb'[Host], "ready", k),
           ToStart(k)' => ToStart(k), \A s, t \in starts' : s.pair = k /\ t.pair = k => s = t,
           ToEnd(k)' <=> ToEnd(k), \A d, e \in ends' : d.pair = k /\ e.pair = k => d = e,
           k \in asked => k \in asked', couple[k] # "none" => couple'[k] # "none",
           running'[k] # 0 => running[k] # 0
    PROVE  TokenOf(k)'
  <1>1. /\ Requested(k)' => Requested(k) /\ Once(toCore'[Host], "request", k)
        /\ Readied(k)' => Readied(k)
    BY DEF NoMore, Requested, Readied, TokenOf, On, Once, IsOn
  <1>2. Once(toCore[Host], "request", k)' /\ Once(toDb[Host], "ready", k)'
    BY DEF NoMore, TokenOf, Once, IsOn
  <1> QED BY <1>1, <1>2 DEF TokenOf

\* Nobody has asked for a wedding.
LEMMA TokenInit == Init => OneInv /\ HeardInv
  <1> SUFFICES ASSUME Init PROVE OneInv /\ HeardInv OBVIOUS
  <1>1. toCore[Host] = <<>> /\ toDb[Host] = <<>> BY WeddingAssumption DEF Init, Nothing
  <1>2. Len(<<>>) = 0 OBVIOUS
  <1>3. starts = {} /\ ends = {} /\ \A k \in Couple : running[k] = 0 BY DEF Init, Nowhere
  <1>4. \A k : ~Requested(k) /\ ~Readied(k) /\ ~ToStart(k) /\ ~ToEnd(k)
    BY <1>1, <1>2, <1>3 DEF Requested, Readied, ToStart, ToEnd, On
  <1>5. \A k : Once(toCore[Host], "request", k) /\ Once(toDb[Host], "ready", k) /\ Heard(bond[Host], toCore[Host], k)
    BY <1>1, <1>2 DEF Once, Heard
  <1> QED BY <1>3, <1>4, <1>5 DEF OneInv, HeardInv, TokenOf

\* A couple that asks again is no longer followed.
LEMMA TokenQuest ==
    ASSUME TypeInv, NEW c \in Core, NEW l \in Couple,
           RequestAdd(c, l) \/ RequestRemove(c, l) \/ RequestEndWedding(c, l) \/ SetMarried(c, l),
           NEW k \in Couple, TokenOf(k)
    PROVE  TokenOf(k)'
  <1>1. PICK p \in Asked : Quest(c, p) /\ p.op # "ready"
    BY PacketKinds DEF RequestAdd, RequestRemove, RequestEndWedding, SetMarried
  <1>2. UNCHANGED <<couple, starts, ends, running, toCore, asked>> /\ toDb' = Send(toDb, c, p)
    BY <1>1 DEF Quest, daemon
  <1>3. Host \in Core /\ toDb[Host] \in Seq(Asked) BY WeddingAssumption DEF TypeInv, NetType
  <1>4. toDb'[Host] = toDb[Host] \/ toDb'[Host] = Append(toDb[Host], p) BY <1>2, <1>3, SendIs
  <1>5. NoMore(toDb[Host], toDb'[Host], "ready", k)
    <2>1. NoMore(toDb[Host], Append(toDb[Host], p), "ready", k) BY <1>1, <1>3, NoMoreAppend
    <2>2. NoMore(toDb[Host], toDb[Host], "ready", k) BY DEF NoMore
    <2> QED BY <1>4, <2>1, <2>2
  <1>6. NoMore(toCore[Host], toCore'[Host], "request", k) BY <1>2 DEF NoMore
  <1> QED BY <1>2, <1>5, <1>6, TokenSame DEF ToStart, ToEnd, TokenOf

\* What a packet that joins the queue of the host does, and a packet the daemon reads.
LEMMA TokenTold ==
    ASSUME TypeInv, NEW p \in Told, NEW k, p.op # "request" \/ p.pair # k
    PROVE  /\ NoMore(toCore[Host], Append(toCore[Host], p), "request", k)
           /\ NoMore(toCore[Host], toCore[Host], "request", k)
  <1>1. toCore[Host] \in Seq(Told) BY WeddingAssumption DEF TypeInv, NetType
  <1> QED BY <1>1, NoMoreAppend DEF NoMore

\* The daemon asks the host for a hall, and plans the start when READY comes.
LEMMA TokenDaemon ==
    ASSUME TypeInv, LinkInv, MapInv, faults = 0, NEW c \in Core, DaemonReads(c),
           NEW k \in Couple, TokenOf(k), Plainly(k)'
    PROVE  TokenOf(k)'
  <1> DEFINE p == Head(toDb[c])
  <1>1. /\ toDb[c] # <<>> /\ toDb'[c] = Tail(toDb[c]) /\ \A d \in Core : d # c => toDb'[d] = toDb[d]
        /\ toDb[c] \in Seq(Asked) /\ p \in Told
    BY DaemonMoves
  <1>2. p.pair \in Couple BY <1>1, ToldFacts
  <1>3. Host \in Core /\ up[Host] BY WeddingAssumption DEF LinkInv
  <1>4. NoMore(toDb[Host], toDb'[Host], "ready", k)
    <2>1. CASE c = Host
      <3>1. NoMore(toDb[Host], Tail(toDb[Host]), "ready", k) BY <1>1, <2>1, NoMoreTail
      <3> QED BY <1>1, <2>1, <3>1
    <2>2. CASE c # Host BY <1>1, <1>3, <2>2 DEF NoMore
    <2> QED BY <2>1, <2>2
  <1>5. ASSUME NEW x \in Told, x.op # "request" \/ x.pair # k,
               toCore' = toCore \/ toCore' = Forward(<<x>>)
        PROVE  NoMore(toCore[Host], toCore'[Host], "request", k)
    <2>1. toCore'[Host] = toCore[Host] \/ toCore'[Host] = Append(toCore[Host], x)
      BY <1>3, <1>5, ForwardOne
    <2> QED BY <1>5, <2>1, TokenTold
  <1>6. \A s, t \in starts : s.pair = k /\ t.pair = k => s = t BY DEF TokenOf
  <1>7. \A d, e \in ends : d.pair = k /\ e.pair = k => d = e BY DEF TokenOf
  <1>8. CASE MarriageAdd(c)
    <2>1. starts' = starts /\ ends' = ends /\ running' = running /\ p.op = "add"
      BY <1>8 DEF MarriageAdd, Handle
    <2>2. CASE Taken(couple, p.pair)
      <3>1. couple' = couple /\ toCore' = toCore /\ asked' = asked BY <1>8, <2>2 DEF MarriageAdd
      <3>2. NoMore(toCore[Host], toCore'[Host], "request", k) BY <3>1 DEF NoMore
      <3> QED BY <1>4, <1>6, <1>7, <2>1, <3>1, <3>2, TokenSame DEF ToStart, ToEnd
    <2>3. CASE ~Taken(couple, p.pair)
      <3>1. /\ couple' = [couple EXCEPT ![p.pair] = "engaged"] /\ asked' = asked \ {p.pair}
            /\ toCore' = Forward(<<Packet("add", p.pair)>>)
        BY <1>8, <2>3 DEF MarriageAdd
      <3>2. Packet("add", p.pair) \in Told /\ Packet("add", p.pair).op = "add" BY <1>2, PacketKinds
      <3>3. NoMore(toCore[Host], toCore'[Host], "request", k) BY <1>5, <3>1, <3>2
      <3> HIDE DEF p
      <3>4. CASE k = p.pair
        <4>1. couple[k] = "none"
          <5>1. Sharing(k, k) BY DEF Sharing
          <5> QED BY <2>3, <3>4, <5>1 DEF Taken, Sharing
        <4>2. ~Requested(k) /\ ~Readied(k) /\ ~ToStart(k) /\ ~ToEnd(k) BY <4>1 DEF TokenOf
        <4>3. running[k] = 0 BY <4>2 DEF TokenOf
        <4>4. ~Requested(k)' /\ ~Readied(k)' /\ ~ToStart(k)' /\ ~ToEnd(k)'
          BY <1>4, <2>1, <3>3, <4>2 DEF NoMore, Requested, Readied, ToStart, ToEnd, On
        <4>5. Once(toCore[Host], "request", k)' /\ Once(toDb[Host], "ready", k)'
          BY <1>4, <3>3 DEF NoMore, TokenOf, Once, IsOn
        <4> QED BY <1>6, <1>7, <2>1, <4>3, <4>4, <4>5 DEF TokenOf
      <3>5. CASE k # p.pair
        <4>1. (k \in asked => k \in asked') /\ (couple[k] # "none" => couple'[k] # "none")
          BY <3>1, <3>5 DEF TypeInv, DaemonType
        <4> QED BY <1>4, <1>6, <1>7, <2>1, <3>3, <4>1, TokenSame DEF ToStart, ToEnd
      <3> QED BY <3>4, <3>5
    <2> QED BY <2>2, <2>3
  <1>9. CASE MarriageUpdate(c) \/ MarriageRemove(c)
    <2>1. /\ starts' = starts /\ ends' = ends /\ running' = running /\ asked' = asked /\ p.op # "request"
          /\ toCore' = toCore \/ toCore' = Forward(<<p>>)
          /\ \/ couple' = couple
             \/ couple[p.pair] # "none" /\ couple' = [couple EXCEPT ![p.pair] = p.status] /\ p.op = "update"
             \/ couple' = [couple EXCEPT ![p.pair] = "none"] /\ p.pair \in parted'
      BY <1>9 DEF MarriageUpdate, MarriageRemove, Handle
    <2>2. NoMore(toCore[Host], toCore'[Host], "request", k) BY <1>1, <1>5, <2>1
    <2>3. p.op = "update" => p.status # "none" BY <1>1, ToldFacts
    <2>4. k \notin parted' BY DEF Plainly
    <2> HIDE DEF p
    <2>5. couple[k] # "none" => couple'[k] # "none" BY <2>1, <2>3, <2>4 DEF TypeInv, DaemonType
    <2> QED BY <1>4, <1>6, <1>7, <2>1, <2>2, <2>5, TokenSame DEF ToStart, ToEnd
  <1>10. CASE WeddingRequest(c)
    <2>1. /\ starts' = starts /\ ends' = ends /\ running' = running /\ couple' = couple /\ p.op = "request"
          /\ toCore' = Forward(<<p>>) /\ asked' = asked \cup {p.pair}
          /\ p.pair \in asked \/ couple[p.pair] = "none" => p.pair \in doubled'
      BY <1>10 DEF WeddingRequest, Handle, daemon
    <2>2. CASE k # p.pair
      <3>1. NoMore(toCore[Host], toCore'[Host], "request", k) BY <1>1, <1>5, <2>1, <2>2
      <3> QED BY <1>4, <1>6, <1>7, <2>1, <3>1, TokenSame DEF ToStart, ToEnd
    <2>3. CASE k = p.pair
      <3>1. k \notin asked /\ couple[k] # "none" BY <2>1, <2>3 DEF Plainly
      <3>2. ~Requested(k) /\ ~Readied(k) /\ ~ToStart(k) /\ ~ToEnd(k) BY <3>1 DEF TokenOf
      <3>3. running[k] = 0 BY <3>2 DEF TokenOf
      <3>4. ~Readied(k)' /\ ~ToStart(k)' /\ ~ToEnd(k)'
        BY <1>4, <2>1, <3>2 DEF NoMore, Readied, ToStart, ToEnd, On
      <3>5. Once(toDb[Host], "ready", k)' BY <1>4 DEF NoMore, TokenOf, Once, IsOn
      <3>6. toCore[Host] \in Seq(Told) BY <1>3 DEF TypeInv, NetType
      <3>7. toCore'[Host] = Append(toCore[Host], p) BY <1>1, <1>3, <2>1, ForwardOne
      <3> HIDE DEF p
      <3>8. Once(Append(toCore[Host], p), "request", k) BY <1>1, <3>2, <3>6, OnceAppend DEF Requested
      <3>9. Once(toCore[Host], "request", k)' BY <3>7, <3>8 DEF Once, IsOn
      <3>10. k \in asked' /\ couple'[k] # "none" BY <2>1, <2>3, <3>1
      <3> QED BY <1>6, <1>7, <2>1, <3>3, <3>4, <3>5, <3>9, <3>10 DEF TokenOf
    <2> QED BY <2>2, <2>3
  <1>11. CASE WeddingReady(c)
    <2>1. /\ ends' = ends /\ running' = running /\ couple' = couple /\ asked' = asked /\ p.op = "ready"
          /\ toCore' = Forward(<<p>>) /\ starts' = starts \cup {[left |-> Delay, map |-> p.map, pair |-> p.pair]}
      BY <1>11 DEF WeddingReady, Handle
    <2>2. NoMore(toCore[Host], toCore'[Host], "request", k) BY <1>1, <1>5, <2>1
    <2>3. c = Host
      <3>1. p = toDb[c][1] /\ 1 \in 1 .. Len(toDb[c]) BY <1>1, HeadIs
      <3> QED BY <2>1, <3>1 DEF MapInv, IsReady
    <2>4. CASE k # p.pair
      <3> HIDE DEF p
      <3>1. \A s \in starts' : s.pair = k => s \in starts BY <2>1, <2>4
      <3>2. (ToStart(k)' => ToStart(k)) /\ \A s, t \in starts' : s.pair = k /\ t.pair = k => s = t
        BY <1>6, <3>1 DEF ToStart
      <3> QED BY <1>4, <1>7, <2>1, <2>2, <3>2, TokenSame DEF ToEnd
    <2>5. CASE k = p.pair
      <3>1. Once(toDb[Host], "ready", k) BY DEF TokenOf
      <3>2. Readied(k) /\ ~On(Tail(toDb[Host]), "ready", k)
        BY <1>1, <2>1, <2>3, <2>5, <3>1, NoMoreTail DEF Readied
      <3>3. ~Requested(k) /\ ~ToStart(k) /\ ~ToEnd(k) /\ k \in asked /\ couple[k] # "none"
        BY <3>2 DEF TokenOf
      <3>4. running[k] = 0 BY <3>3 DEF TokenOf
      <3>5. ~Readied(k)' BY <1>1, <2>3, <3>2 DEF Readied, On
      <3>6. ~Requested(k)' /\ ~ToEnd(k)' BY <2>1, <2>2, <3>3 DEF NoMore, Requested, ToEnd, On
      <3>7. Once(toCore[Host], "request", k)' /\ Once(toDb[Host], "ready", k)'
        BY <1>4, <2>2 DEF NoMore, TokenOf, Once, IsOn
      <3> HIDE DEF p
      <3>8. \A s, t \in starts' : s.pair = k /\ t.pair = k => s = t
        BY <2>1, <3>3 DEF ToStart
      <3> QED BY <1>7, <2>1, <3>3, <3>4, <3>5, <3>6, <3>7, <3>8 DEF TokenOf
    <2> QED BY <2>4, <2>5
  <1>12. CASE EndWedding(c)
    <2>1. /\ starts' = starts /\ ends' = ends /\ couple' = couple /\ asked' = asked /\ p.op = "end"
          /\ running' = running \/ running' = [running EXCEPT ![p.pair] = 0]
          /\ toCore' = toCore \/ toCore' = Forward(<<p>>)
      BY <1>12 DEF EndWedding, Handle
    <2>2. NoMore(toCore[Host], toCore'[Host], "request", k) BY <1>1, <1>5, <2>1
    <2> HIDE DEF p
    <2>3. running'[k] # 0 => running[k] # 0 BY <2>1 DEF TypeInv, DaemonType
    <2> QED BY <1>4, <1>6, <1>7, <2>1, <2>2, <2>3, TokenSame DEF ToStart, ToEnd
  <1> QED BY <1>8, <1>9, <1>10, <1>11, <1>12 DEF DaemonReads

\* The timer makes a planned end of a planned start, and forgets an end that is due.
LEMMA TokenTimer ==
    ASSUME TypeInv, CoupleInv, LinkInv, faults = 0, Timer \/ Tick, NEW k \in Couple, TokenOf(k), Plainly(k)'
    PROVE  TokenOf(k)'
  <1>1. toDb' = toDb /\ asked' = asked
    BY DEF Timer, Tick, EndDue, StartDue, core, net, history
  <1>2. Host \in Core /\ up[Host] /\ toCore[Host] \in Seq(Told) BY WeddingAssumption DEF LinkInv, TypeInv, NetType
  <1>3. /\ starts \in SUBSET [left : Nat, map : Nat \ {0}, pair : Couple] /\ ends \in SUBSET [left : Nat, pair : Couple]
        /\ running \in [Couple -> Nat] /\ couple \in [Couple -> Status]
    BY DEF TypeInv, DaemonType
  <1>4. NoMore(toDb[Host], toDb'[Host], "ready", k) BY <1>1 DEF NoMore
  <1>5. \A s, t \in starts : s.pair = k /\ t.pair = k => s = t BY DEF TokenOf
  <1>6. \A d, e \in ends : d.pair = k /\ e.pair = k => d = e BY DEF TokenOf
  <1>7. NoMore(toCore[Host], toCore[Host], "request", k) BY DEF NoMore
  <1>8. ASSUME Tick PROVE TokenOf(k)'
    <2>1. /\ starts' = {[s EXCEPT !.left = @ - 1] : s \in starts} /\ ends' = {[e EXCEPT !.left = @ - 1] : e \in ends}
          /\ couple' = couple /\ running' = running /\ toCore' = toCore
      BY <1>8 DEF Tick, net
    <2>2. \A s \in starts : [s EXCEPT !.left = @ - 1].pair = s.pair BY <1>3
    <2>3. \A e \in ends : [e EXCEPT !.left = @ - 1].pair = e.pair BY <1>3
    <2>4. \A t \in starts' : \E s \in starts : t = [s EXCEPT !.left = @ - 1] /\ t.pair = s.pair BY <2>1, <2>2
    <2>5. \A t \in ends' : \E s \in ends : t = [s EXCEPT !.left = @ - 1] /\ t.pair = s.pair BY <2>1, <2>3
    <2>6. (ToStart(k)' => ToStart(k)) /\ (ToEnd(k)' <=> ToEnd(k))
      <3>1. ASSUME NEW e \in ends PROVE \E d \in ends' : d.pair = e.pair BY <2>1, <2>3
      <3> QED BY <2>4, <2>5, <3>1 DEF ToStart, ToEnd
    <2>7. \A s, t \in starts' : s.pair = k /\ t.pair = k => s = t
      <3> SUFFICES ASSUME NEW s \in starts', NEW t \in starts', s.pair = k, t.pair = k PROVE s = t OBVIOUS
      <3>1. PICK a \in starts : s = [a EXCEPT !.left = @ - 1] /\ s.pair = a.pair BY <2>4
      <3>2. PICK b \in starts : t = [b EXCEPT !.left = @ - 1] /\ t.pair = b.pair BY <2>4
      <3>3. a = b BY <1>5, <3>1, <3>2
      <3> QED BY <3>1, <3>2, <3>3
    <2>8. \A s, t \in ends' : s.pair = k /\ t.pair = k => s = t
      <3> SUFFICES ASSUME NEW s \in ends', NEW t \in ends', s.pair = k, t.pair = k PROVE s = t OBVIOUS
      <3>1. PICK a \in ends : s = [a EXCEPT !.left = @ - 1] /\ s.pair = a.pair BY <2>5
      <3>2. PICK b \in ends : t = [b EXCEPT !.left = @ - 1] /\ t.pair = b.pair BY <2>5
      <3>3. a = b BY <1>6, <3>1, <3>2
      <3> QED BY <3>1, <3>2, <3>3
    <2> QED BY <1>1, <1>4, <1>7, <2>1, <2>6, <2>7, <2>8, TokenSame
  <1>9. ASSUME NEW s \in starts, StartDue(s) PROVE TokenOf(k)'
    <2>1. /\ starts' = starts \ {s} /\ ends' = ends \cup {[left |-> Length, pair |-> s.pair]}
          /\ running' = IF running[s.pair] = 0 THEN [running EXCEPT ![s.pair] = s.map] ELSE running
          /\ couple' = couple /\ toCore' = toCore
      BY <1>9 DEF StartDue, net
    <2>2. CASE s.pair # k
      <3>1. \A e \in ends' : e.pair = k => e \in ends BY <2>1, <2>2
      <3>2. (ToStart(k)' => ToStart(k)) /\ (ToEnd(k)' <=> ToEnd(k)) BY <2>1, <3>1 DEF ToStart, ToEnd
      <3>3. running'[k] = running[k] BY <1>3, <2>1, <2>2
      <3> QED BY <1>1, <1>4, <1>5, <1>6, <1>7, <2>1, <3>1, <3>2, <3>3, TokenSame
    <2>3. CASE s.pair = k
      <3>1. ToStart(k) BY <2>3 DEF ToStart
      <3>2. ~Requested(k) /\ ~Readied(k) /\ ~ToEnd(k) /\ k \in asked /\ couple[k] # "none" BY <3>1 DEF TokenOf
      <3>3. ~ToStart(k)' BY <1>5, <2>1, <2>3 DEF ToStart
      <3>4. ToEnd(k)'
        <4>1. [left |-> Length, pair |-> s.pair] \in ends' /\ [left |-> Length, pair |-> s.pair].pair = k BY <2>1, <2>3
        <4> QED BY <4>1 DEF ToEnd
      <3>5. \A d, e \in ends' : d.pair = k /\ e.pair = k => d = e BY <2>1, <3>2 DEF ToEnd
      <3>6. \A a, b \in starts' : a.pair = k /\ b.pair = k => a = b BY <1>5, <2>1
      <3>7. ~Requested(k)' /\ ~Readied(k)' BY <1>1, <2>1, <3>2 DEF Requested, Readied
      <3>8. Once(toCore[Host], "request", k)' /\ Once(toDb[Host], "ready", k)'
        BY <1>1, <2>1 DEF TokenOf, Once, IsOn
      <3> QED BY <1>1, <2>1, <3>2, <3>3, <3>4, <3>5, <3>6, <3>7, <3>8 DEF TokenOf
    <2> QED BY <2>2, <2>3
  <1>10. ASSUME NEW e \in ends, EndDue(e) PROVE TokenOf(k)'
    <2>0. e.pair \in Couple BY <1>3
    <2>1. /\ ends' = ends \ {e} /\ starts' = starts
          /\ running[e.pair] = 0 => couple' = couple /\ running' = running /\ toCore' = toCore
      BY <1>10 DEF EndDue
    <2>2. NoMore(toCore[Host], toCore'[Host], "request", k)
          /\ running'[e.pair] = 0 /\ (k # e.pair => running'[k] = running[k])
          /\ (k # e.pair /\ couple[k] # "none" => couple'[k] # "none")
      <3>1. CASE running[e.pair] = 0 BY <1>7, <2>1, <3>1
      <3>2. CASE running[e.pair] # 0
        <4> DEFINE p == Packet("end", e.pair)
        <4>1. running' = [running EXCEPT ![e.pair] = 0] /\ p \in Told BY <1>10, <3>2, EndTells
        <4>2. \/ couple' = couple /\ toCore'[Host] = Append(toCore[Host], p)
              \/ \E l \in Couple :
                    /\ Packet("remove", l) \in Told
                    /\ couple' = [x \in Couple |-> IF x = l THEN "none" ELSE couple[x]]
                    /\ parted' = parted \cup ({l} \ {e.pair})
                    /\ toCore'[Host] = Append(Append(toCore[Host], p), Packet("remove", l))
          BY <1>2, <1>10, <3>2, EndTells
        <4>3. p.op = "end" /\ \A l \in Couple : Packet("remove", l).op = "remove" BY <2>0, PacketKinds
        <4> HIDE DEF p
        <4>4. NoMore(toCore[Host], Append(toCore[Host], p), "request", k) /\ Append(toCore[Host], p) \in Seq(Told)
          BY <1>2, <4>1, <4>3, NoMoreAppend, AppendIs
        <4>5. \A l \in Couple : Packet("remove", l) \in Told =>
                 NoMore(Append(toCore[Host], p), Append(Append(toCore[Host], p), Packet("remove", l)), "request", k)
          BY <4>3, <4>4, NoMoreAppend
        <4>6. NoMore(toCore[Host], toCore'[Host], "request", k) BY <4>2, <4>4, <4>5 DEF NoMore
        <4>7. running'[e.pair] = 0 /\ (k # e.pair => running'[k] = running[k]) BY <1>3, <2>0, <4>1
        <4>8. k # e.pair /\ couple[k] # "none" => couple'[k] # "none"
          <5>1. k \notin parted' BY DEF Plainly
          <5> QED BY <4>2, <5>1
        <4> QED BY <4>6, <4>7, <4>8
      <3> QED BY <3>1, <3>2
    <2>3. CASE e.pair # k
      <3>1. ToEnd(k)' <=> ToEnd(k) BY <2>1, <2>3 DEF ToEnd
      <3>2. \A a, b \in ends' : a.pair = k /\ b.pair = k => a = b BY <1>6, <2>1
      <3> QED BY <1>1, <1>4, <1>5, <2>1, <2>2, <2>3, <3>1, <3>2, TokenSame DEF ToStart
    <2>4. CASE e.pair = k
      <3>1. ToEnd(k) BY <2>4 DEF ToEnd
      <3>2. ~Requested(k) /\ ~Readied(k) /\ ~ToStart(k) BY <3>1 DEF TokenOf
      <3>3. ~ToEnd(k)' BY <1>6, <2>1, <2>4 DEF ToEnd
      <3>4. \A a, b \in ends' : a.pair = k /\ b.pair = k => a = b BY <1>6, <2>1
      <3>5. ~Requested(k)' /\ ~Readied(k)' /\ ~ToStart(k)'
        BY <1>1, <2>1, <2>2, <3>2 DEF NoMore, Requested, Readied, ToStart, On
      <3>6. Once(toCore[Host], "request", k)' /\ Once(toDb[Host], "ready", k)'
        BY <1>4, <2>2 DEF NoMore, TokenOf, Once, IsOn
      <3> QED BY <1>5, <2>1, <2>2, <2>4, <3>3, <3>4, <3>5, <3>6 DEF TokenOf
    <2> QED BY <2>3, <2>4
  <1> QED BY <1>8, <1>9, <1>10 DEF Timer

\* The host answers REQUEST with READY.
LEMMA TokenCore ==
    ASSUME TypeInv, NEW c \in Core, CoreReads(c), NEW k \in Couple, TokenOf(k)
    PROVE  TokenOf(k)'
  <1> DEFINE p == Head(toCore[c])
             r == Packet("request", p.pair)
             z == Ready(p.pair, nextMap)
  <1>1. /\ toCore[c] # <<>> /\ toCore'[c] = Tail(toCore[c]) /\ \A d \in Core : d # c => toCore'[d] = toCore[d]
        /\ toCore[c] \in Seq(Told) /\ p \in Told /\ p.pair \in Couple
        /\ \A d \in Core : d # c => toDb'[d] = toDb[d]
        /\ UNCHANGED <<daemon, asked>>
        /\ ~CoreRequest(c) => toDb'[c] = toDb[c] \/ toDb'[c] = Append(toDb[c], r)
        /\ CoreRequest(c) => toDb'[c] = toDb[c] \/ toDb'[c] = Append(toDb[c], z)
        /\ r \in Asked /\ z \in Asked /\ r.op = "request" /\ toDb[c] \in Seq(Asked)
    BY CoreMoves
  <1>2. UNCHANGED <<couple, starts, ends, running, asked>> /\ Host \in Core
    BY <1>1, WeddingAssumption DEF daemon
  <1>3. z.op = "ready" /\ z.pair = p.pair BY <1>1, PacketKinds
  <1>4. NoMore(toCore[Host], toCore'[Host], "request", k)
    <2>1. CASE c = Host
      <3>1. NoMore(toCore[Host], Tail(toCore[Host]), "request", k) BY <1>1, <2>1, NoMoreTail
      <3> QED BY <1>1, <2>1, <3>1
    <2>2. CASE c # Host BY <1>1, <1>2, <2>2 DEF NoMore
    <2> QED BY <2>1, <2>2
  <1>5. CASE c = Host /\ CoreRequest(c) /\ p.pair = k
    <2>1. p.op = "request" BY <1>5 DEF CoreRequest, Receive
    <2>2. Once(toCore[Host], "request", k) BY DEF TokenOf
    <2>3. Requested(k) /\ ~On(Tail(toCore[Host]), "request", k)
      <3>1. /\ Head(toCore[Host]).op = "request" /\ Head(toCore[Host]).pair = k
            /\ toCore[Host] \in Seq(Told) /\ toCore[Host] # <<>>
        BY <1>1, <1>5, <2>1
      <3>2. ASSUME NEW q \in Seq(Told), q # <<>>, Head(q).op = "request", Head(q).pair = k, Once(q, "request", k)
            PROVE  On(q, "request", k) /\ ~On(Tail(q), "request", k)
        BY <3>2, NoMoreTail
      <3>3. On(toCore[Host], "request", k) /\ ~On(Tail(toCore[Host]), "request", k)
        BY <2>2, <3>1, <3>2
      <3> QED BY <3>3 DEF Requested
    <2>4. ~Readied(k) /\ ~ToStart(k) /\ ~ToEnd(k) /\ k \in asked /\ couple[k] # "none" BY <2>3 DEF TokenOf
    <2>5. ~Requested(k)' BY <1>1, <1>5, <2>3 DEF Requested, On
    <2> HIDE DEF p, z, r
    <2>6. Once(toDb[Host], "ready", k)'
      <3>1. Once(Append(toDb[Host], z), "ready", k) BY <1>1, <1>5, <2>4, OnceAppend DEF Readied
      <3>2. Once(toDb[Host], "ready", k) BY DEF TokenOf
      <3>3. toDb'[Host] = toDb[Host] \/ toDb'[Host] = Append(toDb[Host], z) BY <1>1, <1>5
      <3> QED BY <3>1, <3>2, <3>3 DEF Once, IsOn
    <2>7. Once(toCore[Host], "request", k)' BY <1>4 DEF NoMore, TokenOf, Once, IsOn
    <2>8. ~ToStart(k)' /\ ~ToEnd(k)' /\ k \in asked' /\ couple'[k] # "none" BY <1>2, <2>4 DEF ToStart, ToEnd
    <2>9. running'[k] = 0 BY <1>2, <2>4 DEF TokenOf
    <2>10. (\A s, t \in starts' : s.pair = k /\ t.pair = k => s = t)
           /\ (\A d, e \in ends' : d.pair = k /\ e.pair = k => d = e)
      BY <1>2 DEF TokenOf
    <2> QED BY <2>5, <2>6, <2>7, <2>8, <2>9, <2>10 DEF TokenOf
  <1>6. CASE ~(c = Host /\ CoreRequest(c) /\ p.pair = k)
    <2>1. NoMore(toDb[Host], toDb'[Host], "ready", k)
      <3> HIDE DEF p, z, r
      <3>1. CASE c = Host
        <4>1. NoMore(toDb[Host], Append(toDb[Host], r), "ready", k) BY <1>1, <3>1, NoMoreAppend
        <4>2. p.pair # k => NoMore(toDb[Host], Append(toDb[Host], z), "ready", k) BY <1>1, <1>3, <3>1, NoMoreAppend
        <4>3. NoMore(toDb[Host], toDb[Host], "ready", k) BY DEF NoMore
        <4> QED BY <1>1, <1>6, <3>1, <4>1, <4>2, <4>3
      <3>2. CASE c # Host BY <1>1, <1>2, <3>2 DEF NoMore
      <3> QED BY <3>1, <3>2
    <2> QED BY <1>2, <1>4, <2>1, TokenSame DEF ToStart, ToEnd, TokenOf
  <1> QED BY <1>5, <1>6

\* Every step keeps one token of a wedding at most.
LEMMA TokenStep == TypeInv /\ CoupleInv /\ LinkInv /\ MapInv /\ OneInv /\ [Next]_vars => OneInv'
  <1> SUFFICES ASSUME TypeInv, CoupleInv, LinkInv, MapInv, OneInv, [Next]_vars, NEW k \in Couple, Plainly(k)'
               PROVE  TokenOf(k)'
    BY DEF OneInv
  <1>1. faults' = 0 BY DEF Plainly
  <1>2. /\ faults = 0 /\ Plainly(k)
        /\ \A c \in Core : ~LinkDrops(c) /\ ~CoreCrash(c) /\ ~Reconnect(c)
        /\ ~DaemonRestart
    BY <1>1, PlainBefore
  <1>3. TokenOf(k) BY <1>2 DEF OneInv
  <1>4. ASSUME UNCHANGED <<couple, starts, ends, running, toDb, toCore, asked>> PROVE TokenOf(k)'
    BY <1>3, <1>4 DEF TokenOf, Requested, Readied, ToStart, ToEnd
  <1>5. UNCHANGED vars \/ (\E m \in Map : DestroyWeddingMap(m)) => TokenOf(k)'
    BY <1>4 DEF vars, daemon, net, history, DestroyWeddingMap
  <1> QED BY <1>2, <1>3, <1>5, TokenQuest, TokenDaemon, TokenTimer, TokenCore DEF Next

-----------------------------------------------------------------------------
(* The host has the couples whose halls are ready *)

\* The host has the couple of every READY that waits for it.
LEMMA HeardAppend ==
    ASSUME NEW b, NEW q \in Seq(Told), NEW p \in Told, NEW k, Heard(b, q, k),
           p.op = "ready" /\ p.pair = k => Has(b, q, Len(q), k)
    PROVE  Heard(b, Append(q, p), k)
  <1> DEFINE r == Append(q, p)
  <1>1. /\ Len(r) = Len(q) + 1 /\ Len(q) \in Nat /\ r[Len(q) + 1] = p
        /\ \A i \in 1 .. Len(q) : r[i] = q[i]
    BY AppendIs
  <1>2. \A i \in Nat : i <= Len(q) => (Has(b, r, i, k) <=> Has(b, q, i, k)) BY HasAppend
  <1> HIDE DEF r
  <1> SUFFICES ASSUME NEW i \in 1 .. Len(r), IsOn(r, i, "ready", k) PROVE Has(b, r, i - 1, k)
    BY DEF Heard, r
  <1>3. i - 1 \in Nat /\ i - 1 <= Len(q) BY <1>1
  <1>4. CASE i \in 1 .. Len(q)
    <2>1. IsOn(q, i, "ready", k) BY <1>1, <1>4 DEF IsOn
    <2>2. Has(b, q, i - 1, k) BY <1>4, <2>1 DEF Heard
    <2> QED BY <1>2, <1>3, <2>2
  <1>5. CASE i = Len(q) + 1
    <2>1. p.op = "ready" /\ p.pair = k /\ i - 1 = Len(q) BY <1>1, <1>5 DEF IsOn
    <2> QED BY <1>2, <1>3, <2>1
  <1> QED BY <1>1, <1>4, <1>5

\* The host reads a packet that is no REMOVE of the couple.
LEMMA HeardTail ==
    ASSUME NEW b \in [Couple -> Status], NEW q \in Seq(Told), q # <<>>, NEW c \in [Couple -> Status],
           \A k \in Couple : c[k] = IF About(Head(q), k) THEN Says(Head(q)) ELSE b[k],
           NEW k \in Couple, Heard(b, q, k)
    PROVE  Heard(c, Tail(q), k)
  <1> DEFINE r == Tail(q)
  <1>1. /\ Len(r) = Len(q) - 1 /\ Len(q) \in Nat
        /\ \A i \in 1 .. Len(r) : r[i] = q[i + 1] /\ i + 1 \in 1 .. Len(q) /\ i - 1 \in 0 .. Len(r)
    BY HeadIs
  <1>2. \A i \in 0 .. Len(r) : Has(c, r, i, k) <=> Has(b, q, i + 1, k) BY HasTail
  <1> HIDE DEF r
  <1> SUFFICES ASSUME NEW i \in 1 .. Len(r), IsOn(r, i, "ready", k) PROVE Has(c, r, i - 1, k)
    BY DEF Heard, r
  <1>3. IsOn(q, i + 1, "ready", k) BY <1>1 DEF IsOn
  <1>4. i + 1 \in 1 .. Len(q) /\ i - 1 \in 0 .. Len(r) /\ (i + 1) - 1 = i /\ (i - 1) + 1 = i BY <1>1
  <1>5. Has(b, q, i, k) BY <1>3, <1>4 DEF Heard
  <1> QED BY <1>2, <1>4, <1>5

\* A core that reads a packet changes its own couples only.
LEMMA OthersKeep ==
    ASSUME TypeInv, NEW c \in Core, CoreReads(c), NEW d \in Core, d # c
    PROVE  bond'[d] = bond[d]
  <1> DEFINE p == Head(toCore[c])
  <1>1. toCore[c] # <<>> BY CoreMoves
  <1>2. p \in Told /\ p.pair \in Couple BY <1>1, CoreHead
  <1>3. bond \in [Core -> [Couple -> Status]] /\ "none" \in Status /\ "engaged" \in Status
    BY DEF TypeInv, CopyType, Status
  <1>4. p.op = "update" => p.status \in Status BY <1>2, ToldFacts DEF Status
  <1>5. \/ bond' = bond
        \/ bond' = [bond EXCEPT ![c][p.pair] = "engaged"]
        \/ bond' = [bond EXCEPT ![c][p.pair] = "none"]
        \/ bond' = [bond EXCEPT ![c][p.pair] = p.status] /\ p.op = "update"
    BY DEF CoreReads, CoreAdd, CoreUpdate, CoreRemove, CoreRequest, CoreReady, CoreEnd, Receive
  <1> HIDE DEF p
  <1>6. \A v \in Status : [bond EXCEPT ![c][p.pair] = v][d] = bond[d] BY <1>2, <1>3, ChangeOne
  <1>7. CASE bond' = [bond EXCEPT ![c][p.pair] = "engaged"]
    <2>1. [bond EXCEPT ![c][p.pair] = "engaged"][d] = bond[d] BY <1>3, <1>6
    <2> QED BY ONLY <1>7, <2>1
  <1>8. CASE bond' = [bond EXCEPT ![c][p.pair] = "none"]
    <2>1. [bond EXCEPT ![c][p.pair] = "none"][d] = bond[d] BY <1>3, <1>6
    <2> QED BY ONLY <1>8, <2>1
  <1>9. CASE bond' = [bond EXCEPT ![c][p.pair] = p.status] /\ p.op = "update"
    <2>1. [bond EXCEPT ![c][p.pair] = p.status][d] = bond[d] BY <1>4, <1>6, <1>9
    <2> QED BY ONLY <1>9, <2>1
  <1> QED BY <1>5, <1>7, <1>8, <1>9

\* The quests of the players do not disturb what the host will hear.
LEMMA HeardQuest ==
    ASSUME TypeInv, NEW c \in Core, NEW l \in Couple,
           RequestAdd(c, l) \/ RequestRemove(c, l) \/ RequestEndWedding(c, l) \/ SetMarried(c, l),
           NEW k \in Couple, Heard(bond[Host], toCore[Host], k)
    PROVE  Heard(bond'[Host], toCore'[Host], k)
  <1>1. toCore' = toCore
    BY DEF RequestAdd, RequestRemove, RequestEndWedding, SetMarried, Quest
  <1>2. bond' = bond \/ (bond[c][l] # "none" /\ bond' = [bond EXCEPT ![c][l] = "married"])
    BY DEF RequestAdd, RequestRemove, RequestEndWedding, SetMarried
  <1>3. bond \in [Core -> [Couple -> Status]] /\ "married" \in Status /\ Host \in Core
    BY WeddingAssumption DEF TypeInv, CopyType, Status
  <1>4. [bond EXCEPT ![c][l] = "married"][Host][k] = IF Host = c /\ k = l THEN "married" ELSE bond[Host][k]
    BY <1>3, ChangeOne
  <1>5. bond'[Host][k] # "none" <=> bond[Host][k] # "none"
    <2>1. CASE bond' = bond BY <2>1
    <2>2. CASE bond[c][l] # "none" /\ bond' = [bond EXCEPT ![c][l] = "married"]
      <3>1. bond'[Host][k] = [bond EXCEPT ![c][l] = "married"][Host][k] BY ONLY <2>2
      <3>2. bond'[Host][k] = IF Host = c /\ k = l THEN "married" ELSE bond[Host][k] BY ONLY <1>4, <3>1
      <3>3. Host = c /\ k = l => bond[Host][k] # "none" BY <2>2
      <3> QED BY <3>2, <3>3
    <2> QED BY <1>2, <2>1, <2>2
  <1> QED BY <1>1, <1>5 DEF Heard, Has

\* A couple that is forwarded READY is still a couple, and not parted since.
LEMMA HeardDaemon ==
    ASSUME TypeInv, LinkInv, CopyInv, MapInv, faults = 0, NEW c \in Core, DaemonReads(c),
           NEW k \in Couple, TokenOf(k), Heard(bond[Host], toCore[Host], k)
    PROVE  Heard(bond'[Host], toCore'[Host], k)
  <1> DEFINE p == Head(toDb[c])
  <1>0. Host \in Core BY WeddingAssumption
  <1>1. bond' = bond
    BY DEF DaemonReads, MarriageAdd, MarriageUpdate, MarriageRemove, WeddingRequest, WeddingReady, EndWedding, Handle, core
  <1>2. PICK x \in Told : /\ toCore'[Host] = toCore[Host] \/ toCore'[Host] = Append(toCore[Host], x)
                          /\ x = p \/ x.op = "add"
    BY <1>0, DaemonMoves
  <1>3. toDb[c] # <<>> /\ toDb[c] \in Seq(Asked) BY DaemonMoves
  <1>4. /\ bond[Host] \in [Couple -> Status] /\ toCore[Host] \in Seq(Told) /\ couple \in [Couple -> Status]
    BY <1>0 DEF TypeInv, CopyType, NetType, DaemonType
  <1>5. InStep(bond[Host], toCore[Host], toDb[Host], couple) BY <1>0 DEF CopyInv, LinkInv
  <1>6. ASSUME x.op = "ready", x.pair = k PROVE Has(bond[Host], toCore[Host], Len(toCore[Host]), k)
    <2>1. toDb[c][1] = x /\ 1 \in 1 .. Len(toDb[c]) BY <1>2, <1>3, <1>6, HeadIs
    <2>2. c = Host BY <1>6, <2>1 DEF MapInv, IsReady
    <2>3. Readied(k) BY <1>6, <2>1, <2>2 DEF Readied, On
    <2>4. couple[k] # "none" BY <2>3 DEF TokenOf
    <2> QED BY <1>4, <1>5, <2>4, HasAll
  <1>7. Heard(bond[Host], Append(toCore[Host], x), k) BY <1>4, <1>6, HeardAppend
  <1> QED BY <1>1, <1>2, <1>7

\* The timer parts no couple that is plain after it, and tells no READY.
LEMMA HeardTimer ==
    ASSUME TypeInv, CoupleInv, Timer \/ Tick, NEW k \in Couple, Heard(bond[Host], toCore[Host], k)
    PROVE  Heard(bond'[Host], toCore'[Host], k)
  <1>0. Host \in Core /\ toCore[Host] \in Seq(Told) BY WeddingAssumption DEF TypeInv, NetType
  <1>1. /\ bond' = bond
        /\ \/ toCore'[Host] = toCore[Host]
           \/ \E l \in Couple : toCore'[Host] = Append(toCore[Host], Packet("end", l))
           \/ \E e, l \in Couple : toCore'[Host] = Append(Append(toCore[Host], Packet("end", e)), Packet("remove", l))
    BY <1>0, TimerMoves
  <1>2. \A l \in Couple : /\ Packet("end", l) \in Told /\ Packet("remove", l) \in Told
                          /\ Packet("end", l).op # "ready" /\ Packet("remove", l).op # "ready"
    BY PacketKinds
  <1>3. \A l \in Couple : /\ Heard(bond[Host], Append(toCore[Host], Packet("end", l)), k)
                          /\ Append(toCore[Host], Packet("end", l)) \in Seq(Told)
    BY <1>0, <1>2, HeardAppend, AppendIs
  <1>4. \A e, l \in Couple : Heard(bond[Host], Append(Append(toCore[Host], Packet("end", e)), Packet("remove", l)), k)
    BY <1>2, <1>3, HeardAppend
  <1> QED BY <1>1, <1>3, <1>4

\* The host does with its couples what the packet says.
LEMMA HeardCore ==
    ASSUME TypeInv, LinkInv, CopyInv, faults = 0, NEW c \in Core, CoreReads(c),
           NEW k \in Couple, Heard(bond[Host], toCore[Host], k)
    PROVE  Heard(bond'[Host], toCore'[Host], k)
  <1>0. Host \in Core /\ up[Host] /\ synced[Host] BY WeddingAssumption DEF LinkInv
  <1>1. CASE c # Host
    <2>1. bond'[Host] = bond[Host] /\ toCore'[Host] = toCore[Host] BY <1>0, <1>1, OthersKeep, CoreMoves
    <2> QED BY <2>1
  <1>2. CASE c = Host
    <2>1. /\ toCore[Host] # <<>> /\ toCore'[Host] = Tail(toCore[Host]) /\ toCore[Host] \in Seq(Told)
      BY <1>2, CoreMoves
    <2>2. \A l \in Couple : bond'[Host][l] = IF About(Head(toCore[Host]), l) THEN Says(Head(toCore[Host])) ELSE bond[Host][l]
      BY <1>0, <1>2, CoreLearns
    <2>3. bond[Host] \in [Couple -> Status] /\ bond'[Host] \in [Couple -> Status]
      BY <1>0, TypeCore DEF TypeInv, CopyType
    <2>4. ASSUME NEW b \in [Couple -> Status], b = bond'[Host] PROVE Heard(b, Tail(toCore[Host]), k)
      BY <2>1, <2>2, <2>3, <2>4, HeardTail
    <2> QED BY <2>1, <2>3, <2>4
  <1> QED BY <1>1, <1>2

\* Every step keeps READY behind the packets that make the couple known.
LEMMA HeardStep ==
    TypeInv /\ CoupleInv /\ LinkInv /\ CopyInv /\ MapInv /\ OneInv /\ HeardInv /\ [Next]_vars => HeardInv'
  <1> SUFFICES ASSUME TypeInv, CoupleInv, LinkInv, CopyInv, MapInv, OneInv, HeardInv, [Next]_vars,
                      NEW k \in Couple, Plainly(k)'
               PROVE  Heard(bond'[Host], toCore'[Host], k)
    BY DEF HeardInv
  <1>1. faults' = 0 BY DEF Plainly
  <1>2. /\ faults = 0 /\ Plainly(k)
        /\ \A c \in Core : ~LinkDrops(c) /\ ~CoreCrash(c) /\ ~Reconnect(c)
        /\ ~DaemonRestart
    BY <1>1, PlainBefore
  <1>3. TokenOf(k) /\ Heard(bond[Host], toCore[Host], k) BY <1>2 DEF OneInv, HeardInv
  <1>4. UNCHANGED vars \/ (\E m \in Map : DestroyWeddingMap(m)) => Heard(bond'[Host], toCore'[Host], k)
    BY <1>3 DEF vars, core, net, DestroyWeddingMap
  <1> QED BY <1>2, <1>3, <1>4, HeardQuest, HeardDaemon, HeardTimer, HeardCore DEF Next

-----------------------------------------------------------------------------
(* Halls close *)

\* A packet that joins the queue of the host.
LEMMA KnowsAppend ==
    ASSUME NEW n, NEW q \in Seq(Told), NEW p \in Told, NEW k, NEW m
    PROVE  /\ \A j \in 0 .. Len(q) : Knows(n, q, j, k, m) => Knows(n, Append(q, p), j, k, m)
           /\ Knows(n, q, Len(q), k, m) /\ ~(p.pair = k /\ p.op \in {"end", "remove", "ready"})
                => Knows(n, Append(q, p), Len(Append(q, p)), k, m)
           /\ p = Ready(k, m) => Knows(n, Append(q, p), Len(Append(q, p)), k, m)
           /\ Ended(n, q, k, m) => Ended(n, Append(q, p), k, m)
           /\ Knows(n, q, Len(q), k, m) /\ p.pair = k /\ p.op = "end" => Ended(n, Append(q, p), k, m)
  <1> DEFINE r == Append(q, p)
  <1>1. /\ Len(r) = Len(q) + 1 /\ Len(q) \in Nat /\ r[Len(q) + 1] = p
        /\ \A i \in 1 .. Len(q) : r[i] = q[i]
    BY AppendIs
  <1> HIDE DEF r
  <1>2. \A j \in 0 .. Len(q), x \in Nat \ {0} : Quiet(q, x, j, k) => Quiet(r, x, j, k)
    <2> SUFFICES ASSUME NEW j \in 0 .. Len(q), NEW x \in Nat \ {0}, Quiet(q, x, j, k), NEW y \in x .. j, r[y].pair = k
                 PROVE  r[y].op \notin {"end", "remove", "ready"}
      BY DEF Quiet
    <2>1. y \in 1 .. Len(q) BY <1>1
    <2> QED BY <1>1, <2>1 DEF Quiet
  <1>3. ASSUME NEW j \in 0 .. Len(q), Knows(n, q, j, k, m) PROVE Knows(n, r, j, k, m)
    <2>1. CASE n[k] = m /\ Quiet(q, 1, j, k) BY <1>2, <2>1 DEF Knows
    <2>2. ASSUME NEW i \in 1 .. j, q[i] = Ready(k, m), Quiet(q, i + 1, j, k) PROVE Knows(n, r, j, k, m)
      <3>1. i \in 1 .. Len(q) /\ i + 1 \in Nat \ {0} BY <1>1
      <3>2. r[i] = Ready(k, m) /\ Quiet(r, i + 1, j, k) BY <1>1, <1>2, <2>2, <3>1
      <3> QED BY <3>2 DEF Knows
    <2> QED BY <1>3, <2>1, <2>2 DEF Knows
  <1>4. ASSUME Knows(n, q, Len(q), k, m), ~(p.pair = k /\ p.op \in {"end", "remove", "ready"})
        PROVE  Knows(n, r, Len(r), k, m)
    <2>1. Len(q) \in 0 .. Len(q) BY <1>1
    <2>2. Knows(n, r, Len(q), k, m) BY <1>3, <1>4, <2>1
    <2>3. \A x \in Nat \ {0} : Quiet(r, x, Len(q), k) => Quiet(r, x, Len(r), k)
      <3> SUFFICES ASSUME NEW x \in Nat \ {0}, Quiet(r, x, Len(q), k), NEW y \in x .. Len(r), r[y].pair = k
                   PROVE  r[y].op \notin {"end", "remove", "ready"}
        BY DEF Quiet
      <3>1. y \in x .. Len(q) \/ y = Len(q) + 1 BY <1>1
      <3> QED BY <1>1, <1>4, <3>1 DEF Quiet
    <2>4. CASE n[k] = m /\ Quiet(r, 1, Len(q), k) BY <2>3, <2>4 DEF Knows
    <2>5. ASSUME NEW i \in 1 .. Len(q), r[i] = Ready(k, m), Quiet(r, i + 1, Len(q), k) PROVE Knows(n, r, Len(r), k, m)
      <3>1. i \in 1 .. Len(r) /\ i + 1 \in Nat \ {0} BY <1>1
      <3>2. Quiet(r, i + 1, Len(r), k) BY <2>3, <2>5, <3>1
      <3> QED BY <2>5, <3>1, <3>2 DEF Knows
    <2> QED BY <2>2, <2>4, <2>5 DEF Knows
  <1>5. ASSUME p = Ready(k, m) PROVE Knows(n, r, Len(r), k, m)
    <2>1. Len(r) \in 1 .. Len(r) /\ r[Len(r)] = Ready(k, m) BY <1>1, <1>5
    <2>2. Quiet(r, Len(r) + 1, Len(r), k) BY <1>1 DEF Quiet
    <2> QED BY <2>1, <2>2 DEF Knows
  <1>6. ASSUME Ended(n, q, k, m) PROVE Ended(n, r, k, m)
    <2>1. PICK i \in 1 .. Len(q) : IsOn(q, i, "end", k) /\ Knows(n, q, i - 1, k, m) BY <1>6 DEF Ended
    <2>2. i - 1 \in 0 .. Len(q) /\ i \in 1 .. Len(r) BY <1>1
    <2>3. Knows(n, r, i - 1, k, m) BY <1>3, <2>1, <2>2
    <2>4. IsOn(r, i, "end", k) BY <1>1, <2>1, <2>2 DEF IsOn
    <2> QED BY <2>2, <2>3, <2>4 DEF Ended
  <1>7. ASSUME Knows(n, q, Len(q), k, m), p.pair = k, p.op = "end" PROVE Ended(n, r, k, m)
    <2>1. Len(q) \in 0 .. Len(q) /\ Len(r) \in 1 .. Len(r) /\ Len(r) - 1 = Len(q) BY <1>1
    <2>2. Knows(n, r, Len(r) - 1, k, m) BY <1>3, <1>7, <2>1
    <2>3. IsOn(r, Len(r), "end", k) BY <1>1, <1>7, <2>1 DEF IsOn
    <2> QED BY <2>1, <2>2, <2>3 DEF Ended
  <1> QED BY <1>3, <1>4, <1>5, <1>6, <1>7 DEF r

\* The host reads the head of its queue.
LEMMA KnowsTail ==
    ASSUME NEW n, NEW q \in Seq(Told), q # <<>>, NEW k, NEW m, NEW o,
           ~(Head(q).pair = k /\ Head(q).op \in {"end", "remove", "ready"}) => o[k] = n[k],
           Head(q) = Ready(k, m) => o[k] = m
    PROVE  /\ \A j \in 1 .. Len(q) : Knows(n, q, j, k, m) => Knows(o, Tail(q), j - 1, k, m)
           /\ Ended(n, q, k, m) =>
                 \/ Head(q).op = "end" /\ Head(q).pair = k /\ n[k] = m
                 \/ Ended(o, Tail(q), k, m)
  <1> DEFINE r == Tail(q)
  <1>1. /\ Len(r) = Len(q) - 1 /\ Len(q) \in Nat /\ Head(q) = q[1] /\ Len(q) > 0
        /\ \A i \in 1 .. Len(q) - 1 : r[i] = q[i + 1]
    BY HeadIs
  <1> HIDE DEF r
  <1>2. ASSUME NEW j \in 1 .. Len(q), NEW x \in 1 .. Len(q), Quiet(q, x + 1, j, k) PROVE Quiet(r, x, j - 1, k)
    <2> SUFFICES ASSUME NEW y \in x .. j - 1, r[y].pair = k PROVE r[y].op \notin {"end", "remove", "ready"}
      BY DEF Quiet
    <2>1. y \in 1 .. Len(q) - 1 /\ y + 1 \in x + 1 .. j BY <1>1
    <2>2. r[y] = q[y + 1] BY <1>1, <2>1
    <2> QED BY <1>2, <2>1, <2>2 DEF Quiet
  <1>3. 1 \in 1 .. Len(q) BY <1>1
  <1>4. ASSUME NEW j \in 1 .. Len(q), Knows(n, q, j, k, m) PROVE Knows(o, r, j - 1, k, m)
    <2>1. CASE n[k] = m /\ Quiet(q, 1, j, k)
      <3>1. ~(q[1].pair = k /\ q[1].op \in {"end", "remove", "ready"})
        <4>1. 1 \in 1 .. j OBVIOUS
        <4> QED BY <2>1, <4>1 DEF Quiet
      <3>2. o[k] = m BY <1>1, <2>1, <3>1
      <3>3. Quiet(q, 1 + 1, j, k)
        <4>1. \A y \in 1 + 1 .. j : y \in 1 .. j OBVIOUS
        <4> QED BY <2>1, <4>1 DEF Quiet
      <3>4. Quiet(r, 1, j - 1, k) BY <1>2, <1>3, <3>3
      <3> QED BY <3>2, <3>4 DEF Knows
    <2>2. ASSUME NEW i \in 1 .. j, q[i] = Ready(k, m), Quiet(q, i + 1, j, k) PROVE Knows(o, r, j - 1, k, m)
      <3>0. i \in 1 .. Len(q) BY <1>1
      <3>1. Quiet(r, i, j - 1, k) BY <1>2, <2>2, <3>0
      <3>2. CASE i = 1
        <4>1. o[k] = m BY <1>1, <2>2, <3>2
        <4> QED BY <3>1, <3>2, <4>1 DEF Knows
      <3>3. CASE i # 1
        <4>1. i - 1 \in 1 .. j - 1 /\ i - 1 \in 1 .. Len(q) - 1 /\ (i - 1) + 1 = i BY <3>0, <3>3
        <4>2. r[i - 1] = Ready(k, m) BY <1>1, <2>2, <4>1
        <4> QED BY <3>1, <4>1, <4>2 DEF Knows
      <3> QED BY <3>2, <3>3
    <2> QED BY <1>4, <2>1, <2>2 DEF Knows
  <1>5. ASSUME Ended(n, q, k, m) PROVE (q[1].op = "end" /\ q[1].pair = k /\ n[k] = m) \/ Ended(o, r, k, m)
    <2>1. PICK i \in 1 .. Len(q) : IsOn(q, i, "end", k) /\ Knows(n, q, i - 1, k, m) BY <1>5 DEF Ended
    <2>2. CASE i = 1
      <3>1. Knows(n, q, 0, k, m) /\ q[1].op = "end" /\ q[1].pair = k BY <2>1, <2>2 DEF IsOn
      <3>2. n[k] = m BY <3>1 DEF Knows
      <3> QED BY <3>1, <3>2
    <2>3. CASE i # 1
      <3>1. i - 1 \in 1 .. Len(q) /\ i - 1 \in 1 .. Len(r) /\ (i - 1) + 1 = i /\ i - 1 \in 1 .. Len(q) - 1 BY <1>1, <2>3
      <3>2. Knows(o, r, (i - 1) - 1, k, m) BY <1>4, <2>1, <3>1
      <3>3. IsOn(r, i - 1, "end", k) BY <1>1, <2>1, <3>1 DEF IsOn
      <3> QED BY <3>1, <3>2, <3>3 DEF Ended
    <2> QED BY <2>2, <2>3
  <1> QED BY <1>1, <1>4, <1>5 DEF r

\* A packet that waits for the daemon.
LEMMA HoldsMoves ==
    ASSUME NEW S, NEW q \in Seq(S), NEW p \in S, NEW x
    PROVE  /\ Holds(q, x) => Holds(Append(q, p), x)
           /\ Holds(Append(q, x), x)
           /\ q # <<>> /\ Holds(q, x) => Head(q) = x \/ Holds(Tail(q), x)
  <1> DEFINE r == Append(q, p)
             t == Tail(q)
  <1>1. /\ Len(r) = Len(q) + 1 /\ Len(q) \in Nat
        /\ \A i \in 1 .. Len(q) : r[i] = q[i]
    BY AppendIs
  <1>2. q # <<>> => /\ Len(t) = Len(q) - 1 /\ Head(q) = q[1]
                    /\ \A i \in 1 .. Len(q) - 1 : t[i] = q[i + 1]
    BY HeadIs
  <1>3. Len(Append(q, x)) \in 1 .. Len(Append(q, x)) /\ Append(q, x)[Len(Append(q, x))] = x
    <2>1. q \in Seq(S \cup {x}) OBVIOUS
    <2>2. Len(Append(q, x)) = Len(q) + 1 /\ Append(q, x)[Len(q) + 1] = x BY <2>1, AppendIs
    <2> QED BY <1>1, <2>2
  <1> HIDE DEF r, t
  <1>4. ASSUME Holds(q, x) PROVE Holds(r, x)
    <2>1. PICK i \in 1 .. Len(q) : q[i] = x BY <1>4 DEF Holds
    <2>2. i \in 1 .. Len(r) /\ r[i] = x BY <1>1, <2>1
    <2> QED BY <2>2 DEF Holds
  <1>5. ASSUME q # <<>>, Holds(q, x) PROVE Head(q) = x \/ Holds(t, x)
    <2>1. PICK i \in 1 .. Len(q) : q[i] = x BY <1>5 DEF Holds
    <2>2. CASE i = 1 BY <1>2, <1>5, <2>1, <2>2
    <2>3. CASE i # 1
      <3>1. i - 1 \in 1 .. Len(q) - 1 /\ (i - 1) + 1 = i BY <1>1, <2>3
      <3>2. i - 1 \in 1 .. Len(t) /\ t[i - 1] = x BY <1>2, <1>5, <2>1, <3>1
      <3> QED BY <3>2 DEF Holds
    <2> QED BY <2>2, <2>3
  <1> QED BY <1>3, <1>4, <1>5 DEF r, t, Holds

\* The quests of the players end no wedding and send nothing to the host.
LEMMA HallQuest ==
    ASSUME TypeInv, NEW c \in Core, NEW l \in Couple,
           RequestAdd(c, l) \/ RequestRemove(c, l) \/ RequestEndWedding(c, l) \/ SetMarried(c, l),
           NEW k, NEW m, HallOf(k, m)
    PROVE  HallOf(k, m)'
  <1>1. PICK p \in Asked : Quest(c, p)
    BY PacketKinds DEF RequestAdd, RequestRemove, RequestEndWedding, SetMarried
  <1>2. UNCHANGED <<starts, running, toCore, info>> /\ toDb' = Send(toDb, c, p)
    BY <1>1 DEF Quest, daemon
  <1>3. Host \in Core /\ toDb[Host] \in Seq(Asked) BY WeddingAssumption DEF TypeInv, NetType
  <1>4. toDb'[Host] = toDb[Host] \/ toDb'[Host] = Append(toDb[Host], p) BY <1>2, <1>3, SendIs
  <1>5. Holds(toDb[Host], Ready(k, m)) => Holds(Append(toDb[Host], p), Ready(k, m)) BY <1>3, HoldsMoves
  <1>6. Holds(toDb[Host], Ready(k, m)) => Holds(toDb'[Host], Ready(k, m)) BY <1>4, <1>5
  <1>7. Knows(info[Host], toCore[Host], Len(toCore[Host]), k, m) /\ Going(k, m)
        => (Knows(info[Host], toCore[Host], Len(toCore[Host]), k, m) /\ Going(k, m))'
    BY <1>2 DEF Knows, Quiet, Going
  <1>8. Ended(info[Host], toCore[Host], k, m) => Ended(info[Host], toCore[Host], k, m)'
    BY <1>2 DEF Ended, Knows, Quiet, IsOn
  <1>9. Holds(toDb[Host], Ready(k, m)) => Holds(toDb[Host], Ready(k, m))' BY <1>6 DEF Holds, Ready
  <1> QED BY <1>7, <1>8, <1>9 DEF HallOf

\* The three ways a map of the host is accounted for, after a step.
LEMMA HallAfter ==
    ASSUME NEW k, NEW m,
           \/ Holds(toDb'[Host], Ready(k, m))
           \/ /\ Knows(info'[Host], toCore'[Host], Len(toCore'[Host]), k, m)
              /\ (\E s \in starts' : s.pair = k /\ s.map = m) \/ running'[k] = m
           \/ Ended(info'[Host], toCore'[Host], k, m)
    PROVE  HallOf(k, m)'
  BY DEF HallOf, Holds, Ready, Knows, Quiet, Going, Ended, IsOn

\* The daemon that reads READY forwards it to the host and plans the start; END of a
\* couple goes to the timer.
LEMMA HallDaemon ==
    ASSUME TypeInv, LinkInv, MapInv, faults = 0, NEW c \in Core, DaemonReads(c),
           NEW k \in Couple, NEW m, m # 0, TokenOf(k), Plainly(k)', HallOf(k, m)
    PROVE  HallOf(k, m)'
  <1> DEFINE p == Head(toDb[c])
             q == toCore[Host]
             n == info[Host]
  <1>1. /\ toDb[c] # <<>> /\ toDb'[c] = Tail(toDb[c]) /\ \A d \in Core : d # c => toDb'[d] = toDb[d]
        /\ toDb[c] \in Seq(Asked) /\ p \in Told
        /\ WeddingReady(c) => \A d \in Core : up[d] => toCore'[d] = Append(toCore[d], Head(toDb[c]))
        /\ ~WeddingReady(c) => p.op # "ready"
    BY DaemonMoves
  <1>2. Host \in Core /\ up[Host] /\ q \in Seq(Told) /\ running \in [Couple -> Nat] /\ p.pair \in Couple
    BY <1>1, WeddingAssumption, ToldFacts DEF LinkInv, TypeInv, NetType, DaemonType
  <1>3. info' = info
    BY DEF DaemonReads, MarriageAdd, MarriageUpdate, MarriageRemove, WeddingRequest, WeddingReady, EndWedding, Handle, core
  <1>4. Going(k, m) => ToStart(k) \/ ToEnd(k) BY DEF Going, ToStart, TokenOf
  <1>5. WeddingReady(c) => c = Host
    <2> SUFFICES ASSUME WeddingReady(c) PROVE c = Host OBVIOUS
    <2>1. p = toDb[c][1] /\ 1 \in 1 .. Len(toDb[c]) BY <1>1, HeadIs
    <2>2. p.op = "ready" BY DEF WeddingReady, Handle
    <2> QED BY <2>1, <2>2 DEF MapInv, IsReady
  <1>6. ASSUME NEW x \in Told, toCore' = Forward(<<x>>) PROVE toCore'[Host] = Append(q, x)
    BY <1>2, <1>6, ForwardOne
  \* what the host has been told besides
  <1>7. PICK x \in Told :
           /\ \/ toCore'[Host] = q /\ starts' = starts /\ running' = running
              \/ toCore'[Host] = Append(q, x)
           /\ x.op \in {"remove", "end", "ready"} => x = p
           /\ x.op # "end" => running' = running
           /\ \/ starts' = starts
              \/ starts' = starts \cup {[left |-> Delay, map |-> p.map, pair |-> p.pair]}
           /\ x.op = "end" => running' = running \/ running' = [running EXCEPT ![p.pair] = 0]
           /\ x.op = "remove" => toCore'[Host] = q \/ p.pair \in parted'
           /\ x.op = "ready" => WeddingReady(c)
    <2>1. CASE MarriageAdd(c)
      <3>1. /\ starts' = starts /\ running' = running
            /\ toCore' = toCore \/ toCore' = Forward(<<Packet("add", p.pair)>>)
        BY <2>1 DEF MarriageAdd
      <3>2. Packet("add", p.pair) \in Told /\ Packet("add", p.pair).op = "add" BY <1>2, PacketKinds
      <3> HIDE DEF p
      <3> QED BY <1>6, <3>1, <3>2
    <2>2. CASE MarriageUpdate(c) \/ MarriageRemove(c) \/ WeddingRequest(c)
      <3>1. /\ starts' = starts /\ running' = running /\ p.op \notin {"end", "ready"}
            /\ toCore' = toCore \/ toCore' = Forward(<<p>>)
            /\ p.op = "remove" => toCore' = toCore \/ p.pair \in parted'
        BY <2>2 DEF MarriageUpdate, MarriageRemove, WeddingRequest, Handle, daemon
      <3> HIDE DEF p
      <3> QED BY <1>1, <1>6, <3>1
    <2>3. CASE WeddingReady(c)
      <3>1. /\ starts' = starts \cup {[left |-> Delay, map |-> p.map, pair |-> p.pair]} /\ running' = running
            /\ p.op = "ready" /\ toCore' = Forward(<<p>>)
        BY <2>3 DEF WeddingReady, Handle
      <3> HIDE DEF p
      <3> QED BY <1>1, <1>6, <2>3, <3>1
    <2>4. CASE EndWedding(c)
      <3>1. /\ starts' = starts /\ p.op = "end"
            /\ \/ toCore' = toCore /\ running' = running
               \/ toCore' = Forward(<<p>>) /\ running' = [running EXCEPT ![p.pair] = 0]
        BY <2>4 DEF EndWedding, Handle
      <3> HIDE DEF p
      <3> QED BY <1>1, <1>6, <3>1
    <2> QED BY <2>1, <2>2, <2>3, <2>4 DEF DaemonReads
  <1> HIDE DEF q, n
  <1>8. /\ Knows(n, q, Len(q), k, m) /\ ~(x.pair = k /\ x.op \in {"end", "remove", "ready"})
             => Knows(n, Append(q, x), Len(Append(q, x)), k, m)
        /\ x = Ready(k, m) => Knows(n, Append(q, x), Len(Append(q, x)), k, m)
        /\ Ended(n, q, k, m) => Ended(n, Append(q, x), k, m)
        /\ Knows(n, q, Len(q), k, m) /\ x.pair = k /\ x.op = "end" => Ended(n, Append(q, x), k, m)
    BY <1>2, KnowsAppend
  <1>9. (\E s \in starts : s.pair = k /\ s.map = m) => \E s \in starts' : s.pair = k /\ s.map = m BY <1>7
  <1>10. ASSUME toCore'[Host] = q, starts' = starts, running' = running, ~WeddingReady(c) PROVE HallOf(k, m)'
    <2>1. Holds(toDb[Host], Ready(k, m)) => Holds(toDb'[Host], Ready(k, m))
      <3>1. CASE c = Host
        <4>1. Ready(k, m).op = "ready" BY DEF Ready
        <4>2. Holds(toDb[Host], Ready(k, m)) => Head(toDb[Host]) = Ready(k, m) \/ Holds(Tail(toDb[Host]), Ready(k, m))
          <5>1. p \in Asked BY <1>1, HeadIs
          <5> QED BY <1>1, <3>1, <5>1, HoldsMoves
        <4> QED BY <1>1, <1>10, <3>1, <4>1, <4>2
      <3>2. CASE c # Host BY <1>1, <1>2, <3>2
      <3> QED BY <3>1, <3>2
    <2>2. Knows(n, q, Len(q), k, m) /\ Going(k, m) => Knows(info'[Host], toCore'[Host], Len(toCore'[Host]), k, m)
                                                   /\ ((\E s \in starts' : s.pair = k /\ s.map = m) \/ running'[k] = m)
      BY <1>3, <1>10 DEF Going, n
    <2>3. Ended(n, q, k, m) => Ended(info'[Host], toCore'[Host], k, m) BY <1>3, <1>10 DEF n
    <2> QED BY <2>1, <2>2, <2>3, HallAfter DEF HallOf, n, q
  <1>11. ASSUME toCore'[Host] = Append(q, x) PROVE HallOf(k, m)'
    <2>0. info'[Host] = n BY <1>3 DEF n
    <2>1. CASE Holds(toDb[Host], Ready(k, m))
      <3>1. CASE c = Host /\ p = Ready(k, m)
        <4>1. p.op = "ready" /\ p.pair = k /\ p.map = m BY <3>1 DEF Ready
        <4>2. WeddingReady(c) BY <1>1, <4>1
        <4>3. toCore'[Host] = Append(q, Ready(k, m)) BY <1>1, <1>2, <3>1, <4>2 DEF q
        <4>4. Knows(n, Append(q, Ready(k, m)), Len(Append(q, Ready(k, m))), k, m)
          BY <1>1, <1>2, <3>1, KnowsAppend
        <4>5. \E s \in starts' : s.pair = k /\ s.map = m
          <5>1. starts' = starts \cup {[left |-> Delay, map |-> p.map, pair |-> p.pair]} BY <4>2 DEF WeddingReady
          <5>2. [left |-> Delay, map |-> p.map, pair |-> p.pair] \in starts' BY <5>1
          <5> QED BY <4>1, <5>2
        <4> QED BY <2>0, <4>3, <4>4, <4>5, HallAfter
      <3>2. CASE c = Host /\ p # Ready(k, m)
        <4>1. Holds(toDb[Host], Ready(k, m)) => Head(toDb[Host]) = Ready(k, m) \/ Holds(Tail(toDb[Host]), Ready(k, m))
          <5>1. p \in Asked BY <1>1, HeadIs
          <5> QED BY <1>1, <3>2, <5>1, HoldsMoves
        <4>2. Holds(toDb'[Host], Ready(k, m)) BY <1>1, <2>1, <3>2, <4>1
        <4> QED BY <4>2, HallAfter
      <3>3. CASE c # Host
        <4>1. Holds(toDb'[Host], Ready(k, m)) BY <1>1, <1>2, <2>1, <3>3
        <4> QED BY <4>1, HallAfter
      <3> QED BY <3>1, <3>2, <3>3
    <2>2. CASE Knows(n, q, Len(q), k, m) /\ Going(k, m)
      <3>1. CASE x.pair = k /\ x.op = "end"
        <4>1. Ended(info'[Host], toCore'[Host], k, m) BY <1>8, <1>11, <2>0, <2>2, <3>1
        <4> QED BY <4>1, HallAfter
      <3>2. CASE ~(x.pair = k /\ x.op = "end")
        <4>1. x.op = "remove" => x.pair # k
          <5>1. k \notin parted' BY DEF Plainly
          <5>2. Append(q, x) # q
            <6>1. Len(Append(q, x)) = Len(q) + 1 /\ Len(q) \in Nat BY <1>2, AppendIs
            <6> QED BY <6>1
          <5> QED BY <1>7, <1>11, <5>1, <5>2
        <4>2. x.op = "ready" => x.pair # k
          <5> SUFFICES ASSUME x.op = "ready", x.pair = k PROVE FALSE OBVIOUS
          <5>1. c = Host /\ x = p BY <1>5, <1>7
          <5>2. p = toDb[c][1] /\ 1 \in 1 .. Len(toDb[c]) BY <1>1, HeadIs
          <5>3. Readied(k) BY <5>1, <5>2 DEF Readied, On
          <5> QED BY <1>4, <2>2, <5>3 DEF TokenOf
        <4>3. Knows(info'[Host], toCore'[Host], Len(toCore'[Host]), k, m) BY <1>8, <1>11, <2>0, <2>2, <3>2, <4>1, <4>2
        <4>4. running'[k] = running[k]
          <5>1. x.op = "end" => p.pair # k BY <1>7, <3>2
          <5> HIDE DEF p
          <5> QED BY <1>2, <1>7, <5>1
        <4> QED BY <1>9, <2>2, <4>3, <4>4, HallAfter DEF Going
      <3> QED BY <3>1, <3>2
    <2>3. CASE Ended(n, q, k, m)
      <3>1. Ended(info'[Host], toCore'[Host], k, m) BY <1>8, <1>11, <2>0, <2>3
      <3> QED BY <3>1, HallAfter
    <2> QED BY <2>1, <2>2, <2>3 DEF HallOf, n, q
  <1>12. WeddingReady(c) => toCore'[Host] = Append(q, p) BY <1>1, <1>2 DEF q
  <1>13. CASE WeddingReady(c)
    <2>1. toCore'[Host] = Append(q, x)
      <3>1. Append(q, p) # q
        <4>1. Len(Append(q, p)) = Len(q) + 1 /\ Len(q) \in Nat BY <1>1, <1>2, AppendIs
        <4> QED BY <4>1
      <3> QED BY <1>7, <1>12, <1>13, <3>1
    <2> QED BY <1>11, <2>1
  <1> QED BY <1>7, <1>10, <1>11, <1>13

\* A wedding that starts goes on with its hall, and one that ends sends END to the host.
LEMMA HallTimer ==
    ASSUME TypeInv, CoupleInv, LinkInv, faults = 0, Timer \/ Tick,
           NEW k \in Couple, NEW m, m # 0, TokenOf(k), Plainly(k)', HallOf(k, m)
    PROVE  HallOf(k, m)'
  <1> DEFINE q == toCore[Host]
             n == info[Host]
  <1>1. toDb' = toDb /\ info' = info
    BY DEF Timer, Tick, EndDue, StartDue, core, net, history
  <1>2. Host \in Core /\ up[Host] /\ q \in Seq(Told) BY WeddingAssumption DEF LinkInv, TypeInv, NetType
  <1>3. /\ starts \in SUBSET [left : Nat, map : Nat \ {0}, pair : Couple] /\ ends \in SUBSET [left : Nat, pair : Couple]
        /\ running \in [Couple -> Nat]
    BY DEF TypeInv, DaemonType
  <1>4. Holds(toDb[Host], Ready(k, m)) => HallOf(k, m)' BY <1>1, HallAfter
  <1>5. ASSUME toCore' = toCore,
               Going(k, m) => (\E s \in starts' : s.pair = k /\ s.map = m) \/ running'[k] = m
        PROVE  HallOf(k, m)'
    <2>1. Knows(n, q, Len(q), k, m) /\ Going(k, m) => HallOf(k, m)' BY <1>1, <1>5, HallAfter
    <2>2. Ended(n, q, k, m) => HallOf(k, m)' BY <1>1, <1>5, HallAfter
    <2> QED BY <1>4, <2>1, <2>2 DEF HallOf
  <1>6. ASSUME Tick PROVE HallOf(k, m)'
    <2>1. toCore' = toCore /\ running' = running /\ starts' = {[s EXCEPT !.left = @ - 1] : s \in starts}
      BY <1>6 DEF Tick, net
    <2>2. ASSUME NEW s \in starts PROVE \E t \in starts' : t.pair = s.pair /\ t.map = s.map
      <3>1. [s EXCEPT !.left = @ - 1] \in starts' BY <2>1
      <3>2. [s EXCEPT !.left = @ - 1].pair = s.pair /\ [s EXCEPT !.left = @ - 1].map = s.map BY <1>3
      <3> QED BY <3>1, <3>2
    <2> QED BY <1>5, <2>1, <2>2 DEF Going
  <1>7. ASSUME NEW s \in starts, StartDue(s) PROVE HallOf(k, m)'
    <2>1. /\ starts' = starts \ {s} /\ toCore' = toCore
          /\ running' = IF running[s.pair] = 0 THEN [running EXCEPT ![s.pair] = s.map] ELSE running
      BY <1>7 DEF StartDue, net
    <2>2. s.pair \in Couple BY <1>3
    <2>3. ASSUME NEW t \in starts, t.pair = k, t.map = m
          PROVE  (\E a \in starts' : a.pair = k /\ a.map = m) \/ running'[k] = m
      <3>1. CASE t # s BY <2>1, <2>3, <3>1
      <3>2. CASE t = s
        <4>1. ToStart(k) BY <2>3 DEF ToStart
        <4>2. running[k] = 0 BY <4>1 DEF TokenOf
        <4>3. running' = [running EXCEPT ![k] = m] BY <2>1, <2>3, <3>2, <4>2
        <4> QED BY <1>3, <4>3
      <3> QED BY <3>1, <3>2
    <2>4. running[k] = m => running'[k] = m BY <1>3, <2>1, <2>2
    <2> QED BY <1>5, <2>1, <2>3, <2>4 DEF Going
  <1>8. ASSUME NEW e \in ends, EndDue(e), running[e.pair] = 0 PROVE HallOf(k, m)'
    <2>1. toCore' = toCore /\ starts' = starts /\ running' = running BY <1>8 DEF EndDue
    <2> QED BY <1>5, <2>1 DEF Going
  <1>9. ASSUME NEW e \in ends, EndDue(e), running[e.pair] # 0 PROVE HallOf(k, m)'
    <2> DEFINE p == Packet("end", e.pair)
               r == Append(q, p)
    <2>1. /\ e.pair \in Couple /\ starts' = starts
          /\ running' = [running EXCEPT ![e.pair] = 0] /\ p \in Told
          /\ \/ toCore'[Host] = r
             \/ \E l \in Couple : /\ Packet("remove", l) \in Told /\ (l \in parted' \/ l = e.pair)
                                  /\ toCore'[Host] = Append(r, Packet("remove", l))
      BY <1>2, <1>9, EndTells
    <2>2. p.op = "end" /\ p.pair = e.pair /\ \A l \in Couple : Packet("remove", l).op = "remove" /\ Packet("remove", l).pair = l
      BY <2>1, PacketKinds
    <2> HIDE DEF p, q, n
    <2>3. /\ Knows(n, q, Len(q), k, m) /\ p.pair # k => Knows(n, r, Len(r), k, m)
          /\ Ended(n, q, k, m) => Ended(n, r, k, m)
          /\ Knows(n, q, Len(q), k, m) /\ p.pair = k => Ended(n, r, k, m)
          /\ r \in Seq(Told)
      BY <1>2, <2>1, <2>2, KnowsAppend, AppendIs
    <2> HIDE DEF r
    <2>4. \A l \in Couple : Packet("remove", l) \in Told =>
             /\ Knows(n, r, Len(r), k, m) /\ l # k
                  => Knows(n, Append(r, Packet("remove", l)), Len(Append(r, Packet("remove", l))), k, m)
             /\ Ended(n, r, k, m) => Ended(n, Append(r, Packet("remove", l)), k, m)
      BY <2>2, <2>3, KnowsAppend
    <2>5. /\ Ended(n, r, k, m) => Ended(info'[Host], toCore'[Host], k, m)
          /\ Knows(n, r, Len(r), k, m) /\ e.pair # k => Knows(info'[Host], toCore'[Host], Len(toCore'[Host]), k, m)
      <3>1. info'[Host] = n BY <1>1 DEF n
      <3>2. k \notin parted' BY DEF Plainly
      <3> QED BY <2>1, <2>4, <3>1, <3>2
    <2>6. CASE Knows(n, q, Len(q), k, m) /\ Going(k, m)
      <3>1. CASE e.pair = k
        <4>1. Ended(info'[Host], toCore'[Host], k, m) BY <2>2, <2>3, <2>5, <2>6, <3>1
        <4> QED BY <4>1, HallAfter
      <3>2. CASE e.pair # k
        <4>1. Knows(info'[Host], toCore'[Host], Len(toCore'[Host]), k, m) BY <2>2, <2>3, <2>5, <2>6, <3>2
        <4>2. running'[k] = running[k] BY <1>3, <2>1, <3>2
        <4> QED BY <2>1, <2>6, <4>1, <4>2, HallAfter DEF Going
      <3> QED BY <3>1, <3>2
    <2>7. CASE Ended(n, q, k, m)
      <3>1. Ended(info'[Host], toCore'[Host], k, m) BY <2>3, <2>5, <2>7
      <3> QED BY <3>1, HallAfter
    <2> QED BY <1>4, <2>6, <2>7 DEF HallOf, n, q
  <1> QED BY <1>6, <1>7, <1>8, <1>9 DEF Timer

\* The host knows the hall when it has read READY, and closes it at END.
LEMMA HallCore ==
    ASSUME TypeInv, LinkInv, BondInv, faults = 0, NEW c \in Core, CoreReads(c),
           NEW k \in Couple, NEW m, m # 0, Heard(bond[Host], toCore[Host], k), HallOf(k, m),
           m \in DOMAIN hall, ~(m \in DOMAIN hall' /\ hall'[m].ending = TRUE), m \in DOMAIN hall'
    PROVE  HallOf(k, m)'
  <1> DEFINE p == Head(toCore[c])
  <1>1. /\ toCore[c] # <<>> /\ toCore'[c] = Tail(toCore[c]) /\ \A d \in Core : d # c => toCore'[d] = toCore[d]
        /\ toCore[c] \in Seq(Told) /\ p \in Told /\ p.pair \in Couple
        /\ \A d \in Core : d # c => info'[d] = info[d] /\ toDb'[d] = toDb[d]
        /\ UNCHANGED daemon
        /\ ~CoreRequest(c) => \/ toDb'[c] = toDb[c]
                              \/ toDb'[c] = Append(toDb[c], Packet("request", p.pair))
        /\ CoreRequest(c) => toDb'[c] = toDb[c] \/ toDb'[c] = Append(toDb[c], Ready(p.pair, nextMap))
        /\ Packet("request", p.pair) \in Asked /\ Ready(p.pair, nextMap) \in Asked
        /\ toDb[c] \in Seq(Asked)
    BY CoreMoves
  <1>2. Host \in Core /\ starts' = starts /\ running' = running BY <1>1, WeddingAssumption DEF daemon
  <1>3. CASE c # Host
    <2>1. toCore'[Host] = toCore[Host] /\ info'[Host] = info[Host] /\ toDb'[Host] = toDb[Host] BY <1>1, <1>2, <1>3
    <2> QED BY <1>2, <2>1, HallAfter DEF HallOf, Going
  <1>4. CASE c = Host
    <2> DEFINE q == toCore[Host]
               n == info[Host]
    <2>1. info \in [Core -> [Couple -> Nat]] BY DEF TypeInv, CopyType
    <2>2. Holds(toDb[Host], Ready(k, m)) => Holds(toDb'[Host], Ready(k, m))
      <3> HIDE DEF p
      <3>1. \A z \in Asked : Holds(toDb[Host], Ready(k, m)) => Holds(Append(toDb[Host], z), Ready(k, m))
        BY <1>1, <1>4, HoldsMoves
      <3> QED BY <1>1, <1>4, <3>1
    <2>3. /\ ~(p.pair = k /\ p.op \in {"end", "remove", "ready"}) => info'[Host][k] = n[k]
          /\ p = Ready(k, m) => info'[Host][k] = m
      <3>1. CASE CoreAdd(c) \/ CoreUpdate(c) \/ CoreRequest(c)
        <4>1. info' = info /\ p.op # "ready" BY <3>1 DEF CoreAdd, CoreUpdate, CoreRequest, Receive
        <4>2. Ready(k, m).op = "ready" BY DEF Ready
        <4> QED BY <4>1, <4>2
      <3>2. CASE CoreRemove(c)
        <4>1. info' = [info EXCEPT ![c][p.pair] = 0] /\ p.op = "remove" BY <3>2 DEF CoreRemove, Receive
        <4>2. Ready(k, m).op = "ready" BY DEF Ready
        <4> HIDE DEF p
        <4>3. k # p.pair => info'[Host][k] = info[Host][k] BY <1>1, <1>2, <2>1, <4>1, ChangeOne
        <4> QED BY <4>1, <4>2, <4>3
      <3>3. CASE CoreReady(c)
        <4>1. /\ p.op = "ready"
              /\ info' = IF bond[c][p.pair] = "none" THEN info ELSE [info EXCEPT ![c][p.pair] = p.map]
          BY <3>3 DEF CoreReady, Receive
        <4>2. p.map \in Nat BY <1>1, <4>1, ToldFacts
        <4>3. p.pair = k => bond[Host][k] # "none"
          <5> SUFFICES ASSUME p.pair = k PROVE bond[Host][k] # "none" OBVIOUS
          <5>1. p = q[1] /\ 1 \in 1 .. Len(q) /\ 1 - 1 = 0 BY <1>1, <1>4, HeadIs
          <5>2. IsOn(q, 1, "ready", k) BY <4>1, <5>1 DEF IsOn
          <5>3. Has(bond[Host], q, 0, k) BY <5>1, <5>2 DEF Heard
          <5> QED BY <5>3 DEF Has
        <4>4. Ready(k, m).pair = k /\ Ready(k, m).map = m BY DEF Ready
        <4> HIDE DEF p
        <4>5. [info EXCEPT ![c][p.pair] = p.map][Host][k] = IF k = p.pair THEN p.map ELSE info[Host][k]
          BY <1>1, <1>2, <1>4, <2>1, <4>2, ChangeOne
        <4>6. k # p.pair => info'[Host][k] = info[Host][k] BY <4>1, <4>5
        <4>7. k = p.pair => info'[Host][k] = p.map
          <5> SUFFICES ASSUME k = p.pair PROVE info'[Host][k] = p.map OBVIOUS
          <5>1. info' = [info EXCEPT ![c][p.pair] = p.map] BY <1>4, <4>1, <4>3
          <5> QED BY <4>5, <5>1
        <4> QED BY <4>1, <4>4, <4>6, <4>7
      <3>4. CASE CoreEnd(c)
        <4>1. p.op = "end" /\ (info' = info \/ info' = [info EXCEPT ![c][p.pair] = 0]) BY <3>4 DEF CoreEnd, Receive
        <4>2. Ready(k, m).op = "ready" BY DEF Ready
        <4> HIDE DEF p
        <4>3. [info EXCEPT ![c][p.pair] = 0][Host][k] = IF k = p.pair THEN 0 ELSE info[Host][k]
          BY <1>1, <1>2, <1>4, <2>1, ChangeOne
        <4>4. CASE info' = info BY <4>1, <4>2, <4>4
        <4>5. CASE info' = [info EXCEPT ![c][p.pair] = 0]
          <5>1. k # p.pair => info'[Host][k] = info[Host][k] BY <4>3, <4>5
          <5> QED BY <4>1, <4>2, <5>1
        <4> QED BY <4>1, <4>4, <4>5
      <3> QED BY <3>1, <3>2, <3>3, <3>4 DEF CoreReads
    <2>4. ~(p.op = "end" /\ p.pair = k /\ n[k] = m)
      <3> SUFFICES ASSUME p.op = "end", p.pair = k, n[k] = m PROVE FALSE OBVIOUS
      <3>1. bond[Host][k] # "none" BY <1>2 DEF BondInv
      <3>2. CoreEnd(c)
        BY DEF CoreReads, CoreAdd, CoreUpdate, CoreRemove, CoreRequest, CoreReady, CoreEnd, Receive
      <3>3. hall' = [hall EXCEPT ![m].ending = TRUE] BY <1>4, <3>1, <3>2 DEF CoreEnd
      <3>4. hall'[m].ending = TRUE BY <3>3 DEF TypeInv, HallType
      <3> QED BY <3>4
    <2> HIDE DEF n
    <2>5. ASSUME NEW o, o = info'[Host]
          PROVE  /\ \A j \in 1 .. Len(q) : Knows(n, q, j, k, m) => Knows(o, Tail(q), j - 1, k, m)
                 /\ Ended(n, q, k, m) => Ended(o, Tail(q), k, m)
      <3>1. Head(q) = p /\ q \in Seq(Told) /\ q # <<>> BY <1>1, <1>4
      <3> HIDE DEF p, q
      <3>2. /\ ~(Head(q).pair = k /\ Head(q).op \in {"end", "remove", "ready"}) => o[k] = n[k]
            /\ Head(q) = Ready(k, m) => o[k] = m
        BY <2>3, <2>5, <3>1
      <3>3. ~(Head(q).op = "end" /\ Head(q).pair = k /\ n[k] = m) BY <2>4, <3>1
      <3> QED BY <3>1, <3>2, <3>3, KnowsTail
    <2>6. CASE Holds(toDb[Host], Ready(k, m)) BY <2>2, <2>6, HallAfter
    <2>7. CASE Knows(n, q, Len(q), k, m) /\ Going(k, m)
      <3>1. /\ Len(q) \in 1 .. Len(q) /\ Len(Tail(q)) = Len(q) - 1 BY <1>1, <1>4, HeadIs
      <3>2. Knows(info'[Host], Tail(q), Len(Tail(q)), k, m) BY <2>5, <2>7, <3>1
      <3>3. toCore'[Host] = Tail(q) BY <1>1, <1>4
      <3>4. (\E s \in starts' : s.pair = k /\ s.map = m) \/ running'[k] = m BY <1>2, <2>7 DEF Going
      <3> QED BY <3>2, <3>3, <3>4, HallAfter
    <2>8. CASE Ended(n, q, k, m)
      <3>1. Ended(info'[Host], toCore'[Host], k, m) BY <1>1, <1>4, <2>5, <2>8
      <3> QED BY <3>1, HallAfter
    <2> QED BY <2>6, <2>7, <2>8 DEF HallOf, n
  <1> QED BY <1>3, <1>4

\* There is no hall at the start.
LEMMA HallInit == Init => HallInv
  <1> SUFFICES ASSUME Init PROVE DOMAIN hall = {} BY DEF HallInv
  <1> QED BY DEF Init

\* Every step keeps every hall accounted for.
LEMMA HallStep ==
    TypeInv /\ CoupleInv /\ LinkInv /\ BondInv /\ MapInv /\ OneInv /\ HeardInv /\ HallInv /\ [Next]_vars => HallInv'
  <1> SUFFICES ASSUME TypeInv, CoupleInv, LinkInv, BondInv, MapInv, OneInv, HeardInv, HallInv, [Next]_vars,
                      NEW k \in Couple, NEW m \in DOMAIN hall', hall'[m].pair = k, ~hall'[m].ending, Plainly(k)'
               PROVE  HallOf(k, m)'
    BY DEF HallInv
  <1>0. TypeInv' BY TypeStep
  <1>1. faults' = 0 BY DEF Plainly
  <1>2. /\ faults = 0 /\ Plainly(k)
        /\ \A c \in Core : ~LinkDrops(c) /\ ~CoreCrash(c) /\ ~Reconnect(c)
        /\ ~DaemonRestart
    BY <1>1, PlainBefore
  <1>3. k \in Couple /\ m \in Nat \ {0} BY <1>0 DEF TypeInv, HallType
  <1>4. \/ m \in DOMAIN hall /\ hall[m].pair = k /\ ~hall[m].ending
        \/ m \notin DOMAIN hall
    <2>1. ASSUME hall' = hall PROVE m \in DOMAIN hall /\ hall[m].pair = k /\ ~hall[m].ending BY <2>1
    <2>2. ASSUME NEW c \in Core, CoreRequest(c), m \in DOMAIN hall PROVE hall[m].pair = k /\ ~hall[m].ending
      BY <2>2 DEF CoreRequest, TypeInv, HallType
    <2>3. ASSUME NEW c \in Core, CoreEnd(c) PROVE m \in DOMAIN hall /\ hall[m].pair = k /\ ~hall[m].ending
      <3>1. CASE hall' = hall BY <2>1, <3>1
      <3>2. CASE hall' # hall
        <4>1. hall' = [hall EXCEPT ![info[c][Head(toCore[c]).pair]].ending = TRUE] BY <2>3, <3>2 DEF CoreEnd
        <4> DEFINE x == info[c][Head(toCore[c]).pair]
        <4> HIDE DEF x
        <4>2. hall' = [hall EXCEPT ![x].ending = TRUE] BY <4>1 DEF x
        <4>3. hall \in [DOMAIN hall -> [pair : Couple, ending : BOOLEAN]] BY DEF TypeInv, HallType
        <4>4. m \in DOMAIN hall BY <4>2, <4>3
        <4>5. m # x BY <4>2, <4>3, <4>4
        <4>6. hall'[m] = hall[m] BY <4>2, <4>4, <4>5
        <4> QED BY <4>4, <4>6
      <3> QED BY <3>1, <3>2
    <2>4. ASSUME NEW c \in Core, CoreReads(c), ~CoreRequest(c), ~CoreEnd(c) PROVE hall' = hall BY <2>4, CoreMoves
    <2>5. ASSUME NEW x, DestroyWeddingMap(x) PROVE m \in DOMAIN hall /\ hall[m].pair = k /\ ~hall[m].ending
      BY <2>5 DEF DestroyWeddingMap
    <2>6. ASSUME NEW c \in Core, NEW l \in Couple,
                 RequestAdd(c, l) \/ RequestRemove(c, l) \/ RequestEndWedding(c, l) \/ SetMarried(c, l)
          PROVE  hall' = hall
      BY <2>6 DEF RequestAdd, RequestRemove, RequestEndWedding, SetMarried, Quest
    <2>7. ASSUME NEW c \in Core, DaemonReads(c) PROVE hall' = hall
      BY <2>7 DEF DaemonReads, MarriageAdd, MarriageUpdate, MarriageRemove, WeddingRequest, WeddingReady, EndWedding, Handle, core
    <2>8. Timer \/ Tick => hall' = hall BY DEF Timer, Tick, EndDue, StartDue, core
    <2>9. UNCHANGED vars => hall' = hall BY DEF vars, core
    <2> QED BY <1>2, <2>1, <2>2, <2>3, <2>4, <2>5, <2>6, <2>7, <2>8, <2>9 DEF Next
  <1>5. CASE m \notin DOMAIN hall
    <2>1. PICK c \in Core : CoreReads(c) /\ CoreRequest(c) /\ c = Host /\ hall' # hall
      <3>1. ASSUME NEW c \in Core, CoreReads(c), hall' # hall PROVE CoreRequest(c) /\ c = Host
        <4>1. c = Host BY <3>1, CoreMoves
        <4>2. CoreEnd(c) => DOMAIN hall' = DOMAIN hall BY DEF CoreEnd
        <4>3. CoreRequest(c) \/ CoreEnd(c) BY <3>1, CoreMoves
        <4> QED BY <1>5, <4>1, <4>2, <4>3
      <3>2. hall' # hall BY <1>5
      <3>3. ~UNCHANGED vars /\ ~Timer /\ ~Tick BY <3>2 DEF vars, core, Timer, Tick, EndDue, StartDue
      <3>4. ASSUME NEW c \in Core PROVE ~DaemonReads(c)
        BY <3>2 DEF DaemonReads, MarriageAdd, MarriageUpdate, MarriageRemove, WeddingRequest, WeddingReady, EndWedding, Handle, core
      <3>5. ASSUME NEW c \in Core, NEW l \in Couple
            PROVE  ~RequestAdd(c, l) /\ ~RequestRemove(c, l) /\ ~RequestEndWedding(c, l) /\ ~SetMarried(c, l)
        BY <3>2 DEF RequestAdd, RequestRemove, RequestEndWedding, SetMarried, Quest
      <3>6. \A x : ~DestroyWeddingMap(x) BY <1>5 DEF DestroyWeddingMap
      <3> QED BY <1>2, <3>1, <3>2, <3>3, <3>4, <3>5, <3>6 DEF Next
    <2> DEFINE p == Head(toCore[c])
    <2>2. hall' = [x \in DOMAIN hall \cup {nextMap} |->
                      IF x = nextMap THEN [pair |-> p.pair, ending |-> FALSE] ELSE hall[x]]
      BY <2>1 DEF CoreRequest
    <2>3. m = nextMap /\ k = p.pair BY <1>5, <2>2
    <2>4. toDb'[Host] = Append(toDb[Host], Ready(p.pair, nextMap)) /\ toDb[Host] \in Seq(Asked)
          /\ Ready(p.pair, nextMap) \in Asked
      <3>1. up[c] BY <1>2 DEF LinkInv
      <3> QED BY <2>1, <3>1, CoreMoves
    <2> HIDE DEF p
    <2>5. Holds(Append(toDb[Host], Ready(k, m)), Ready(k, m)) BY <2>3, <2>4, HoldsMoves
    <2>6. Holds(toDb'[Host], Ready(k, m)) BY <2>3, <2>4, <2>5
    <2>7. HallOf(k, m)' BY <2>6, HallAfter
    <2> QED BY <2>7
  <1>6. CASE m \in DOMAIN hall
    <2>1. hall[m].pair = k /\ ~hall[m].ending BY <1>4, <1>6
    <2>2. ASSUME NEW l \in Couple, l = k PROVE HallOf(l, m)'
      <3>1. Plainly(l) /\ Plainly(l)' /\ HallOf(l, m) /\ m # 0 /\ hall[m].pair = l
        BY <1>2, <1>3, <1>6, <2>1, <2>2 DEF HallInv, Plainly
      <3>2. TokenOf(l) /\ Heard(bond[Host], toCore[Host], l) BY <3>1 DEF OneInv, HeardInv
      <3>3. UNCHANGED vars \/ (\E x \in Map : DestroyWeddingMap(x)) => HallOf(l, m)'
        <4>1. UNCHANGED vars \/ (\E x \in Map : DestroyWeddingMap(x)) => UNCHANGED <<toDb, toCore, info, starts, running>>
          BY DEF vars, daemon, core, net, DestroyWeddingMap
        <4>2. UNCHANGED <<toDb, toCore, info, starts, running>> => HallOf(l, m)'
          BY <3>1, HallAfter DEF HallOf, Going
        <4> QED BY <4>1, <4>2
      <3>4. ASSUME NEW c \in Core, CoreReads(c) PROVE HallOf(l, m)'
        <4>1. ~(m \in DOMAIN hall' /\ hall'[m].ending = TRUE) OBVIOUS
        <4> QED BY <1>2, <1>6, <3>1, <3>2, <3>4, <4>1, HallCore
      <3>5. ASSUME NEW c \in Core, DaemonReads(c) PROVE HallOf(l, m)'
        BY <1>2, <3>1, <3>2, <3>5, HallDaemon
      <3>6. ASSUME Timer \/ Tick PROVE HallOf(l, m)'
        BY <1>2, <3>1, <3>2, <3>6, HallTimer
      <3>7. ASSUME NEW c \in Core, NEW a \in Couple,
                   RequestAdd(c, a) \/ RequestRemove(c, a) \/ RequestEndWedding(c, a) \/ SetMarried(c, a)
            PROVE  HallOf(l, m)'
        BY <3>1, <3>7, HallQuest
      <3> QED BY <1>2, <3>3, <3>4, <3>5, <3>6, <3>7 DEF Next
    <2> QED BY <1>3, <2>2
  <1> QED BY <1>5, <1>6

\* The three ways are those of HallWillClose, with the end that is planned for a
\* wedding that is on.
LEMMA CloseIs == TypeInv /\ OneInv /\ HallInv => HallWillClose
  <1> SUFFICES ASSUME TypeInv, OneInv, HallInv, NEW m \in DOMAIN hall, ~hall[m].ending, ~Excused(hall[m].pair)
               PROVE  LET k == hall[m].pair
                      IN \/ \E i \in 1 .. Len(toDb[Host]) : toDb[Host][i] = Ready(k, m)
                         \/ /\ WillKnow(k, m)
                            /\ \/ \E s \in starts : s.pair = k /\ s.map = m
                               \/ running[k] = m /\ \E e \in ends : e.pair = k
                               \/ On(toCore[Host], "end", k)
    BY DEF HallWillClose
  <1> DEFINE k == hall[m].pair
  <1>1. k \in Couple /\ m # 0 BY DEF TypeInv, HallType
  <1>2. faults = 0 /\ Plainly(k) BY DEF Excused, Plainly, TypeInv, HistoryType
  <1>3. HallOf(k, m) /\ TokenOf(k) BY <1>1, <1>2 DEF HallInv, OneInv
  <1>4. toCore[Host] \in Seq(Told) BY WeddingAssumption DEF TypeInv, NetType
  <1> HIDE DEF k
  <1>5. ASSUME NEW j \in 0 .. Len(toCore[Host]), Knows(info[Host], toCore[Host], j, k, m) PROVE WillKnow(k, m)
    <2>1. \A i \in 1 .. j : i \in 1 .. Len(toCore[Host]) BY <1>4
    <2> QED BY <1>5, <2>1 DEF Knows, WillKnow
  <1>6. CASE Holds(toDb[Host], Ready(k, m)) BY <1>6 DEF Holds, k
  <1>7. CASE Knows(info[Host], toCore[Host], Len(toCore[Host]), k, m) /\ Going(k, m)
    <2>1. Len(toCore[Host]) \in 0 .. Len(toCore[Host]) BY <1>4
    <2>2. WillKnow(k, m) BY <1>5, <1>7, <2>1
    <2>3. running[k] = m => \E e \in ends : e.pair = k BY <1>1, <1>3 DEF TokenOf, ToEnd
    <2> QED BY <1>7, <2>2, <2>3 DEF Going, k
  <1>8. CASE Ended(info[Host], toCore[Host], k, m)
    <2>1. PICK i \in 1 .. Len(toCore[Host]) : IsOn(toCore[Host], i, "end", k) /\ Knows(info[Host], toCore[Host], i - 1, k, m)
      BY <1>8 DEF Ended
    <2>2. i - 1 \in 0 .. Len(toCore[Host]) BY <1>4
    <2>3. WillKnow(k, m) BY <1>5, <2>1, <2>2
    <2>4. On(toCore[Host], "end", k) BY <2>1 DEF On, IsOn
    <2> QED BY <2>3, <2>4 DEF k
  <1> QED BY <1>3, <1>6, <1>7, <1>8 DEF HallOf

-----------------------------------------------------------------------------
(* The invariant and what follows from it *)

IInv ==
    /\ TypeInv /\ CoupleInv /\ LinkInv /\ BondInv /\ CopyInv
    /\ MapInv /\ ShowInv /\ OneInv /\ HeardInv /\ HallInv

\* What the daemon, its timer, the cores and the quests of the players rely on of each
\* other holds throughout, whatever connection or process fails.
THEOREM Invariant == Spec => []IInv
  <1>1. Init => IInv
    BY TypeInit, CoupleInit, LinkInit, CopyInit, MapInit, ShowInit, TokenInit, HallInit DEF IInv
  <1>2. IInv /\ [Next]_vars => IInv'
    <2> SUFFICES ASSUME IInv, [Next]_vars PROVE IInv' OBVIOUS
    <2>1. TypeInv' /\ CoupleInv' /\ LinkInv' /\ BondInv'
      BY TypeStep, CoupleStep, LinkStep, BondStep DEF IInv
    <2>2. CopyInv' /\ MapInv' /\ ShowInv' BY CopyStep, MapStep, ShowStep DEF IInv
    <2>3. OneInv' /\ HeardInv' /\ HallInv' BY TokenStep, HeardStep, HallStep DEF IInv
    <2> QED BY <2>1, <2>2, <2>3 DEF IInv
  <1> QED BY <1>1, <1>2, PTL DEF Spec

\* The copy of a core that missed nothing is the daemon's for every couple that no packet
\* is about on its way: CManager::Add, Update and Remove of the daemon tell every core,
\* and a core does what it is told whatever it asked for meanwhile, reconnections and
\* restarts included.
THEOREM CopiesAgree == Spec => []Agree
  <1>1. IInv => Agree BY AgreeIs DEF IInv
  <1> QED BY <1>1, Invariant, PTL

\* A wedding that a core shows (pWeddingInfo) is one the daemon plans or runs, or the END
\* or REMOVE that takes it away is on its way (for the host, while nothing has failed):
\* the timer and the handlers of the daemon forget no wedding without telling the cores.
THEOREM ShownWeddingIsReal == Spec => []WeddingIsReal
  <1>1. IInv => WeddingIsReal BY RealIs DEF IInv
  <1> QED BY <1>1, Invariant, PTL

\* The hall of a wedding that no fault, second request or other parting disturbed is not
\* left open: its READY is on its way to the daemon, or the daemon plans to start or to
\* end the wedding or END is on its way, and the host will know of the hall by then
\* (WeddingManager::End finds it through pWeddingInfo).
THEOREM HallsWillClose == Spec => []HallWillClose
  <1>1. IInv => HallWillClose BY CloseIs DEF IInv
  <1> QED BY <1>1, Invariant, PTL
=============================================================================
