-------------------------- MODULE GuildWar_proofs --------------------------
(***************************************************************************)
(* A war that is on for a core is one the daemon has, or the packet that   *)
(* ends it is on its way, for any number of wars and reservations.  The    *)
(* inductive invariant says the same of a war whose ON_WAR packet is on    *)
(* its way: fight has it, or the packet that ends it is further behind.    *)
(* The stakes of reserved wars follow.                                     *)
(***************************************************************************)
EXTENDS GuildWar, FiniteSetTheorems, TLAPS

Ending(w) == {Msg(op, w) : op \in {"end", "over", "cancel"}}

\* The packet that ends the war comes after the i-th.
EndsAfter(s, i, w) == \E j \in i + 1 .. Len(s) : s[j] \in Ending(w)

IsSeq(s) == \E S : s \in Seq(S)

WarsOK ==
    /\ fight = [w \in War |-> fight[w]]
    /\ listed \subseteq War /\ declared \subseteq War
    /\ IsFiniteSet(waiting)

LinkOK ==
    /\ IsSeq(dg)
    /\ ~up => dg = <<>> /\ listed = {}

Followed ==
    /\ \A w \in listed : fight[w] # NoWar \/ EndsAfter(dg, 0, w)
    /\ \A w \in War : \A i \in 1 .. Len(dg) :
          dg[i] = Msg("on", w) => fight[w] # NoWar \/ EndsAfter(dg, i, w)

IInv == WarsOK /\ LinkOK /\ Followed

-----------------------------------------------------------------------------
(* Packets and sequences of them *)

LEMMA MsgIs ==
    ASSUME NEW a, NEW b, NEW v, NEW w
    PROVE  Msg(a, v) = Msg(b, w) <=> a = b /\ v = w
  BY DEF Msg

LEMMA EndingIs ==
    ASSUME NEW op, NEW v, NEW w
    PROVE  Msg(op, v) \in Ending(w) <=> op \in {"end", "over", "cancel"} /\ v = w
  BY MsgIs DEF Ending

LEMMA Joined ==
    ASSUME NEW s, NEW t, IsSeq(s), IsSeq(t)
    PROVE  /\ IsSeq(s \o t)
           /\ Len(s) \in Nat /\ Len(t) \in Nat /\ Len(s \o t) = Len(s) + Len(t)
           /\ \A i \in 1 .. Len(s) : (s \o t)[i] = s[i]
           /\ \A i \in 1 .. Len(t) : (s \o t)[Len(s) + i] = t[i]
  <1>1. PICK S : s \in Seq(S) BY DEF IsSeq
  <1>2. PICK T : t \in Seq(T) BY DEF IsSeq
  <1>3. s \in Seq(S \cup T) /\ t \in Seq(S \cup T) BY <1>1, <1>2
  <1>4. s \o t \in Seq(S \cup T) BY <1>3
  <1> QED BY <1>3, <1>4 DEF IsSeq

LEMMA Rest ==
    ASSUME NEW s, IsSeq(s), s # <<>>
    PROVE  /\ IsSeq(Tail(s))
           /\ Len(s) \in Nat /\ Len(s) >= 1 /\ Len(Tail(s)) = Len(s) - 1
           /\ Head(s) = s[1]
           /\ \A i \in 1 .. Len(s) - 1 : Tail(s)[i] = s[i + 1]
  <1>1. PICK S : s \in Seq(S) BY DEF IsSeq
  <1>2. Tail(s) \in Seq(S) BY <1>1
  <1> QED BY <1>1, <1>2 DEF IsSeq

LEMMA One == ASSUME NEW x PROVE IsSeq(<<x>>) /\ Len(<<x>>) = 1 /\ <<x>>[1] = x
  <1>1. <<x>> \in Seq({x}) OBVIOUS
  <1> QED BY <1>1 DEF IsSeq

LEMMA None == IsSeq(<<>>) /\ Len(<<>>) = 0
  <1>1. <<>> \in Seq({}) OBVIOUS
  <1> QED BY <1>1 DEF IsSeq

\* SetToSeq lists a finite set.
LEMMA Listing ==
    ASSUME NEW S, IsFiniteSet(S)
    PROVE  /\ IsSeq(SetToSeq(S)) /\ Len(SetToSeq(S)) \in Nat
           /\ \A i \in 1 .. Len(SetToSeq(S)) : SetToSeq(S)[i] \in S
           /\ \A x \in S : \E i \in 1 .. Len(SetToSeq(S)) : SetToSeq(S)[i] = x
  <1> DEFINE n == Cardinality(S)
             s == SetToSeq(S)
  <1>1. n \in Nat /\ ExistsBijection(1 .. n, S) BY FS_CardinalityType
  <1>2. s = CHOOSE f \in [1 .. n -> S] : IsInjective(f) BY DEF SetToSeq
  <1>3. \E f \in [1 .. n -> S] : IsInjective(f)
    BY <1>1 DEF ExistsBijection, Bijection, Injection
  <1>4. s \in [1 .. n -> S] /\ IsInjective(s) BY <1>2, <1>3
  <1> HIDE DEF s
  <1>5. s \in Injection(1 .. n, S) BY <1>4 DEF Injection
  <1>6. Cardinality(1 .. n) = n BY <1>1, FS_Interval
  <1> HIDE DEF n
  <1>7. s \in Surjection(1 .. n, S)
    <2>1. Cardinality(S) = n BY DEF n
    <2> QED BY <1>5, <1>6, <2>1, FS_Injection
  <1>8. s \in Seq(S) /\ Len(s) = n BY <1>1, <1>4
  <1>9. \A x \in S : \E i \in 1 .. n : s[i] = x BY <1>7 DEF Surjection
  <1>10. \A i \in 1 .. n : s[i] \in S BY <1>4
  <1> QED BY <1>1, <1>8, <1>9, <1>10 DEF IsSeq, s

LEMMA ImageFinite ==
    ASSUME NEW f, IsFiniteSet(DOMAIN f), f = [x \in DOMAIN f |-> f[x]]
    PROVE  IsFiniteSet({f[x] : x \in DOMAIN f})
  <1> DEFINE T == {f[x] : x \in DOMAIN f}
  <1>1. f \in Surjection(DOMAIN f, T) BY DEF Surjection
  <1> HIDE DEF T
  <1>2. IsFiniteSet(T) BY <1>1, FS_Surjection
  <1> QED BY <1>2 DEF T

LEMMA MsgsAre ==
    ASSUME NEW op, NEW ws, IsFiniteSet(ws)
    PROVE  /\ IsSeq(Msgs(op, ws)) /\ Len(Msgs(op, ws)) \in Nat
           /\ \A i \in 1 .. Len(Msgs(op, ws)) : \E w \in ws : Msgs(op, ws)[i] = Msg(op, w)
           /\ \A w \in ws : \E i \in 1 .. Len(Msgs(op, ws)) : Msgs(op, ws)[i] = Msg(op, w)
  <1> DEFINE f == [w \in ws |-> Msg(op, w)]
             T == {Msg(op, w) : w \in ws}
  <1>1. DOMAIN f = ws /\ T = {f[w] : w \in DOMAIN f} OBVIOUS
  <1>2. IsFiniteSet({f[w] : w \in DOMAIN f})
    <2>1. f = [x \in DOMAIN f |-> f[x]] OBVIOUS
    <2>2. IsFiniteSet(DOMAIN f) BY <1>1
    <2> HIDE DEF f
    <2> QED BY <2>1, <2>2, ImageFinite
  <1>3. IsFiniteSet(T) BY <1>1, <1>2
  <1>4. Msgs(op, ws) = SetToSeq(T) BY DEF Msgs
  <1> HIDE DEF T
  <1>5. /\ IsSeq(SetToSeq(T)) /\ Len(SetToSeq(T)) \in Nat
        /\ \A i \in 1 .. Len(SetToSeq(T)) : SetToSeq(T)[i] \in T
        /\ \A x \in T : \E i \in 1 .. Len(SetToSeq(T)) : SetToSeq(T)[i] = x
    BY <1>3, Listing
  <1>6. \A x \in T : \E w \in ws : x = Msg(op, w) BY DEF T
  <1>7. \A w \in ws : Msg(op, w) \in T BY DEF T
  <1> QED BY <1>4, <1>5, <1>6, <1>7

-----------------------------------------------------------------------------
(* What the daemon sends *)

\* Packets are sent along with what they say: a war that ends is told so, and
\* only a war that is on is told to be on.
LEMMA Forwarded ==
    ASSUME LinkOK, Followed, WarsOK, NEW m, IsSeq(m),
           dg' = IF up THEN dg \o m ELSE dg,
           up' = up, listed' = listed,
           \A w \in War : fight[w] # NoWar => fight'[w] # NoWar \/ EndsAfter(m, 0, w),
           \A w \in War : \A i \in 1 .. Len(m) :
               m[i] = Msg("on", w) => fight'[w] # NoWar
    PROVE  LinkOK' /\ Followed'
  <1>1. CASE ~up
    <2>1. dg' = <<>> /\ listed' = {} /\ ~up' BY <1>1 DEF LinkOK
    <2>2. IsSeq(dg') /\ Len(dg') = 0 BY <2>1, None
    <2> QED BY <2>1, <2>2 DEF LinkOK, Followed
  <1>2. CASE up
    <2>1. dg' = dg \o m /\ IsSeq(dg) BY <1>2 DEF LinkOK
    <2>2. /\ IsSeq(dg') /\ Len(dg) \in Nat /\ Len(m) \in Nat /\ Len(dg') = Len(dg) + Len(m)
          /\ \A i \in 1 .. Len(dg) : dg'[i] = dg[i]
          /\ \A i \in 1 .. Len(m) : dg'[Len(dg) + i] = m[i]
      BY <2>1, Joined
    <2>3. ASSUME NEW w \in War, NEW i \in 0 .. Len(dg), fight[w] # NoWar \/ EndsAfter(dg, i, w)
          PROVE  fight'[w] # NoWar \/ EndsAfter(dg', i, w)
      <3>1. CASE EndsAfter(dg, i, w)
        <4>1. PICK j \in i + 1 .. Len(dg) : dg[j] \in Ending(w) BY <3>1 DEF EndsAfter
        <4>2. j \in i + 1 .. Len(dg') /\ dg'[j] = dg[j] BY <2>2, <4>1
        <4> QED BY <4>1, <4>2 DEF EndsAfter
      <3>2. CASE fight[w] # NoWar /\ fight'[w] = NoWar
        <4>1. PICK j \in 1 .. Len(m) : m[j] \in Ending(w) BY <3>2 DEF EndsAfter
        <4>2. Len(dg) + j \in i + 1 .. Len(dg') /\ dg'[Len(dg) + j] = m[j] BY <2>2, <4>1
        <4> QED BY <4>1, <4>2 DEF EndsAfter
      <3> QED BY <2>3, <3>1, <3>2
    <2>4. \A w \in listed' : fight'[w] # NoWar \/ EndsAfter(dg', 0, w)
      <3>1. 0 \in 0 .. Len(dg) BY <2>2
      <3>2. listed' \subseteq War BY DEF WarsOK
      <3>3. \A w \in listed' : fight[w] # NoWar \/ EndsAfter(dg, 0, w) BY DEF Followed
      <3> QED BY <2>3, <3>1, <3>2, <3>3
    <2>5. ASSUME NEW w \in War, NEW i \in 1 .. Len(dg'), dg'[i] = Msg("on", w)
          PROVE  fight'[w] # NoWar \/ EndsAfter(dg', i, w)
      <3>1. CASE i <= Len(dg)
        <4>1. i \in 1 .. Len(dg) /\ dg[i] = Msg("on", w) BY <2>2, <2>5, <3>1
        <4>2. fight[w] # NoWar \/ EndsAfter(dg, i, w) BY <4>1 DEF Followed
        <4> QED BY <2>2, <2>3, <4>1, <4>2
      <3>2. CASE i > Len(dg)
        <4>1. i - Len(dg) \in 1 .. Len(m) /\ Len(dg) + (i - Len(dg)) = i BY <2>2, <3>2
        <4>2. m[i - Len(dg)] = Msg("on", w) BY <2>2, <2>5, <4>1
        <4> QED BY <4>1, <4>2
      <3> QED BY <2>2, <3>1, <3>2
    <2> QED BY <1>2, <2>2, <2>4, <2>5 DEF LinkOK, Followed
  <1> QED BY <1>1, <1>2

\* One packet about the war w, which is the only one that may have ended.
LEMMA ForwardedOne ==
    ASSUME LinkOK, Followed, WarsOK, NEW op, NEW w,
           Forward(<<Msg(op, w)>>), up' = up, listed' = listed,
           op = "on" => fight'[w] # NoWar,
           \A v \in War : fight[v] # NoWar =>
               fight'[v] # NoWar \/ (v = w /\ op \in {"end", "over", "cancel"})
    PROVE  LinkOK' /\ Followed'
  <1> DEFINE m == <<Msg(op, w)>>
  <1>1. IsSeq(m) /\ Len(m) = 1 /\ m[1] = Msg(op, w) BY One
  <1>2. dg' = IF up THEN dg \o m ELSE dg BY DEF Forward
  <1> HIDE DEF m
  <1>3. \A v \in War : fight[v] # NoWar => fight'[v] # NoWar \/ EndsAfter(m, 0, v)
    BY <1>1, EndingIs DEF EndsAfter
  <1>4. \A v \in War : \A i \in 1 .. Len(m) : m[i] = Msg("on", v) => fight'[v] # NoWar
    BY <1>1, MsgIs
  <1> QED BY <1>1, <1>2, <1>3, <1>4, Forwarded

LEMMA ForwardedNone ==
    ASSUME LinkOK, Followed, UNCHANGED <<dg, up, listed, fight>>
    PROVE  LinkOK' /\ Followed'
  BY DEF LinkOK, Followed, EndsAfter

LEMMA Removed ==
    ASSUME WarsOK, NEW w \in War, RemoveWar(w)
    PROVE  fight' = [v \in War |-> fight'[v]]
           /\ \A v \in War : v # w => fight'[v] = fight[v]
  BY DEF WarsOK, RemoveWar

LEMMA ReceiveInv ==
    ASSUME IInv, NEW w \in War,
           \/ AddDeclare(w) \/ RemoveDeclare(w) \/ StartFieldWar(w)
           \/ \E r \in Reservation : ReserveWar(w, r)
           \/ ReserveWarFails(w)
           \/ \E op \in {"over", "draw"}, won \in BOOLEAN : RecvWarOver(w, op, won)
           \/ RecvWarEnd(w) \/ CancelWar(w)
    PROVE  IInv'
  <1> USE GuildWarAssumption DEF IInv
  <1>0. up' = up /\ listed' = listed /\ waiting' = waiting
    BY DEF AddDeclare, RemoveDeclare, StartFieldWar, ReserveWar, ReserveWarFails, RecvWarOver,
           RecvWarEnd, CancelWar, Receive, core
  <1>1. ASSUME fight' = [v \in War |-> fight'[v]],
               declared' \in {declared, declared \cup {w}, declared \ {w}}
        PROVE  WarsOK'
    BY <1>0, <1>1 DEF WarsOK
  <1>2. ASSUME NEW op, op # "on", Forward(<<Msg(op, w)>>), fight' = fight,
               declared' \in {declared, declared \cup {w}, declared \ {w}}
        PROVE  IInv'
    <2>1. LinkOK' /\ Followed' BY <1>0, <1>2, ForwardedOne
    <2>2. fight' = [v \in War |-> fight'[v]] BY <1>2 DEF WarsOK
    <2> QED BY <1>1, <1>2, <2>1, <2>2
  <1>3. ASSUME NEW op \in {"end", "over", "cancel"}, Forward(<<Msg(op, w)>>), RemoveWar(w),
               declared' \in {declared, declared \cup {w}, declared \ {w}}
        PROVE  IInv'
    <2>1. LinkOK' /\ Followed' BY <1>0, <1>3, Removed, ForwardedOne
    <2> QED BY <1>1, <1>3, <2>1, Removed
  <1>4. CASE AddDeclare(w) BY <1>2, <1>4 DEF AddDeclare
  <1>5. CASE RemoveDeclare(w) BY <1>2, <1>5 DEF RemoveDeclare
  <1>6. CASE StartFieldWar(w)
    <2>1. fight' = [fight EXCEPT ![w] = [clock |-> <<0, starts>>, res |-> NoReservation]]
      BY <1>6 DEF StartFieldWar
    <2>2. [clock |-> <<0, starts>>, res |-> NoReservation] # NoWar BY DEF NoWar
    <2>3. /\ fight' = [v \in War |-> fight'[v]] /\ fight'[w] # NoWar
          /\ \A v \in War : v # w => fight'[v] = fight[v]
      BY <2>1, <2>2 DEF WarsOK
    <2>4. Forward(<<Msg("on", w)>>) /\ declared' = declared \ {w} BY <1>6 DEF StartFieldWar
    <2>5. LinkOK' /\ Followed' BY <1>0, <2>3, <2>4, ForwardedOne
    <2> QED BY <1>1, <2>3, <2>4, <2>5
  <1>7. ASSUME NEW r \in Reservation, ReserveWar(w, r) PROVE IInv'
    BY <1>2, <1>7 DEF ReserveWar
  <1>8. CASE ReserveWarFails(w) BY <1>2, <1>8 DEF ReserveWarFails
  <1>9. ASSUME NEW op, NEW won, RecvWarOver(w, op, won) PROVE IInv'
    BY <1>3, <1>9 DEF RecvWarOver
  <1>10. CASE RecvWarEnd(w)
    <2>1. RemoveWar(w) /\ declared' = declared BY <1>10 DEF RecvWarEnd
    <2>2. CASE fight[w] # NoWar
      <3>1. Forward(<<Msg("end", w)>>) BY <1>10, <2>2 DEF RecvWarEnd, WarEnd
      <3> QED BY <1>3, <2>1, <3>1
    <2>3. CASE fight[w] = NoWar
      <3>1. Forward(<<>>) BY <1>10, <2>3 DEF RecvWarEnd, WarEnd
      <3>2. fight' = fight BY <2>1, <2>3 DEF RemoveWar, WarsOK
      <3>3. dg' = dg
        <4>1. PICK S : dg \in Seq(S) BY DEF LinkOK, IsSeq
        <4>2. dg \o <<>> = dg BY <4>1
        <4> QED BY <3>1, <4>2 DEF Forward
      <3>4. LinkOK' /\ Followed' BY <1>0, <3>2, <3>3, ForwardedNone
      <3>5. fight' = [v \in War |-> fight'[v]] BY <3>2 DEF WarsOK
      <3> QED BY <1>1, <2>1, <3>4, <3>5
    <2> QED BY <2>2, <2>3
  <1>11. CASE CancelWar(w) BY <1>3, <1>11 DEF CancelWar
  <1> QED BY <1>4, <1>5, <1>6, <1>7, <1>8, <1>9, <1>10, <1>11

\* The wars that begin, and the queue of those that wait, are finitely many.
LEMMA HeartbeatInv ==
    ASSUME IInv, Heartbeat
    PROVE  IInv'
  <1> USE GuildWarAssumption DEF IInv
  <1>0. PICK top \in [Ready -> Queue] : \E last \in [Begins(top) -> Ready] : Update(top, last)
    BY DEF Heartbeat
  <1>1. PICK last \in [Begins(top) -> Ready] : Update(top, last) BY <1>0
  <1> DEFINE waits == {row[r].war : r \in Due}
             begins == Begins(top)
  <1>2. /\ waiting' = Queue \ Ready
        /\ fight' = [w \in War |->
                       IF w \in begins
                       THEN [clock |-> <<last[w].res, 0>>, res |-> top[last[w]].res]
                       ELSE IF w \in Ended THEN NoWar ELSE fight[w]]
        /\ dg' = IF up THEN dg \o (Msgs("wait", waits) \o Msgs("end", Ended) \o Msgs("on", begins))
                       ELSE dg
        /\ up' = up /\ listed' = listed /\ declared' = declared
    BY <1>1 DEF Heartbeat, Update, core, Forward
  <1>3. IsFiniteSet(Due) BY FS_Subset DEF Due
  <1>4. IsFiniteSet(Queue)
    <2> DEFINE f == [r \in Due |-> [at |-> now + 1 + WaitTime, res |-> r]]
    <2>1. f = [r \in DOMAIN f |-> f[r]] /\ DOMAIN f = Due OBVIOUS
    <2>2. {[at |-> now + 1 + WaitTime, res |-> r] : r \in Due} = {f[r] : r \in DOMAIN f} OBVIOUS
    <2> HIDE DEF f
    <2>3. IsFiniteSet({f[r] : r \in DOMAIN f}) BY <1>3, <2>1, ImageFinite
    <2>4. IsFiniteSet(waiting) BY DEF WarsOK
    <2> QED BY <2>2, <2>3, <2>4, FS_Union DEF Queue
  <1>5. IsFiniteSet(waits)
    <2> DEFINE f == [r \in Due |-> row[r].war]
    <2>1. f = [r \in DOMAIN f |-> f[r]] /\ DOMAIN f = Due OBVIOUS
    <2>2. waits = {f[r] : r \in DOMAIN f} OBVIOUS
    <2> HIDE DEF f, waits
    <2>3. IsFiniteSet({f[r] : r \in DOMAIN f}) BY <1>3, <2>1, ImageFinite
    <2> QED BY <2>2, <2>3
  <1>6. IsFiniteSet(Ended) /\ Ended \subseteq War BY FS_Subset DEF Ended
  <1>7. IsFiniteSet(begins)
    <2>0. IsFiniteSet(Ready) BY <1>4, FS_Subset DEF Ready
    <2> DEFINE f == [e \in Ready |-> WarOf(top[e])]
    <2>1. f = [e \in DOMAIN f |-> f[e]] /\ DOMAIN f = Ready OBVIOUS
    <2>2. begins = {f[e] : e \in DOMAIN f} BY DEF Begins
    <2> HIDE DEF f, begins
    <2>3. IsFiniteSet({f[e] : e \in DOMAIN f}) BY <2>0, <2>1, ImageFinite
    <2> QED BY <2>2, <2>3
  <1> HIDE DEF waits, begins
  <1>8. /\ \A w \in War : w \in begins => fight'[w] # NoWar
        /\ \A w \in War : fight'[w] = NoWar => fight[w] = NoWar \/ w \in Ended
        /\ fight' = [w \in War |-> fight'[w]]
    <2>1. \A x, y : [clock |-> <<x, 0>>, res |-> y] # NoWar BY DEF NoWar
    <2> QED BY <1>2, <2>1
  <1>9. WarsOK'
    <2>1. IsFiniteSet(waiting') BY <1>2, <1>4, FS_Subset
    <2> QED BY <1>2, <1>8, <2>1 DEF WarsOK
  <1>10. PICK W : W = waits OBVIOUS
  <1>11. PICK E : E = Ended OBVIOUS
  <1>12. PICK B : B = begins OBVIOUS
  <1> DEFINE first == Msgs("wait", W) \o Msgs("end", E)
             m == first \o Msgs("on", B)
  <1>13. /\ IsSeq(Msgs("wait", W)) /\ Len(Msgs("wait", W)) \in Nat
         /\ \A i \in 1 .. Len(Msgs("wait", W)) : \E w \in W : Msgs("wait", W)[i] = Msg("wait", w)
    BY <1>5, <1>10, MsgsAre
  <1>14. /\ IsSeq(Msgs("end", E)) /\ Len(Msgs("end", E)) \in Nat
         /\ \A i \in 1 .. Len(Msgs("end", E)) : \E w \in E : Msgs("end", E)[i] = Msg("end", w)
         /\ \A w \in E : \E i \in 1 .. Len(Msgs("end", E)) : Msgs("end", E)[i] = Msg("end", w)
    <2>1. IsFiniteSet(E) BY <1>6, <1>11
    <2> QED BY <2>1, MsgsAre, Zenon
  <1>15. /\ IsSeq(Msgs("on", B)) /\ Len(Msgs("on", B)) \in Nat
         /\ \A i \in 1 .. Len(Msgs("on", B)) : \E w \in B : Msgs("on", B)[i] = Msg("on", w)
    BY <1>7, <1>12, MsgsAre
  <1>16. /\ IsSeq(first) /\ Len(first) = Len(Msgs("wait", W)) + Len(Msgs("end", E))
         /\ \A i \in 1 .. Len(Msgs("wait", W)) : first[i] = Msgs("wait", W)[i]
         /\ \A i \in 1 .. Len(Msgs("end", E)) :
               first[Len(Msgs("wait", W)) + i] = Msgs("end", E)[i]
    BY <1>13, <1>14, Joined
  <1> HIDE DEF first
  <1>17. /\ IsSeq(m) /\ Len(m) = Len(first) + Len(Msgs("on", B)) /\ Len(first) \in Nat
         /\ \A i \in 1 .. Len(first) : m[i] = first[i]
         /\ \A i \in 1 .. Len(Msgs("on", B)) : m[Len(first) + i] = Msgs("on", B)[i]
    <2>1. PICK t : t = Msgs("on", B) OBVIOUS
    <2>2. IsSeq(first) /\ IsSeq(t) BY <1>15, <1>16, <2>1
    <2>3. m = first \o t BY <2>1
    <2> HIDE DEF m
    <2> QED BY <2>1, <2>2, <2>3, Joined
  <1>18. dg' = IF up THEN dg \o m ELSE dg
    BY <1>2, <1>10, <1>11, <1>12 DEF first
  <1> HIDE DEF m
  <1>19. ASSUME NEW w \in War, fight[w] # NoWar
         PROVE  fight'[w] # NoWar \/ EndsAfter(m, 0, w)
    <2>1. CASE w \in E
      <3>1. PICK i \in 1 .. Len(Msgs("end", E)) : Msgs("end", E)[i] = Msg("end", w)
        BY <1>14, <2>1
      <3> DEFINE j == Len(Msgs("wait", W)) + i
      <3>2. j \in 1 .. Len(first) /\ j \in 0 + 1 .. Len(m) BY <1>13, <1>14, <1>15, <1>16, <1>17
      <3>3. m[j] = Msg("end", w) BY <1>16, <1>17, <3>1, <3>2
      <3>4. m[j] \in Ending(w) BY <3>3, EndingIs
      <3> HIDE DEF j
      <3> QED BY <3>2, <3>4 DEF EndsAfter
    <2>2. CASE w \notin E BY <1>8, <1>11, <1>19, <2>2
    <2> QED BY <2>1, <2>2
  <1>20. ASSUME NEW w \in War, NEW i \in 1 .. Len(m), m[i] = Msg("on", w)
         PROVE  fight'[w] # NoWar
    <2>1. CASE i <= Len(Msgs("wait", W))
      <3>1. i \in 1 .. Len(Msgs("wait", W)) /\ i \in 1 .. Len(first)
        BY <1>13, <1>14, <1>16, <1>17, <2>1
      <3>2. \E v \in W : m[i] = Msg("wait", v) BY <1>13, <1>16, <1>17, <3>1
      <3> QED BY <1>20, <3>2, MsgIs
    <2>2. CASE Len(Msgs("wait", W)) < i /\ i <= Len(first)
      <3> DEFINE k == i - Len(Msgs("wait", W))
      <3>1. k \in 1 .. Len(Msgs("end", E)) /\ Len(Msgs("wait", W)) + k = i /\ i \in 1 .. Len(first)
        BY <1>13, <1>14, <1>16, <1>17, <2>2
      <3> HIDE DEF k
      <3>2. \E v \in E : m[i] = Msg("end", v) BY <1>14, <1>16, <1>17, <3>1
      <3> QED BY <1>20, <3>2, MsgIs
    <2>3. CASE i > Len(first)
      <3> DEFINE k == i - Len(first)
      <3>1. k \in 1 .. Len(Msgs("on", B)) /\ Len(first) + k = i BY <1>15, <1>17, <2>3
      <3> HIDE DEF k
      <3>2. PICK v \in B : m[i] = Msg("on", v) BY <1>15, <1>17, <3>1
      <3>3. v = w BY <1>20, <3>2, MsgIs
      <3> QED BY <1>8, <1>12, <3>2, <3>3
    <2>4. \/ i <= Len(Msgs("wait", W)) \/ (Len(Msgs("wait", W)) < i /\ i <= Len(first))
          \/ i > Len(first)
      BY <1>13, <1>17
    <2> QED BY <2>1, <2>2, <2>3, <2>4
  <1>21. LinkOK' /\ Followed' BY <1>2, <1>17, <1>18, <1>19, <1>20, Forwarded
  <1> QED BY <1>9, <1>21

-----------------------------------------------------------------------------
(* What the core makes of it *)

LEMMA HandleInv ==
    ASSUME IInv, NEW w \in War, NEW op, Handle(w, op),
           \/ op # "on" /\ listed' = listed /\ op \notin {"end", "over", "cancel"}
           \/ op = "on" /\ listed' \in {listed, listed \cup {w}}
           \/ op \in {"end", "over", "cancel"} /\ listed' = listed \ {w}
    PROVE  IInv'
  <1> USE GuildWarAssumption DEF IInv
  <1>1. /\ up /\ up' = up /\ dg # <<>> /\ dg' = Tail(dg) /\ Head(dg) = Msg(op, w)
        /\ fight' = fight /\ waiting' = waiting /\ declared' = declared
    BY DEF Handle, daemon
  <1>2. /\ IsSeq(dg') /\ Len(dg) \in Nat /\ Len(dg) >= 1 /\ Len(dg') = Len(dg) - 1
        /\ dg[1] = Msg(op, w)
        /\ \A i \in 1 .. Len(dg') : dg'[i] = dg[i + 1]
    BY <1>1, Rest DEF LinkOK
  <1>3. ASSUME NEW v, NEW i \in 1 .. Len(dg), EndsAfter(dg, i, v)
        PROVE  EndsAfter(dg', i - 1, v)
    <2>1. PICK j \in i + 1 .. Len(dg) : dg[j] \in Ending(v) BY <1>3 DEF EndsAfter
    <2>2. j - 1 \in (i - 1) + 1 .. Len(dg') BY <1>2, <2>1, SMTT(30)
    <2>3. dg'[j - 1] = dg[(j - 1) + 1] BY <1>2, <2>2, SMTT(30)
    <2>4. (j - 1) + 1 = j BY <1>2, <2>1, SMTT(30)
    <2> QED BY <2>1, <2>2, <2>3, <2>4 DEF EndsAfter
  <1>4. ASSUME NEW v, EndsAfter(dg, 0, v), Msg(op, w) \notin Ending(v)
        PROVE  EndsAfter(dg', 0, v)
    <2>1. PICK j \in 0 + 1 .. Len(dg) : dg[j] \in Ending(v) BY <1>4 DEF EndsAfter
    <2>2. j # 1 BY <1>2, <1>4, <2>1
    <2>3. j - 1 \in 0 + 1 .. Len(dg') /\ dg'[j - 1] = dg[j] BY <1>2, <2>1, <2>2
    <2> QED BY <2>1, <2>3 DEF EndsAfter
  <1>5. ASSUME NEW v \in listed'
        PROVE  fight'[v] # NoWar \/ EndsAfter(dg', 0, v)
    <2>1. CASE v \in listed /\ Msg(op, w) \notin Ending(v)
      BY <1>1, <1>4, <2>1 DEF Followed
    <2>2. CASE v = w /\ op = "on"
      <3>1. 1 \in 1 .. Len(dg) BY <1>2
      <3>2. fight[v] # NoWar \/ EndsAfter(dg, 1, v) BY <1>2, <2>2, <3>1 DEF Followed
      <3>3. EndsAfter(dg, 1, v) => EndsAfter(dg', 1 - 1, v) BY <1>3, <3>1
      <3> QED BY <1>1, <3>2, <3>3
    <2>3. v \in listed \/ (v = w /\ op = "on") BY <1>5
    <2>4. Msg(op, w) \in Ending(v) => op \in {"end", "over", "cancel"} /\ v = w BY EndingIs
    <2> QED BY <1>5, <2>1, <2>2, <2>3, <2>4
  <1>6. ASSUME NEW v \in War, NEW i \in 1 .. Len(dg'), dg'[i] = Msg("on", v)
        PROVE  fight'[v] # NoWar \/ EndsAfter(dg', i, v)
    <2>1. i + 1 \in 1 .. Len(dg) /\ dg[i + 1] = Msg("on", v) /\ (i + 1) - 1 = i BY <1>2, <1>6
    <2>2. fight[v] # NoWar \/ EndsAfter(dg, i + 1, v) BY <2>1 DEF Followed
    <2>3. EndsAfter(dg, i + 1, v) => EndsAfter(dg', (i + 1) - 1, v) BY <1>3, <2>1
    <2> QED BY <1>1, <2>1, <2>2, <2>3
  <1>7. WarsOK' BY <1>1 DEF WarsOK
  <1> QED BY <1>1, <1>2, <1>5, <1>6, <1>7 DEF LinkOK, Followed

LEMMA CoreInv ==
    ASSUME IInv, NEW w \in War,
           \/ DeclareWar(w) \/ RefuseWar(w) \/ CoreReserveWar(w) \/ WaitStartWar(w)
           \/ StartWar(w) \/ RecvEndWar(w)
    PROVE  IInv'
  <1>1. CASE DeclareWar(w) BY <1>1, HandleInv DEF DeclareWar
  <1>2. CASE RefuseWar(w) BY <1>2, HandleInv DEF RefuseWar
  <1>3. CASE CoreReserveWar(w) BY <1>3, HandleInv DEF CoreReserveWar
  <1>4. CASE WaitStartWar(w) BY <1>4, HandleInv DEF WaitStartWar
  <1>5. CASE StartWar(w) BY <1>5, HandleInv DEF StartWar
  <1>6. CASE RecvEndWar(w) BY <1>6, HandleInv DEF RecvEndWar, EndWar
  <1> QED BY <1>1, <1>2, <1>3, <1>4, <1>5, <1>6

-----------------------------------------------------------------------------
(* Faults and the rest *)

LEMMA CutInv ==
    ASSUME IInv, Disconnect \/ Restart
    PROVE  IInv'
  <1> USE GuildWarAssumption DEF IInv
  <1>1. ~up' /\ dg' = <<>> /\ listed' = {}
    BY DEF Disconnect, Restart, StopAllGuildWar
  <1>2. IsSeq(dg') /\ Len(dg') = 0 BY <1>1, None
  <1>3. WarsOK'
    <2>1. CASE Disconnect BY <1>1, <2>1 DEF Disconnect, daemon, WarsOK
    <2>2. CASE Restart
      <3>1. waiting' = {} /\ declared' = {} /\ fight' = [v \in War |-> NoWar]
        BY <2>2 DEF Restart
      <3> QED BY <1>1, <3>1, FS_EmptySet DEF WarsOK
    <2> QED BY <2>1, <2>2
  <1> QED BY <1>1, <1>2, <1>3 DEF LinkOK, Followed

LEMMA ReconnectInv ==
    ASSUME IInv, Reconnect
    PROVE  IInv'
  <1> USE GuildWarAssumption DEF IInv
  <1> DEFINE on == {w \in War : fight[w] # NoWar}
             waits == {s \in Reservation : reserve[s] = "waits"}
             pending == {row[r].war : r \in waits}
             first == Msgs("on", on) \o Msgs("declare", declared)
  <1>1. /\ listed = {} /\ listed' = listed /\ up' = TRUE /\ fight' = fight
        /\ declared' = declared /\ waiting' = waiting
        /\ dg' = first \o Msgs("reserve", pending)
    BY DEF Reconnect, daemon, core, LinkOK
  <1>2. IsFiniteSet(on) /\ IsFiniteSet(declared) /\ IsFiniteSet(waits)
    BY FS_Subset DEF WarsOK
  <1>3. IsFiniteSet(pending)
    <2> HIDE DEF waits
    <2> DEFINE f == [r \in waits |-> row[r].war]
    <2>1. f = [r \in DOMAIN f |-> f[r]] /\ DOMAIN f = waits OBVIOUS
    <2>2. pending = {f[r] : r \in DOMAIN f} OBVIOUS
    <2> HIDE DEF f, pending
    <2>3. IsFiniteSet({f[r] : r \in DOMAIN f}) BY <1>2, <2>1, ImageFinite
    <2> QED BY <2>2, <2>3
  <1> HIDE DEF pending, waits
  <1> DEFINE a == Msgs("on", on)
             b == Msgs("declare", declared)
             c == Msgs("reserve", pending)
  <1>4. IsSeq(a) /\ Len(a) \in Nat /\ \A i \in 1 .. Len(a) : \E w \in on : a[i] = Msg("on", w)
    <2>1. IsFiniteSet(on) BY <1>2
    <2> HIDE DEF on
    <2> QED BY <2>1, MsgsAre
  <1>5. IsSeq(b) /\ Len(b) \in Nat
        /\ \A i \in 1 .. Len(b) : \E w \in declared : b[i] = Msg("declare", w)
    BY <1>2, MsgsAre
  <1>6. IsSeq(c) /\ Len(c) \in Nat
        /\ \A i \in 1 .. Len(c) : \E w \in pending : c[i] = Msg("reserve", w)
    BY <1>3, MsgsAre
  <1>7. first = a \o b /\ dg' = first \o c BY <1>1
  <1> HIDE DEF a, b, c, first
  <1>8. /\ IsSeq(first) /\ Len(first) = Len(a) + Len(b)
        /\ \A i \in 1 .. Len(a) : first[i] = a[i]
        /\ \A i \in 1 .. Len(b) : first[Len(a) + i] = b[i]
    BY <1>4, <1>5, <1>7, Joined
  <1>9. /\ IsSeq(dg') /\ Len(dg') = Len(first) + Len(c) /\ Len(first) \in Nat
        /\ \A i \in 1 .. Len(first) : dg'[i] = first[i]
        /\ \A i \in 1 .. Len(c) : dg'[Len(first) + i] = c[i]
    BY <1>6, <1>7, <1>8, Joined
  <1>10. ASSUME NEW w \in War, NEW i \in 1 .. Len(dg'), dg'[i] = Msg("on", w)
         PROVE  fight[w] # NoWar
    <2>1. CASE i <= Len(a)
      <3>1. i \in 1 .. Len(a) /\ i \in 1 .. Len(first) BY <1>4, <1>5, <1>8, <1>9, <2>1
      <3>2. \E v \in on : dg'[i] = Msg("on", v) BY <1>4, <1>8, <1>9, <3>1
      <3> QED BY <1>10, <3>2, MsgIs
    <2>2. CASE Len(a) < i /\ i <= Len(first)
      <3> DEFINE k == i - Len(a)
      <3>1. k \in 1 .. Len(b) /\ Len(a) + k = i /\ i \in 1 .. Len(first)
        BY <1>4, <1>5, <1>8, <1>9, <2>2
      <3> HIDE DEF k
      <3>2. \E v \in declared : dg'[i] = Msg("declare", v) BY <1>5, <1>8, <1>9, <3>1
      <3> QED BY <1>10, <3>2, MsgIs
    <2>3. CASE i > Len(first)
      <3> DEFINE k == i - Len(first)
      <3>1. k \in 1 .. Len(c) /\ Len(first) + k = i BY <1>6, <1>9, <2>3
      <3> HIDE DEF k
      <3>2. \E v \in pending : dg'[i] = Msg("reserve", v) BY <1>6, <1>9, <3>1
      <3> QED BY <1>10, <3>2, MsgIs
    <2>4. i <= Len(a) \/ (Len(a) < i /\ i <= Len(first)) \/ i > Len(first)
      BY <1>4, <1>9
    <2> QED BY <2>1, <2>2, <2>3, <2>4
  <1>11. WarsOK' BY <1>1 DEF WarsOK
  <1>12. LinkOK' BY <1>1, <1>9 DEF LinkOK
  <1>13. Followed' BY <1>1, <1>10 DEF Followed
  <1> QED BY <1>11, <1>12, <1>13

LEMMA IdleInv ==
    ASSUME IInv, UNCHANGED <<fight, listed, declared, waiting, dg, up>>
    PROVE  IInv'
  BY DEF IInv, WarsOK, LinkOK, Followed, EndsAfter

-----------------------------------------------------------------------------
(* Theorems *)

LEMMA InitInv == Init => IInv
  <1> SUFFICES ASSUME Init PROVE IInv OBVIOUS
  <1>1. WarsOK BY FS_EmptySet DEF Init, WarsOK
  <1>2. LinkOK BY None DEF Init, LinkOK
  <1>3. Followed BY None DEF Init, Followed
  <1> QED BY <1>1, <1>2, <1>3 DEF IInv

LEMMA NextInv == IInv /\ [Next]_vars => IInv'
  <1> SUFFICES ASSUME IInv, [Next]_vars PROVE IInv' OBVIOUS
  <1>1. CASE Heartbeat BY <1>1, HeartbeatInv
  <1>2. CASE Disconnect \/ Restart BY <1>2, CutInv
  <1>3. CASE Reconnect BY <1>3, ReconnectInv
  <1>4. ASSUME \/ ExecuteQuery \/ (\E r \in Reservation : Bet(r)) \/ UNCHANGED vars
               \/ \E w \in War : \/ RequestDeclareWar(w) \/ AcceptWar(w) \/ RequestRefuseWar(w)
                                 \/ \E op \in {"over", "draw"} : RequestWarOver(w, op)
                                 \/ RequestEndWar(w) \/ RequestCancelWar(w)
        PROVE  IInv'
    <2>1. UNCHANGED <<fight, listed, declared, waiting, dg, up>>
      BY <1>4 DEF ExecuteQuery, Bet, vars, daemon, core, net, RequestDeclareWar, AcceptWar,
                  RequestRefuseWar, RequestWarOver, RequestEndWar, RequestCancelWar, Request
    <2> QED BY <2>1, IdleInv
  <1>5. ASSUME NEW w \in War,
               \/ AddDeclare(w) \/ RemoveDeclare(w) \/ StartFieldWar(w)
               \/ \E r \in Reservation : ReserveWar(w, r)
               \/ ReserveWarFails(w)
               \/ \E op \in {"over", "draw"}, won \in BOOLEAN : RecvWarOver(w, op, won)
               \/ RecvWarEnd(w) \/ CancelWar(w)
        PROVE  IInv'
    BY <1>5, ReceiveInv
  <1>6. ASSUME NEW w \in War,
               \/ DeclareWar(w) \/ RefuseWar(w) \/ CoreReserveWar(w) \/ WaitStartWar(w)
               \/ StartWar(w) \/ RecvEndWar(w)
        PROVE  IInv'
    BY <1>6, CoreInv
  <1> QED BY <1>1, <1>2, <1>3, <1>4, <1>5, <1>6 DEF Next

THEOREM Invariant == Spec => []IInv
  BY InitInv, NextInv, PTL DEF Spec

\* What a core thinks of as a running war the daemon has too, or has sent the
\* end of: no order of ends, cancels, timers, lost connections and restarts
\* leaves a core with a war that nobody will end.
THEOREM CoreWarIsRealHolds == Spec => []CoreWarIsReal
  <1>1. IInv => CoreWarIsReal
    BY DEF IInv, Followed, EndsAfter, Ending, CoreWarIsReal
  <1> QED BY <1>1, Invariant, PTL

-----------------------------------------------------------------------------
(* What becomes of a reservation and of the stake on it: the types, that a   *)
(* stake is paid once, that a war is started once, and that a stake is not   *)
(* forgotten.  The invariant follows a reservation: who is known to the      *)
(* daemon has a row; a job of the async connection starts or settles one     *)
(* reservation; and as long as no two wars waited for their start together,  *)
(* a reservation waits, then its war waits, then it is fought, and only then *)
(* it is settled, by one job with one payment.                               *)

ToCoreMsg == [op : ToCore, war : War]

\* The jobs there are, and what may be left of one.
Stmt(op, r) == [op |-> op, res |-> r]
StartJob(r) == <<Stmt("start", r)>>
SettleJob(r) == <<Stmt("settle", r)>>
DrawJob(r) == <<Stmt("settle", r), Stmt("pay", r)>>
PayJob(r) == <<Stmt("pay", r)>>

Pays(job, r) == job \in {DrawJob(r), PayJob(r)}
Draws(job, r) == job = SettleJob(r) \/ Pays(job, r)

\* Who is in the daemon's memory, or in a statement, has a row.
RowsOK ==
    /\ \A r \in Reservation : r \in staked \/ reserve[r] # "no" => row[r] # NoRow
    /\ \A r \in Reservation : row[r] # NoRow => (row[r].winner => row[r].started)
    /\ \A e \in waiting : reserve[e.res] = "started"
    /\ \A w \in War : fight[w].res # NoReservation => reserve[fight[w].res] = "started"

\* A job starts or settles one reservation; once it is settled, a payment may be left.
JobsOK ==
    \A i \in 1 .. Len(sql) : \E r \in Reservation :
        /\ row[r] # NoRow
        /\ sql[i] = StartJob(r) \/ Draws(sql[i], r)
        /\ sql[i] = PayJob(r) => row[r].winner

\* Reservations with a job that settles them, or paid.
Drawn == {r \in Reservation : paid[r] > 0 \/ \E i \in 1 .. Len(sql) : Draws(sql[i], r)}

\* While no two wars waited for their start at once: a reservation waits, then its war
\* waits, then it is fought, and only then it is settled.
Course ==
    /\ \A r \in Reservation :
          /\ reserve[r] = "waits" => r \notin Drawn
          /\ reserve[r] # "started" => begun[r] = 0
          /\ begun[r] = 1 \/ (begun[r] = 0
                              /\ (reserve[r] = "started" => \E e \in waiting : e.res = r))
    /\ \A e, f \in waiting :
          begun[e.res] = 0 /\ e.res \notin Drawn /\ (e.res = f.res => e = f)
    /\ \A w \in War : fight[w].res # NoReservation =>
          /\ begun[fight[w].res] = 1 /\ fight[w].res \notin Drawn
          /\ row[fight[w].res].war = w

PaymentsOK ==
    \A r \in Reservation :
        /\ paid[r] <= 1
        /\ paid[r] = 1 => /\ row[r] # NoRow /\ row[r].winner
                          /\ \A i \in 1 .. Len(sql) : ~Pays(sql[i], r)
        /\ \A i, j \in 1 .. Len(sql) : Pays(sql[i], r) /\ Pays(sql[j], r) => i = j

Kept ==
    \A r \in staked : \/ row[r].winner
                      \/ reserve[r] # "no"
                      \/ \E i \in 1 .. Len(sql) : sql[i] \in {SettleJob(r), DrawJob(r)}

StakeInv == RowsOK /\ JobsOK /\ (~crowded => Course /\ PaymentsOK) /\ Kept

LEMMA JobsDiffer ==
    ASSUME NEW q, NEW r
    PROVE  /\ StartJob(q) = StartJob(r) => q = r
           /\ SettleJob(q) = SettleJob(r) => q = r
           /\ DrawJob(q) = DrawJob(r) => q = r
           /\ PayJob(q) = PayJob(r) => q = r
           /\ StartJob(q) # SettleJob(r) /\ StartJob(q) # PayJob(r) /\ SettleJob(q) # PayJob(r)
           /\ DrawJob(q) \notin {StartJob(r), SettleJob(r), PayJob(r)}
  <1>1. \A a, b, x, y : Stmt(a, x) = Stmt(b, y) <=> a = b /\ x = y BY DEF Stmt
  <1>2. \A a, b : <<a>> = <<b>> => a = b BY Zenon
  <1>3. \A a, b, c : <<a, b>> # <<c>>
    <2>1. \A a, b, c : Len(<<a, b>>) = 2 /\ Len(<<c>>) = 1 OBVIOUS
    <2> QED BY <2>1
  <1>4. \A a, b, c, d : <<a, b>> = <<c, d>> => a = c /\ b = d OBVIOUS
  <1> QED BY <1>1, <1>2, <1>3, <1>4 DEF StartJob, SettleJob, DrawJob, PayJob

LEMMA JobParts ==
    ASSUME NEW r
    PROVE  /\ Head(StartJob(r)) = Stmt("start", r) /\ Len(StartJob(r)) = 1
           /\ Head(SettleJob(r)) = Stmt("settle", r) /\ Len(SettleJob(r)) = 1
           /\ Head(PayJob(r)) = Stmt("pay", r) /\ Len(PayJob(r)) = 1
           /\ Head(DrawJob(r)) = Stmt("settle", r) /\ Len(DrawJob(r)) = 2
           /\ Tail(DrawJob(r)) = PayJob(r)
           /\ \A op : Stmt(op, r).op = op /\ Stmt(op, r).res = r
  <1>1. \A x : Head(<<x>>) = x /\ Len(<<x>>) = 1 OBVIOUS
  <1>2. \A x, y : Head(<<x, y>>) = x /\ Len(<<x, y>>) = 2 /\ Tail(<<x, y>>) = <<y>> OBVIOUS
  <1>3. \A op : Stmt(op, r).op = op /\ Stmt(op, r).res = r BY DEF Stmt
  <1> QED BY <1>1, <1>2, <1>3 DEF StartJob, SettleJob, DrawJob, PayJob

LEMMA Enumerates ==
    ASSUME NEW S, IsFiniteSet(S)
    PROVE  /\ SetToSeq(S) \in Seq(S)
           /\ \A i, j \in 1 .. Len(SetToSeq(S)) : SetToSeq(S)[i] = SetToSeq(S)[j] => i = j
           /\ \A x \in S : \E i \in 1 .. Len(SetToSeq(S)) : SetToSeq(S)[i] = x
  <1> DEFINE n == Cardinality(S)
             s == SetToSeq(S)
  <1>1. n \in Nat /\ ExistsBijection(1 .. n, S) BY FS_CardinalityType
  <1>2. s = CHOOSE f \in [1 .. n -> S] : IsInjective(f) BY DEF SetToSeq
  <1>3. \E f \in [1 .. n -> S] : IsInjective(f)
    BY <1>1 DEF ExistsBijection, Bijection, Injection
  <1>4. s \in [1 .. n -> S] /\ IsInjective(s) BY <1>2, <1>3
  <1> HIDE DEF s, n
  <1>5. s \in Seq(S) /\ Len(s) = n BY <1>1, <1>4
  <1>6. \A i, j \in 1 .. n : s[i] = s[j] => i = j BY <1>4 DEF IsInjective
  <1>7. \A x \in S : \E i \in 1 .. Len(s) : s[i] = x BY Listing DEF s
  <1> QED BY <1>5, <1>6, <1>7 DEF s

LEMMA MsgsTyped ==
    ASSUME NEW op \in ToCore, NEW ws, ws \subseteq War, IsFiniteSet(ws)
    PROVE  Msgs(op, ws) \in Seq(ToCoreMsg)
  <1> DEFINE f == [w \in ws |-> Msg(op, w)]
             T == {Msg(op, w) : w \in ws}
  <1>1. DOMAIN f = ws /\ T = {f[w] : w \in DOMAIN f} OBVIOUS
  <1>2. IsFiniteSet({f[w] : w \in DOMAIN f})
    <2>1. f = [x \in DOMAIN f |-> f[x]] OBVIOUS
    <2>2. IsFiniteSet(DOMAIN f) BY <1>1
    <2> HIDE DEF f
    <2> QED BY <2>1, <2>2, ImageFinite
  <1>3. IsFiniteSet(T) BY <1>1, <1>2
  <1>4. Msgs(op, ws) = SetToSeq(T) BY DEF Msgs
  <1>5. T \subseteq ToCoreMsg BY DEF Msg, ToCoreMsg
  <1> HIDE DEF T
  <1>6. SetToSeq(T) \in Seq(T) BY <1>3, Enumerates
  <1> QED BY <1>4, <1>5, <1>6

LEMMA ForwardTyped ==
    ASSUME TypeOK, NEW m \in Seq(ToCoreMsg), Forward(m)
    PROVE  dg' \in Seq(ToCoreMsg)
  BY DEF TypeOK, Forward, ToCoreMsg

LEMMA RequestTyped ==
    ASSUME TypeOK, NEW op \in FromCore, NEW w \in War, Request(op, w)
    PROVE  TypeOK'
  <1>1. gd' \in Seq([op : FromCore, war : War])
    <2>1. Msg(op, w) \in [op : FromCore, war : War] BY DEF Msg
    <2>2. gd \in Seq([op : FromCore, war : War]) BY DEF TypeOK
    <2>3. Append(gd, Msg(op, w)) \in Seq([op : FromCore, war : War]) BY <2>1, <2>2
    <2> QED BY <2>2, <2>3 DEF Request
  <1>2. requests' \in 0 .. MaxRequest
    BY GuildWarAssumption DEF TypeOK, Request
  <1> QED BY <1>1, <1>2 DEF TypeOK, Request, db, daemon, core

LEMMA JobsAre ==
    ASSUME NEW r \in Reservation, NEW won \in BOOLEAN
    PROVE  /\ Do(<<"start">>, r) = StartJob(r)
           /\ Draw(r) = IF r \in staked THEN DrawJob(r) ELSE SettleJob(r)
           /\ End(r, won) \in {Draw(r), SettleJob(r)}
           /\ {StartJob(r), SettleJob(r), DrawJob(r), PayJob(r)} \subseteq Seq(Statement)
  <1>1. Do(<<"start">>, r) = StartJob(r) BY DEF Do, StartJob, Stmt
  <1>2. Do(<<"settle">>, r) = SettleJob(r) BY DEF Do, SettleJob, Stmt
  <1>3. Do(<<"settle", "pay">>, r) = DrawJob(r) BY DEF Do, DrawJob, Stmt
  <1>4. \A op \in {"start", "settle", "pay"} : Stmt(op, r) \in Statement BY DEF Stmt, Statement
  <1>5. \A op, op2 \in {"start", "settle", "pay"} : /\ <<Stmt(op, r)>> \in Seq(Statement)
                                                    /\ <<Stmt(op, r), Stmt(op2, r)>> \in Seq(Statement)
    BY <1>4
  <1>6. {StartJob(r), SettleJob(r), DrawJob(r), PayJob(r)} \subseteq Seq(Statement)
    BY <1>5 DEF StartJob, SettleJob, DrawJob, PayJob
  <1>7. /\ Draw(r) = IF r \in staked THEN DrawJob(r) ELSE SettleJob(r)
        /\ End(r, won) \in {Draw(r), SettleJob(r)}
    BY <1>2, <1>3 DEF Draw, End
  <1> QED BY <1>1, <1>6, <1>7

\* What the daemon does with a packet about the war w.
LEMMA ReceiveTyped ==
    ASSUME TypeOK, NEW w \in War,
           \/ AddDeclare(w) \/ RemoveDeclare(w) \/ StartFieldWar(w)
           \/ \E r \in Reservation : ReserveWar(w, r)
           \/ ReserveWarFails(w)
           \/ \E op \in {"over", "draw"}, won \in BOOLEAN : RecvWarOver(w, op, won)
           \/ RecvWarEnd(w) \/ CancelWar(w)
    PROVE  TypeOK'
  <1> USE GuildWarAssumption
  <1>0. gd # <<>> /\ gd' = Tail(gd)
    BY DEF AddDeclare, RemoveDeclare, StartFieldWar, ReserveWar, ReserveWarFails, RecvWarOver,
           RecvWarEnd, CancelWar, Receive
  <1>1. gd' \in Seq([op : FromCore, war : War]) BY <1>0 DEF TypeOK
  <1>2. ASSUME NEW op \in ToCore, Forward(<<Msg(op, w)>>)
        PROVE  dg' \in Seq([op : ToCore, war : War])
    <2>1. <<Msg(op, w)>> \in Seq(ToCoreMsg) BY DEF Msg, ToCoreMsg
    <2> QED BY <1>2, <2>1, ForwardTyped DEF ToCoreMsg
  <1>3. RemoveWar(w) => /\ fight' \in [War -> [clock : Clock, res : Reservation \cup {NoReservation}]
                                                \cup {NoWar}]
                        /\ onWar' \subseteq [id : Clock, war : War, at : Nat]
    BY DEF TypeOK, RemoveWar
  <1>4. CASE AddDeclare(w)
    <2>1. Forward(<<Msg("declare", w)>>) BY <1>4 DEF AddDeclare
    <2>2. dg' \in Seq([op : ToCore, war : War]) BY <1>2, <2>1 DEF ToCore
    <2> QED BY <1>1, <1>4, <2>2 DEF TypeOK, AddDeclare, Receive, core
  <1>5. CASE RemoveDeclare(w)
    <2>1. Forward(<<Msg("refuse", w)>>) BY <1>5 DEF RemoveDeclare
    <2>2. dg' \in Seq([op : ToCore, war : War]) BY <1>2, <2>1 DEF ToCore
    <2> QED BY <1>1, <1>5, <2>2 DEF TypeOK, RemoveDeclare, Receive, core
  <1>6. CASE StartFieldWar(w)
    <2>1. Forward(<<Msg("on", w)>>) BY <1>6 DEF StartFieldWar
    <2>2. dg' \in Seq([op : ToCore, war : War]) BY <1>2, <2>1 DEF ToCore
    <2>3. <<0, starts>> \in Clock /\ starts' \in 0 .. MaxStart /\ now + FieldTime \in Nat
      BY <1>6 DEF TypeOK, StartFieldWar, Clock
    <2>4. fight' \in [War -> [clock : Clock, res : Reservation \cup {NoReservation}] \cup {NoWar}]
      BY <1>6, <2>3 DEF TypeOK, StartFieldWar
    <2>5. onWar' \subseteq [id : Clock, war : War, at : Nat]
      <3>1. [id |-> <<0, starts>>, war |-> w, at |-> now + FieldTime] \in [id : Clock, war : War, at : Nat]
        BY <2>3
      <3>2. onWar \subseteq [id : Clock, war : War, at : Nat] BY DEF TypeOK
      <3> QED BY <1>6, <3>1, <3>2 DEF StartFieldWar
    <2> QED BY <1>1, <1>6, <2>2, <2>3, <2>4, <2>5 DEF TypeOK, StartFieldWar, Receive, core
  <1>7. ASSUME NEW r \in Reservation, ReserveWar(w, r) PROVE TypeOK'
    <2>1. Forward(<<Msg("reserve", w)>>) BY <1>7 DEF ReserveWar
    <2>2. dg' \in Seq([op : ToCore, war : War]) BY <1>2, <2>1 DEF ToCore
    <2>3. now + ReserveTime \in Nat BY DEF TypeOK
    <2>4. row' \in [Reservation -> Row \cup {NoRow}]
      BY <1>7, <2>3 DEF TypeOK, ReserveWar, Row
    <2>5. reserve' \in [Reservation -> {"no", "waits", "started"}]
      BY <1>7 DEF TypeOK, ReserveWar
    <2>6. /\ gd' \in Seq([op : FromCore, war : War])
          /\ declared' \subseteq War
          /\ UNCHANGED <<now, staked, paid, waiting, fight, onWar, sql, core, up, history>>
      BY <1>1, <1>7 DEF TypeOK, ReserveWar
    <2> QED BY <2>2, <2>4, <2>5, <2>6 DEF TypeOK, core, history
  <1>8. CASE ReserveWarFails(w)
    <2>1. Forward(<<Msg("cancel", w)>>) BY <1>8 DEF ReserveWarFails
    <2>2. dg' \in Seq([op : ToCore, war : War]) BY <1>2, <2>1 DEF ToCore
    <2> QED BY <1>1, <1>8, <2>2, SMTT(30) DEF TypeOK, ReserveWarFails, Receive, core
  <1>9. ASSUME NEW op \in {"over", "draw"}, NEW won \in BOOLEAN, RecvWarOver(w, op, won)
        PROVE  TypeOK'
    <2>1. Forward(<<Msg("over", w)>>) BY <1>9 DEF RecvWarOver
    <2>2. dg' \in Seq([op : ToCore, war : War]) BY <1>2, <2>1 DEF ToCore
    <2>3. Settlement(w, op, won) \in Seq(Seq(Statement))
      <3>1. CASE fight[w] = NoWar \/ fight[w].res = NoReservation
        BY <3>1 DEF Settlement
      <3>2. CASE ~(fight[w] = NoWar \/ fight[w].res = NoReservation)
        <4>1. fight[w].res \in Reservation BY <3>2 DEF TypeOK
        <4>2. Draw(fight[w].res) \in Seq(Statement) /\ End(fight[w].res, won) \in Seq(Statement)
          BY <4>1, JobsAre
        <4> QED BY <3>2, <4>2 DEF Settlement
      <3> QED BY <3>1, <3>2
    <2>4. sql' \in Seq(Seq(Statement)) BY <1>9, <2>3 DEF TypeOK, RecvWarOver
    <2> QED BY <1>1, <1>3, <1>9, <2>2, <2>4 DEF TypeOK, RecvWarOver, Receive, core
  <1>10. CASE RecvWarEnd(w)
    <2>1. \/ Forward(<<Msg("end", w)>>)
          \/ Forward(<<>>)
      BY <1>10 DEF RecvWarEnd, WarEnd
    <2>2. <<>> \in Seq(ToCoreMsg) OBVIOUS
    <2>3. dg' \in Seq([op : ToCore, war : War])
      BY <1>2, <2>1, <2>2, ForwardTyped DEF ToCore, ToCoreMsg
    <2> QED BY <1>1, <1>3, <1>10, <2>3 DEF TypeOK, RecvWarEnd, Receive, core
  <1>11. CASE CancelWar(w)
    <2>1. Forward(<<Msg("cancel", w)>>) BY <1>11 DEF CancelWar
    <2>2. dg' \in Seq([op : ToCore, war : War]) BY <1>2, <2>1 DEF ToCore
    <2> QED BY <1>1, <1>3, <1>11, <2>2 DEF TypeOK, CancelWar, Receive, core
  <1> QED BY <1>4, <1>5, <1>6, <1>7, <1>8, <1>9, <1>10, <1>11

\* What the daemon puts together once a second.
LEMMA DueTyped ==
    ASSUME TypeOK, RowsOK, WarsOK
    PROVE  /\ \A r \in Due : r \in Reservation /\ reserve[r] = "waits" /\ row[r] \in Row
           /\ IsFiniteSet(Due)
           /\ Queue \subseteq [at : Nat, res : Reservation] /\ IsFiniteSet(Queue)
           /\ \A e \in Queue : /\ row[e.res] \in Row
                               /\ e \in waiting \/ (e.res \in Due /\ e.at = now + 1 + WaitTime)
           /\ Ready \subseteq Queue /\ IsFiniteSet(Ready)
           /\ Ended \subseteq War /\ IsFiniteSet(Ended)
  <1> USE GuildWarAssumption
  <1>1. \A r \in Reservation : row[r] # NoRow => row[r] \in Row BY DEF TypeOK, Row
  <1>2. \A r \in Due : r \in Reservation /\ reserve[r] = "waits" /\ row[r] \in Row
    BY <1>1 DEF Due, RowsOK
  <1>3. IsFiniteSet(Due) BY FS_Subset DEF Due
  <1>4. \A e \in Queue : e \in waiting \/ \E r \in Due : e = [at |-> now + 1 + WaitTime, res |-> r]
    BY DEF Queue
  <1>5. \A e \in waiting : /\ e \in [at : Nat, res : Reservation]
                           /\ row[e.res] \in Row
    BY <1>1 DEF TypeOK, RowsOK
  <1>6. now + 1 + WaitTime \in Nat BY DEF TypeOK
  <1>7. \A e \in Queue : /\ e \in [at : Nat, res : Reservation] /\ row[e.res] \in Row
                         /\ e \in waiting \/ (e.res \in Due /\ e.at = now + 1 + WaitTime)
    BY <1>2, <1>4, <1>5, <1>6
  <1>8. IsFiniteSet(Queue)
    <2> DEFINE f == [r \in Due |-> [at |-> now + 1 + WaitTime, res |-> r]]
    <2>1. f = [r \in DOMAIN f |-> f[r]] /\ DOMAIN f = Due OBVIOUS
    <2>2. {[at |-> now + 1 + WaitTime, res |-> r] : r \in Due} = {f[r] : r \in DOMAIN f} OBVIOUS
    <2> HIDE DEF f
    <2>3. IsFiniteSet({f[r] : r \in DOMAIN f}) BY <1>3, <2>1, ImageFinite
    <2>4. IsFiniteSet(waiting) BY DEF WarsOK
    <2> QED BY <2>2, <2>3, <2>4, FS_Union DEF Queue
  <1>9. Ready \subseteq Queue /\ IsFiniteSet(Ready) BY <1>8, FS_Subset DEF Ready
  <1>10. Ended \subseteq War /\ IsFiniteSet(Ended) BY FS_Subset DEF Ended
  <1> QED BY <1>2, <1>3, <1>7, <1>8, <1>9, <1>10

\* The same of what starts: where each war is started from, and that it is known.
LEMMA BeginsTyped ==
    ASSUME TypeOK, RowsOK, WarsOK,
           NEW top \in [Ready -> Queue], NEW last \in [Begins(top) -> Ready]
    PROVE  /\ Begins(top) \subseteq War /\ IsFiniteSet(Begins(top))
           /\ \A e \in Ready : top[e] \in Queue /\ e \in Queue /\ WarOf(top[e]) \in War
           /\ \A w \in Begins(top) : last[w] \in Ready /\ top[last[w]] \in Queue
  <1>1. \A e \in Ready : top[e] \in Queue /\ e \in Queue /\ WarOf(top[e]) \in War
    BY DueTyped DEF WarOf, Row
  <1>2. Begins(top) \subseteq War BY <1>1 DEF Begins
  <1>3. IsFiniteSet(Begins(top)) BY <1>2, GuildWarAssumption, FS_Subset
  <1> QED BY <1>1, <1>2, <1>3

LEMMA HeartbeatTyped ==
    ASSUME TypeOK, RowsOK, WarsOK, Heartbeat
    PROVE  TypeOK'
  <1> USE GuildWarAssumption
  <1>1. PICK top \in [Ready -> Queue] : \E last \in [Begins(top) -> Ready] : Update(top, last)
    BY DEF Heartbeat
  <1>2. PICK last \in [Begins(top) -> Ready] : Update(top, last) BY <1>1
  <1>3. now' \in 0 .. MaxTime BY DEF TypeOK, Heartbeat
  <1>4. reserve' \in [Reservation -> {"no", "waits", "started"}]
    BY <1>2 DEF TypeOK, Update, Marked
  <1>5. waiting' \subseteq [at : Nat, res : Reservation] BY <1>2, DueTyped DEF Update
  <1>6. fight' \in [War -> [clock : Clock, res : Reservation \cup {NoReservation}] \cup {NoWar}]
    <2>1. \A w \in Begins(top) : last[w].res \in Reservation /\ top[last[w]].res \in Reservation
      BY DueTyped, BeginsTyped
    <2>2. \A w \in Begins(top) : <<last[w].res, 0>> \in Clock BY <2>1 DEF Clock
    <2>3. \A w \in Begins(top) : [clock |-> <<last[w].res, 0>>, res |-> top[last[w]].res]
                                 \in [clock : Clock, res : Reservation \cup {NoReservation}]
      BY <2>1, <2>2
    <2>4. fight \in [War -> [clock : Clock, res : Reservation \cup {NoReservation}] \cup {NoWar}]
      BY DEF TypeOK
    <2>5. fight' = [w \in War |->
                      IF w \in Begins(top) THEN [clock |-> <<last[w].res, 0>>, res |-> top[last[w]].res]
                      ELSE IF w \in Ended THEN NoWar ELSE fight[w]]
      BY <1>2 DEF Update
    <2> QED BY <2>3, <2>4, <2>5
  <1>7. onWar' \subseteq [id : Clock, war : War, at : Nat]
    <2>1. \A e \in Ready : e.res \in Reservation /\ WarOf(top[e]) \in War
      BY DueTyped, BeginsTyped
    <2>2. now + 1 + MapTime \in Nat BY DEF TypeOK
    <2>3. \A e \in Ready : <<e.res, 0>> \in Clock BY <2>1 DEF Clock
    <2>4. \A e \in Ready : [id |-> <<e.res, 0>>, war |-> WarOf(top[e]), at |-> now + 1 + MapTime]
                           \in [id : Clock, war : War, at : Nat]
      BY <2>1, <2>2, <2>3
    <2>5. onWar \subseteq [id : Clock, war : War, at : Nat] BY DEF TypeOK
    <2>6. \A x \in onWar' :
             x \in onWar \/ \E e \in Ready : x = [id |-> <<e.res, 0>>, war |-> WarOf(top[e]),
                                                at |-> now + 1 + MapTime]
      BY <1>2 DEF Update
    <2> QED BY <2>4, <2>5, <2>6
  <1>8. sql' \in Seq(Seq(Statement))
    <2> DEFINE f == [r \in Due |-> Do(<<"start">>, r)]
               J == {Do(<<"start">>, r) : r \in Due}
    <2>1. J = {f[r] : r \in DOMAIN f} /\ f = [r \in DOMAIN f |-> f[r]] /\ DOMAIN f = Due OBVIOUS
    <2>2. J \subseteq Seq(Statement) BY DueTyped, JobsAre
    <2>3. IsFiniteSet(Due) BY DueTyped
    <2>4. sql' = sql \o SetToSeq(J) BY <1>2 DEF Update
    <2> HIDE DEF f, J
    <2>8. IsFiniteSet(J) BY <2>1, <2>3, ImageFinite
    <2>5. SetToSeq(J) \in Seq(J) BY <2>8, Enumerates
    <2>6. SetToSeq(J) \in Seq(Seq(Statement)) BY <2>2, <2>5
    <2>7. sql \in Seq(Seq(Statement)) BY DEF TypeOK
    <2> QED BY <2>4, <2>6, <2>7
  <1>9. dg' \in Seq([op : ToCore, war : War])
    <2> DEFINE waits == {row[r].war : r \in Due}
               f == [r \in Due |-> row[r].war]
    <2>1. waits = {f[r] : r \in DOMAIN f} /\ f = [r \in DOMAIN f |-> f[r]] /\ DOMAIN f = Due OBVIOUS
    <2>2. waits \subseteq War BY DueTyped DEF Row
    <2>3. IsFiniteSet(Due) BY DueTyped
    <2>4. Forward(Msgs("wait", waits) \o Msgs("end", Ended) \o Msgs("on", Begins(top)))
      BY <1>2 DEF Update
    <2> HIDE DEF waits, f
    <2>9. IsFiniteSet(waits) BY <2>1, <2>3, ImageFinite
    <2>5. Msgs("wait", waits) \in Seq(ToCoreMsg) BY <2>2, <2>9, MsgsTyped DEF ToCore
    <2>6. Msgs("end", Ended) \in Seq(ToCoreMsg) BY DueTyped, MsgsTyped DEF ToCore
    <2>7. Msgs("on", Begins(top)) \in Seq(ToCoreMsg) BY BeginsTyped, MsgsTyped DEF ToCore
    <2>8. Msgs("wait", waits) \o Msgs("end", Ended) \o Msgs("on", Begins(top)) \in Seq(ToCoreMsg)
      BY <2>5, <2>6, <2>7
    <2> QED BY <2>4, <2>8, ForwardTyped DEF ToCoreMsg
  <1>10. begun' \in [Reservation -> Nat]
    <2>1. \A r \in Reservation : Cardinality({e \in Ready : top[e].res = r}) \in Nat
      <3>1. ASSUME NEW r \in Reservation PROVE IsFiniteSet({e \in Ready : top[e].res = r})
        BY DueTyped, FS_Subset
      <3> QED BY <3>1, FS_CardinalityType
    <2>2. begun' = [r \in Reservation |-> begun[r] + Cardinality({e \in Ready : top[e].res = r})]
      BY <1>2 DEF Update
    <2>3. begun \in [Reservation -> Nat] BY DEF TypeOK
    <2> QED BY <2>1, <2>2, <2>3
  <1>11. crowded' \in BOOLEAN BY <1>2 DEF Update
  <1>12. UNCHANGED <<db, declared, core, up, gd, starts, requests, faults>> BY DEF Heartbeat
  <1> QED BY <1>3, <1>4, <1>5, <1>6, <1>7, <1>8, <1>9, <1>10, <1>11, <1>12 DEF TypeOK, db, core

\* What is left of the queue of the async connection, and what the statement did.
LEMMA Executed ==
    ASSUME TypeOK, JobsOK, ExecuteQuery
    PROVE  \E r \in Reservation :
             /\ row[r] \in Row /\ 1 \in 1 .. Len(sql)
             /\ \/ sql[1] = StartJob(r) /\ sql' = Tail(sql) /\ UNCHANGED paid
                   /\ row' = [row EXCEPT ![r].started = TRUE]
                \/ sql[1] = SettleJob(r) /\ sql' = Tail(sql) /\ UNCHANGED paid
                   /\ row' = [row EXCEPT ![r].started = TRUE, ![r].winner = TRUE]
                \/ sql[1] = DrawJob(r) /\ sql' = [sql EXCEPT ![1] = PayJob(r)] /\ UNCHANGED paid
                   /\ row' = [row EXCEPT ![r].started = TRUE, ![r].winner = TRUE]
                \/ sql[1] = PayJob(r) /\ sql' = Tail(sql) /\ UNCHANGED row
                   /\ row[r].winner /\ paid' = [paid EXCEPT ![r] = @ + 1]
  <1>1. sql # <<>> /\ sql \in Seq(Seq(Statement)) BY DEF TypeOK, ExecuteQuery
  <1>2. Head(sql) = sql[1] /\ 1 \in 1 .. Len(sql) BY <1>1
  <1>3. PICK r \in Reservation : /\ row[r] # NoRow
                                 /\ sql[1] = StartJob(r) \/ Draws(sql[1], r)
                                 /\ sql[1] = PayJob(r) => row[r].winner
    BY <1>2 DEF JobsOK
  <1>4. row[r] \in Row BY <1>3 DEF TypeOK, Row
  <1>5. \/ sql[1] = StartJob(r) \/ sql[1] = SettleJob(r) \/ sql[1] = DrawJob(r) \/ sql[1] = PayJob(r)
    BY <1>3 DEF Draws, Pays
  <1> DEFINE s == Head(sql[1])
  <1>6. sql' = IF Len(sql[1]) = 1 THEN Tail(sql) ELSE [sql EXCEPT ![1] = Tail(sql[1])]
    BY <1>2 DEF ExecuteQuery
  <1>7. \/ s.op = "start" /\ row' = [row EXCEPT ![s.res].started = TRUE] /\ UNCHANGED paid
        \/ /\ s.op = "settle" /\ UNCHANGED paid
           /\ row' = [row EXCEPT ![s.res].started = TRUE, ![s.res].winner = TRUE]
        \/ s.op = "pay" /\ paid' = [paid EXCEPT ![s.res] = @ + 1] /\ UNCHANGED row
    BY <1>2 DEF ExecuteQuery
  <1>8. CASE sql[1] = StartJob(r)
    <2>1. s.op = "start" /\ s.res = r /\ Len(sql[1]) = 1 BY <1>8, JobParts
    <2> HIDE DEF s
    <2> QED BY <1>2, <1>4, <1>6, <1>7, <1>8, <2>1
  <1>9. CASE sql[1] = SettleJob(r)
    <2>1. s.op = "settle" /\ s.res = r /\ Len(sql[1]) = 1 BY <1>9, JobParts
    <2> HIDE DEF s
    <2> QED BY <1>2, <1>4, <1>6, <1>7, <1>9, <2>1
  <1>10. CASE sql[1] = DrawJob(r)
    <2>1. s.op = "settle" /\ s.res = r /\ Len(sql[1]) = 2 /\ Tail(sql[1]) = PayJob(r)
      BY <1>10, JobParts
    <2>4. sql' = [sql EXCEPT ![1] = Tail(sql[1])] BY <1>6, <2>1
    <2>2. sql' = [sql EXCEPT ![1] = PayJob(r)] BY <2>1, <2>4, Zenon
    <2> HIDE DEF s
    <2>3. UNCHANGED paid /\ row' = [row EXCEPT ![r].started = TRUE, ![r].winner = TRUE]
      BY <1>7, <2>1
    <2> QED BY <1>2, <1>4, <1>10, <2>2, <2>3
  <1>11. CASE sql[1] = PayJob(r)
    <2>1. s.op = "pay" /\ s.res = r /\ Len(sql[1]) = 1 BY <1>11, JobParts
    <2> HIDE DEF s
    <2> QED BY <1>2, <1>3, <1>4, <1>6, <1>7, <1>11, <2>1
  <1> QED BY <1>5, <1>8, <1>9, <1>10, <1>11

LEMMA ExecuteTyped ==
    ASSUME TypeOK, JobsOK, ExecuteQuery
    PROVE  TypeOK'
  <1>1. PICK r \in Reservation :
             /\ row[r] \in Row /\ 1 \in 1 .. Len(sql)
             /\ \/ sql' = Tail(sql) \/ sql' = [sql EXCEPT ![1] = PayJob(r)]
             /\ \/ row' = row \/ row' = [row EXCEPT ![r].started = TRUE]
                \/ row' = [row EXCEPT ![r].started = TRUE, ![r].winner = TRUE]
             /\ \/ paid' = paid \/ paid' = [paid EXCEPT ![r] = @ + 1]
    BY Executed
  <1>2. sql' \in Seq(Seq(Statement))
    <2>1. sql \in Seq(Seq(Statement)) /\ sql # <<>> BY DEF TypeOK, ExecuteQuery
    <2>2. PayJob(r) \in Seq(Statement) BY JobsAre
    <2>3. [sql EXCEPT ![1] = PayJob(r)] \in Seq(Seq(Statement)) BY <2>1, <2>2
    <2>4. Tail(sql) \in Seq(Seq(Statement)) BY <2>1
    <2> QED BY <1>1, <2>3, <2>4
  <1>3. row' \in [Reservation -> Row \cup {NoRow}]
    <2>1. row \in [Reservation -> Row \cup {NoRow}] BY DEF TypeOK, Row
    <2>2. [row EXCEPT ![r].started = TRUE] \in [Reservation -> Row \cup {NoRow}]
      BY <1>1, <2>1 DEF Row
    <2>3. [row EXCEPT ![r].started = TRUE, ![r].winner = TRUE] \in [Reservation -> Row \cup {NoRow}]
      <3>1. row[r] \in Row BY <1>1
      <3> DEFINE x == [[row[r] EXCEPT !.started = TRUE] EXCEPT !.winner = TRUE]
      <3>2. x \in Row BY <3>1 DEF Row
      <3>3. [row EXCEPT ![r].started = TRUE, ![r].winner = TRUE] = [row EXCEPT ![r] = x]
        BY <2>1
      <3> HIDE DEF x
      <3> QED BY <2>1, <3>2, <3>3
    <2> QED BY <1>1, <2>1, <2>2, <2>3
  <1>4. paid' \in [Reservation -> Nat] BY <1>1 DEF TypeOK
  <1>5. UNCHANGED <<now, staked, declared, reserve, waiting, fight, onWar, core, net, history>>
    BY DEF ExecuteQuery
  <1> QED BY <1>2, <1>3, <1>4, <1>5 DEF TypeOK, Row, core, net, history

LEMMA CoreTyped ==
    ASSUME TypeOK, NEW w \in War,
           \/ DeclareWar(w) \/ RefuseWar(w) \/ CoreReserveWar(w) \/ WaitStartWar(w)
           \/ StartWar(w) \/ RecvEndWar(w)
    PROVE  TypeOK'
  <1>1. /\ dg # <<>> /\ dg' = Tail(dg)
        /\ UNCHANGED <<now, db, daemon, up, gd, history>>
    BY DEF DeclareWar, RefuseWar, CoreReserveWar, WaitStartWar, StartWar, RecvEndWar, Handle
  <1>2. dg' \in Seq([op : ToCore, war : War]) BY <1>1 DEF TypeOK
  <1>3. enemy' \in [War -> State]
    <2>1. \E s \in State : enemy' = [enemy EXCEPT ![w] = s]
      <3>1. enemy[w] \in State BY DEF TypeOK
      <3> QED BY <3>1 DEF DeclareWar, RefuseWar, CoreReserveWar, WaitStartWar, StartWar, RecvEndWar,
                          EndWar, State
    <2> QED BY <2>1 DEF TypeOK
  <1>4. listed' \subseteq War
    BY DEF TypeOK, DeclareWar, RefuseWar, CoreReserveWar, WaitStartWar, StartWar, RecvEndWar, EndWar
  <1> QED BY <1>1, <1>2, <1>3, <1>4 DEF TypeOK, db, daemon, history

LEMMA StopTyped ==
    ASSUME TypeOK, StopAllGuildWar
    PROVE  enemy' \in [War -> State] /\ listed' \subseteq War
  BY DEF TypeOK, StopAllGuildWar, State

LEMMA DisconnectTyped ==
    ASSUME TypeOK, Disconnect
    PROVE  TypeOK'
  <1>1. faults' \in 0 .. MaxFault BY GuildWarAssumption DEF TypeOK, Disconnect, Fault
  <1>2. enemy' \in [War -> State] /\ listed' \subseteq War BY StopTyped DEF Disconnect
  <1>3. gd' \in Seq([op : FromCore, war : War]) /\ dg' \in Seq([op : ToCore, war : War])
    BY DEF Disconnect
  <1>4. up' \in BOOLEAN /\ UNCHANGED <<now, db, daemon, begun, crowded, starts, requests>>
    BY DEF Disconnect
  <1> QED BY <1>1, <1>2, <1>3, <1>4 DEF TypeOK, db, daemon

\* What Restart gives to the async connection.
LEMMA RestartJobs ==
    ASSUME TypeOK, NEW stale, stale \subseteq Reservation
    PROVE  LET s == SetToSeq({Draw(r) : r \in stale})
           IN  /\ s \in Seq(Seq(Statement))
               /\ \A i \in 1 .. Len(s) : \E r \in stale : s[i] = Draw(r)
               /\ \A r \in stale : \E i \in 1 .. Len(s) : s[i] = Draw(r)
               /\ \A i, j \in 1 .. Len(s) : s[i] = s[j] => i = j
  <1> DEFINE f == [r \in stale |-> Draw(r)]
             J == {Draw(r) : r \in stale}
  <1>1. J = {f[r] : r \in DOMAIN f} /\ f = [r \in DOMAIN f |-> f[r]] /\ DOMAIN f = stale OBVIOUS
  <1>2. J \subseteq Seq(Statement)
    <2>1. \A r \in stale : Draw(r) \in Seq(Statement) BY JobsAre
    <2> QED BY <2>1
  <1>3. IsFiniteSet(stale) BY GuildWarAssumption, FS_Subset
  <1>4. (\A r \in stale : Draw(r) \in J) /\ \A x \in J : \E r \in stale : x = Draw(r) OBVIOUS
  <1> HIDE DEF f, J
  <1>5. IsFiniteSet(J) BY <1>1, <1>3, ImageFinite
  <1>6. /\ SetToSeq(J) \in Seq(J)
        /\ \A i, j \in 1 .. Len(SetToSeq(J)) : SetToSeq(J)[i] = SetToSeq(J)[j] => i = j
        /\ \A x \in J : \E i \in 1 .. Len(SetToSeq(J)) : SetToSeq(J)[i] = x
    BY <1>5, Enumerates
  <1>7. SetToSeq(J) \in Seq(Seq(Statement)) BY <1>2, <1>6
  <1>8. \A i \in 1 .. Len(SetToSeq(J)) : SetToSeq(J)[i] \in J BY <1>6
  <1> QED BY <1>4, <1>6, <1>7, <1>8 DEF J

LEMMA RestartTyped ==
    ASSUME TypeOK, Restart
    PROVE  TypeOK'
  <1>1. faults' \in 0 .. MaxFault BY GuildWarAssumption DEF TypeOK, Restart, Fault
  <1>2. enemy' \in [War -> State] /\ listed' \subseteq War BY StopTyped DEF Restart
  <1>3. gd' \in Seq([op : FromCore, war : War]) /\ dg' \in Seq([op : ToCore, war : War])
    BY DEF Restart
  <1>4. /\ up' \in BOOLEAN /\ UNCHANGED <<now, db, crowded, starts, requests>>
        /\ declared' = {} /\ waiting' = {} /\ onWar' = {}
        /\ fight' = [w \in War |-> NoWar] /\ begun' = [r \in Reservation |-> 0]
    BY DEF Restart
  <1>5. sql' \in Seq(Seq(Statement))
    <2> DEFINE stale == {r \in {s \in Reservation : row[s] # NoRow} : Stale(r)}
    <2>1. sql' = SetToSeq({Draw(r) : r \in stale}) BY DEF Restart
    <2>2. stale \subseteq Reservation OBVIOUS
    <2> HIDE DEF stale
    <2> QED BY <2>1, <2>2, RestartJobs
  <1>6. reserve' \in [Reservation -> {"no", "waits", "started"}] BY DEF Restart
  <1>7. begun' \in [Reservation -> Nat] BY <1>4
  <1>8. fight' \in [War -> [clock : Clock, res : Reservation \cup {NoReservation}] \cup {NoWar}] BY <1>4
  <1> QED BY <1>1, <1>2, <1>3, <1>4, <1>5, <1>6, <1>7, <1>8 DEF TypeOK, db

LEMMA ReconnectTyped ==
    ASSUME TypeOK, RowsOK, WarsOK, Reconnect
    PROVE  TypeOK'
  <1> DEFINE on == {w \in War : fight[w] # NoWar}
             waits == {s \in Reservation : reserve[s] = "waits"}
             f == [r \in waits |-> row[r].war]
             pending == {row[r].war : r \in waits}
  <1>1. on \subseteq War /\ declared \subseteq War BY DEF WarsOK
  <1>2. pending \subseteq War
    <2>1. \A r \in waits : row[r] \in Row BY DEF TypeOK, RowsOK, Row
    <2> QED BY <2>1 DEF Row
  <1>3. IsFiniteSet(on) /\ IsFiniteSet(declared) /\ IsFiniteSet(pending)
    BY <1>1, <1>2, GuildWarAssumption, FS_Subset
  <1>4. dg' = Msgs("on", on) \o Msgs("declare", declared) \o Msgs("reserve", pending)
    BY DEF Reconnect
  <1> HIDE DEF on, pending
  <1>5. /\ Msgs("on", on) \in Seq(ToCoreMsg) /\ Msgs("declare", declared) \in Seq(ToCoreMsg)
        /\ Msgs("reserve", pending) \in Seq(ToCoreMsg)
    BY <1>1, <1>2, <1>3, MsgsTyped DEF ToCore
  <1>6. dg' \in Seq([op : ToCore, war : War]) BY <1>4, <1>5 DEF ToCoreMsg
  <1>7. up' \in BOOLEAN /\ UNCHANGED <<now, db, daemon, core, gd, history>> BY DEF Reconnect
  <1> QED BY <1>6, <1>7 DEF TypeOK, db, daemon, core, history

LEMMA BetTyped ==
    ASSUME TypeOK, NEW r \in Reservation, Bet(r)
    PROVE  TypeOK'
  BY DEF TypeOK, Bet, daemon, core, net, history

LEMMA InitTyped == Init => TypeOK
  <1> SUFFICES ASSUME Init PROVE TypeOK OBVIOUS
  <1> USE GuildWarAssumption
  <1>1. /\ gd \in Seq([op : FromCore, war : War]) /\ dg \in Seq([op : ToCore, war : War])
        /\ sql \in Seq(Seq(Statement))
    BY DEF Init
  <1>2. fight \in [War -> [clock : Clock, res : Reservation \cup {NoReservation}] \cup {NoWar}]
    BY DEF Init
  <1>3. /\ row \in [Reservation -> Row \cup {NoRow}]
        /\ paid \in [Reservation -> Nat] /\ begun \in [Reservation -> Nat]
        /\ reserve \in [Reservation -> {"no", "waits", "started"}]
        /\ enemy \in [War -> State]
    BY DEF Init, State
  <1>4. /\ now \in 0 .. MaxTime /\ starts \in 0 .. MaxStart
        /\ requests \in 0 .. MaxRequest /\ faults \in 0 .. MaxFault
    BY DEF Init
  <1>5. /\ staked \subseteq Reservation /\ declared \subseteq War /\ listed \subseteq War
        /\ waiting \subseteq [at : Nat, res : Reservation]
        /\ onWar \subseteq [id : Clock, war : War, at : Nat]
        /\ up \in BOOLEAN /\ crowded \in BOOLEAN
    BY DEF Init
  <1> QED BY <1>1, <1>2, <1>3, <1>4, <1>5 DEF TypeOK

-----------------------------------------------------------------------------
(* Stakes *)

Stakes == <<row, staked, paid, reserve, waiting, sql, begun, crowded>>

\* Nothing is told of a reservation but that its war is no longer fought.
LEMMA QuietStakes ==
    ASSUME StakeInv, UNCHANGED Stakes,
           \A w \in War : fight'[w].res \in {fight[w].res, NoReservation}
    PROVE  StakeInv'
  <1> USE DEF Stakes
  <1>1. RowsOK' BY DEF StakeInv, RowsOK
  <1>2. JobsOK' BY DEF StakeInv, JobsOK
  <1>3. Drawn' = Drawn BY DEF Drawn
  <1>4. ~crowded' => Course' BY <1>3 DEF StakeInv, Course
  <1>5. ~crowded' => PaymentsOK' BY DEF StakeInv, PaymentsOK
  <1>6. Kept' BY DEF StakeInv, Kept
  <1> QED BY <1>1, <1>2, <1>4, <1>5, <1>6 DEF StakeInv

LEMMA RemovedStake ==
    ASSUME TypeOK, NEW w \in War, RemoveWar(w)
    PROVE  /\ fight'[w].res = NoReservation
           /\ \A v \in War : v # w => fight'[v] = fight[v]
  BY DEF TypeOK, RemoveWar, NoWar

LEMMA QuietReceive ==
    ASSUME TypeOK, StakeInv, NEW w \in War,
           \/ AddDeclare(w) \/ RemoveDeclare(w) \/ StartFieldWar(w) \/ ReserveWarFails(w)
           \/ RecvWarEnd(w) \/ CancelWar(w)
    PROVE  StakeInv'
  <1>1. UNCHANGED Stakes
    BY DEF AddDeclare, RemoveDeclare, StartFieldWar, ReserveWarFails, RecvWarEnd, CancelWar, Receive,
           Stakes
  <1>2. \A v \in War : fight'[v].res \in {fight[v].res, NoReservation}
    <2>1. CASE fight' = fight BY <2>1
    <2>2. CASE RemoveWar(w) BY <2>2, RemovedStake
    <2>3. CASE StartFieldWar(w) BY <2>3 DEF StartFieldWar, TypeOK
    <2> QED BY <2>1, <2>2, <2>3 DEF AddDeclare, RemoveDeclare, ReserveWarFails, RecvWarEnd, CancelWar
  <1> QED BY <1>1, <1>2, QuietStakes

LEMMA QuietRest ==
    ASSUME StakeInv,
           \/ Disconnect \/ Reconnect \/ UNCHANGED vars
           \/ \E w \in War :
                 \/ RequestDeclareWar(w) \/ AcceptWar(w) \/ RequestRefuseWar(w)
                 \/ \E op \in {"over", "draw"} : RequestWarOver(w, op)
                 \/ RequestEndWar(w) \/ RequestCancelWar(w)
                 \/ DeclareWar(w) \/ RefuseWar(w) \/ CoreReserveWar(w) \/ WaitStartWar(w)
                 \/ StartWar(w) \/ RecvEndWar(w)
    PROVE  StakeInv'
  <1>1. UNCHANGED Stakes /\ fight' = fight
    BY DEF Disconnect, Reconnect, vars, RequestDeclareWar, AcceptWar, RequestRefuseWar, RequestWarOver,
           RequestEndWar, RequestCancelWar, Request, DeclareWar, RefuseWar, CoreReserveWar,
           WaitStartWar, StartWar, RecvEndWar, Handle, Stakes, db, daemon, history
  <1> QED BY <1>1, QuietStakes

LEMMA BetStakes ==
    ASSUME TypeOK, StakeInv, NEW r \in Reservation, Bet(r)
    PROVE  StakeInv'
  <1>1. /\ reserve[r] = "waits" /\ staked' = staked \cup {r}
        /\ UNCHANGED <<row, paid, reserve, waiting, sql, begun, crowded, fight>>
    BY DEF Bet, daemon, history
  <1>2. RowsOK' BY <1>1 DEF StakeInv, RowsOK
  <1>3. JobsOK' BY <1>1 DEF StakeInv, JobsOK
  <1>4. Drawn' = Drawn BY <1>1 DEF Drawn
  <1>5. ~crowded' => Course' BY <1>1, <1>4 DEF StakeInv, Course
  <1>6. ~crowded' => PaymentsOK' BY <1>1 DEF StakeInv, PaymentsOK
  <1>7. Kept' BY <1>1 DEF StakeInv, Kept
  <1> QED BY <1>2, <1>3, <1>5, <1>6, <1>7 DEF StakeInv

\* The jobs of the async connection after some more were added.
LEMMA MoreJobs ==
    ASSUME TypeOK, NEW s \in Seq(Seq(Statement)), sql' = sql \o s
    PROVE  /\ Len(sql) \in Nat /\ Len(s) \in Nat /\ Len(sql') = Len(sql) + Len(s)
           /\ \A i \in 1 .. Len(sql) : i \in 1 .. Len(sql') /\ sql'[i] = sql[i]
           /\ \A i \in 1 .. Len(s) : Len(sql) + i \in 1 .. Len(sql') /\ sql'[Len(sql) + i] = s[i]
           /\ \A i \in 1 .. Len(sql') : \/ i \in 1 .. Len(sql) /\ sql'[i] = sql[i]
                                        \/ /\ i > Len(sql) /\ i - Len(sql) \in 1 .. Len(s)
                                           /\ sql'[i] = s[i - Len(sql)]
  <1>1. sql \in Seq(Seq(Statement)) BY DEF TypeOK
  <1>2. /\ Len(sql) \in Nat /\ Len(s) \in Nat /\ Len(sql') = Len(sql) + Len(s)
        /\ \A i \in 1 .. Len(sql) : sql'[i] = sql[i]
        /\ \A i \in 1 .. Len(s) : sql'[Len(sql) + i] = s[i]
    BY <1>1
  <1>3. ASSUME NEW i \in 1 .. Len(sql'), i \notin 1 .. Len(sql)
        PROVE  /\ i > Len(sql) /\ i - Len(sql) \in 1 .. Len(s)
               /\ sql'[i] = s[i - Len(sql)]
    <2>1. i > Len(sql) /\ i - Len(sql) \in 1 .. Len(s) /\ Len(sql) + (i - Len(sql)) = i
      BY <1>2, <1>3
    <2> QED BY <1>2, <2>1
  <1>4. \A i \in 1 .. Len(s) : Len(sql) + i \in 1 .. Len(sql') BY <1>2
  <1>5. \A i \in 1 .. Len(sql) : i \in 1 .. Len(sql') BY <1>2
  <1> QED BY <1>2, <1>3, <1>4, <1>5

\* A new reservation has no job: jobs are only about reservations with a row.
LEMMA ReserveStakes ==
    ASSUME TypeOK, StakeInv, NEW w \in War, NEW r \in Reservation, ReserveWar(w, r)
    PROVE  StakeInv'
  <1> USE GuildWarAssumption
  <1> DEFINE new == [war |-> w, at |-> now + ReserveTime, started |-> FALSE, winner |-> FALSE]
  <1>1. /\ row[r] = NoRow /\ row' = [row EXCEPT ![r] = new]
        /\ reserve' = [reserve EXCEPT ![r] = "waits"]
        /\ UNCHANGED <<staked, paid, waiting, sql, begun, crowded, fight>>
    BY DEF ReserveWar, history
  <1>2. new \in Row /\ ~new.started /\ ~new.winner BY DEF TypeOK, Row
  <1> HIDE DEF new
  <1>3. /\ row'[r] = new /\ row'[r] # NoRow
        /\ \A q \in Reservation : q # r => row'[q] = row[q]
        /\ reserve'[r] = "waits"
        /\ \A q \in Reservation : q # r => reserve'[q] = reserve[q]
        /\ reserve[r] = "no" /\ r \notin staked
    <2>1. reserve[r] = "no" /\ r \notin staked BY <1>1 DEF StakeInv, RowsOK
    <2> QED BY <1>1, <1>2, <2>1 DEF TypeOK
  <1>4. \A i \in 1 .. Len(sql) : ~Draws(sql[i], r) /\ ~Pays(sql[i], r)
    <2> SUFFICES ASSUME NEW i \in 1 .. Len(sql) PROVE ~Draws(sql[i], r) /\ ~Pays(sql[i], r)
      OBVIOUS
    <2>1. PICK q \in Reservation : row[q] # NoRow /\ (sql[i] = StartJob(q) \/ Draws(sql[i], q))
      BY DEF StakeInv, JobsOK
    <2>2. q # r BY <1>1, <2>1
    <2> QED BY <2>1, <2>2, JobsDiffer DEF Draws, Pays
  <1>5. RowsOK'
    <2>1. \A e \in waiting' : reserve'[e.res] = "started"
      BY <1>1, <1>3 DEF StakeInv, RowsOK, TypeOK
    <2>2. \A v \in War : fight'[v].res # NoReservation => reserve'[fight'[v].res] = "started"
      <3>1. \A v \in War : fight[v].res # NoReservation => fight[v].res \in Reservation
        BY DEF TypeOK, NoWar
      <3> QED BY <1>1, <1>3, <3>1 DEF StakeInv, RowsOK
    <2> QED BY <1>1, <1>2, <1>3, <2>1, <2>2 DEF StakeInv, RowsOK
  <1>6. JobsOK'
    <2> SUFFICES ASSUME NEW i \in 1 .. Len(sql)
                 PROVE  \E q \in Reservation : /\ row'[q] # NoRow
                                               /\ sql[i] = StartJob(q) \/ Draws(sql[i], q)
                                               /\ sql[i] = PayJob(q) => row'[q].winner
      BY <1>1 DEF JobsOK
    <2>1. PICK q \in Reservation : /\ row[q] # NoRow
                                   /\ sql[i] = StartJob(q) \/ Draws(sql[i], q)
                                   /\ sql[i] = PayJob(q) => row[q].winner
      BY DEF StakeInv, JobsOK
    <2> QED BY <1>1, <1>3, <2>1
  <1>7. ASSUME ~crowded' PROVE Course' /\ PaymentsOK'
    <2>1. Course /\ PaymentsOK BY <1>1, <1>7 DEF StakeInv
    <2>2. Drawn' = Drawn BY <1>1 DEF Drawn
    <2>3. r \notin Drawn
      <3>1. paid[r] <= 1 /\ paid[r] # 1 /\ paid[r] \in Nat
        BY <1>1, <2>1 DEF PaymentsOK, TypeOK
      <3> QED BY <1>4, <3>1 DEF Drawn
    <2>4. \A v \in War : fight[v].res # NoReservation =>
                            fight[v].res \in Reservation /\ fight[v].res # r
      BY <1>3 DEF TypeOK, NoWar, StakeInv, RowsOK
    <2>5. \A e \in waiting : e.res \in Reservation BY DEF TypeOK
    <2>6. \A v \in War : fight'[v].res # NoReservation =>
             /\ begun'[fight'[v].res] = 1 /\ fight'[v].res \notin Drawn'
             /\ row'[fight'[v].res].war = v
      BY <1>1, <1>3, <2>1, <2>2, <2>4 DEF Course
    <2>7. \A e, f \in waiting' :
             begun'[e.res] = 0 /\ e.res \notin Drawn' /\ (e.res = f.res => e = f)
      BY <1>1, <2>1, <2>2, <2>5 DEF Course
    <2>8. \A q \in Reservation :
             /\ reserve'[q] = "waits" => q \notin Drawn'
             /\ reserve'[q] # "started" => begun'[q] = 0
             /\ begun'[q] = 1 \/ (begun'[q] = 0
                                  /\ (reserve'[q] = "started" => \E e \in waiting' : e.res = q))
      <3>1. \A q \in Reservation :
               /\ reserve[q] = "waits" => q \notin Drawn
               /\ reserve[q] # "started" => begun[q] = 0
               /\ begun[q] = 1 \/ (begun[q] = 0
                                  /\ (reserve[q] = "started" => \E e \in waiting : e.res = q))
        BY <2>1 DEF Course
      <3>2. begun[r] = 0 BY <1>3, <3>1
      <3>3. UNCHANGED <<begun, waiting>> BY <1>1
      <3> QED BY <1>3, <2>2, <2>3, <3>1, <3>2, <3>3
    <2>9. Course' BY <2>6, <2>7, <2>8 DEF Course
    <2>10. PaymentsOK' BY <1>1, <1>3, <2>1 DEF PaymentsOK
    <2> QED BY <2>9, <2>10
  <1>8. Kept' BY <1>1, <1>3 DEF StakeInv, Kept, TypeOK
  <1> QED BY <1>5, <1>6, <1>7, <1>8 DEF StakeInv

\* The war of the reservation q is over: the first job that settles q.
LEMMA SettleStakes ==
    ASSUME TypeOK, StakeInv, NEW w \in War, NEW job,
           LET q == fight[w].res IN q # NoReservation /\ job \in {SettleJob(q), DrawJob(q)},
           sql' = sql \o <<job>>, RemoveWar(w),
           UNCHANGED <<row, staked, paid, reserve, waiting, begun, crowded>>
    PROVE  StakeInv'
  <1> DEFINE q == fight[w].res
  <1>1. q \in Reservation /\ reserve[q] = "started" /\ row[q] # NoRow
    BY DEF TypeOK, NoWar, StakeInv, RowsOK
  <1>2. job \in {SettleJob(q), DrawJob(q)} OBVIOUS
  <1>3. /\ \A v \in War : fight'[v].res # NoReservation => v # w /\ fight'[v] = fight[v]
    BY RemovedStake
  <1>4. \A v \in War : fight[v].res # NoReservation => fight[v].res \in Reservation
    BY DEF TypeOK, NoWar
  <1>5. /\ Len(sql) \in Nat /\ Len(sql') = Len(sql) + 1
        /\ \A i \in 1 .. Len(sql) : i \in 1 .. Len(sql') /\ sql'[i] = sql[i]
        /\ \A i \in 1 .. Len(sql') : \/ i \in 1 .. Len(sql) /\ sql'[i] = sql[i]
                                     \/ i = Len(sql) + 1 /\ sql'[i] = job
    <2>1. SettleJob(q) \in Seq(Statement) /\ DrawJob(q) \in Seq(Statement) BY <1>1, JobsAre
    <2>2. job \in Seq(Statement) BY <1>2, <2>1
    <2> HIDE DEF q
    <2>3. sql \in Seq(Seq(Statement)) BY DEF TypeOK
    <2> QED BY <2>2, <2>3
  <1>6. Draws(job, q) /\ \A r \in Reservation : r # q => ~Draws(job, r) /\ ~Pays(job, r)
    <2> HIDE DEF q
    <2> QED BY <1>2, JobsDiffer DEF Draws, Pays
  <1>7. job # PayJob(q)
    <2> HIDE DEF q
    <2> QED BY <1>2, JobsDiffer
  <1> HIDE DEF q
  <1>8. RowsOK'
    <2>1. \A v \in War : fight'[v].res # NoReservation => reserve'[fight'[v].res] = "started"
      BY <1>3 DEF StakeInv, RowsOK
    <2> QED BY <2>1 DEF StakeInv, RowsOK
  <1>9. JobsOK'
    <2> SUFFICES ASSUME NEW i \in 1 .. Len(sql')
                 PROVE  \E r \in Reservation : /\ row[r] # NoRow
                                               /\ sql'[i] = StartJob(r) \/ Draws(sql'[i], r)
                                               /\ sql'[i] = PayJob(r) => row[r].winner
      BY DEF JobsOK
    <2>1. CASE sql'[i] = job BY <1>1, <1>6, <1>7, <2>1
    <2>2. CASE i \in 1 .. Len(sql) /\ sql'[i] = sql[i] BY <2>2 DEF StakeInv, JobsOK
    <2> QED BY <1>5, <2>1, <2>2
  <1>10. ASSUME ~crowded' PROVE Course' /\ PaymentsOK'
    <2>1. Course /\ PaymentsOK BY <1>10 DEF StakeInv
    <2>2. Drawn' = Drawn \cup {q}
      <3>1. ASSUME NEW r \in Reservation, r # q PROVE r \in Drawn' <=> r \in Drawn
        <4>1. (\E i \in 1 .. Len(sql') : Draws(sql'[i], r)) <=> \E i \in 1 .. Len(sql) : Draws(sql[i], r)
          BY <1>5, <1>6, <3>1
        <4> QED BY <4>1 DEF Drawn
      <3>2. q \in Drawn'
        <4>1. Len(sql) + 1 \in 1 .. Len(sql') BY <1>5
        <4>2. sql'[Len(sql) + 1] = job BY <1>5, <4>1
        <4> QED BY <1>1, <1>6, <4>1, <4>2 DEF Drawn
      <3> QED BY <1>1, <3>1, <3>2 DEF Drawn
    <2>3. begun[q] = 1 /\ q \notin Drawn /\ row[q].war = w BY <2>1 DEF Course, q
    <2>4. \A r \in Reservation :
             /\ reserve'[r] = "waits" => r \notin Drawn'
             /\ reserve'[r] # "started" => begun'[r] = 0
             /\ begun'[r] = 1 \/ (begun'[r] = 0
                                  /\ (reserve'[r] = "started" => \E e \in waiting' : e.res = r))
      BY <1>1, <2>1, <2>2 DEF Course
    <2>5. \A e, f \in waiting' :
             begun'[e.res] = 0 /\ e.res \notin Drawn' /\ (e.res = f.res => e = f)
      BY <2>1, <2>2, <2>3 DEF Course
    <2>6. \A v \in War : fight'[v].res # NoReservation =>
             /\ begun'[fight'[v].res] = 1 /\ fight'[v].res \notin Drawn'
             /\ row'[fight'[v].res].war = v
      BY <1>3, <2>1, <2>2, <2>3 DEF Course
    <2>7. Course' BY <2>4, <2>5, <2>6 DEF Course
    <2>8. paid[q] = 0 /\ \A i \in 1 .. Len(sql) : ~Pays(sql[i], q)
      <3>1. paid[q] \in Nat BY <1>1 DEF TypeOK
      <3> QED BY <1>1, <2>3, <3>1 DEF Drawn, Draws
    <2>9. PaymentsOK'
      <3> SUFFICES ASSUME NEW r \in Reservation
                   PROVE  /\ paid[r] <= 1
                          /\ paid[r] = 1 => /\ row[r] # NoRow /\ row[r].winner
                                            /\ \A i \in 1 .. Len(sql') : ~Pays(sql'[i], r)
                          /\ \A i, j \in 1 .. Len(sql') :
                                Pays(sql'[i], r) /\ Pays(sql'[j], r) => i = j
        BY DEF PaymentsOK
      <3>1. CASE r = q BY <1>5, <2>8, <3>1
      <3>2. CASE r # q BY <1>5, <1>6, <2>1, <3>2 DEF PaymentsOK
      <3> QED BY <3>1, <3>2
    <2> QED BY <2>7, <2>9
  <1>11. Kept' BY <1>5 DEF StakeInv, Kept
  <1> QED BY <1>8, <1>9, <1>10, <1>11 DEF StakeInv

LEMMA OverStakes ==
    ASSUME TypeOK, StakeInv, NEW w \in War, NEW op \in {"over", "draw"}, NEW won \in BOOLEAN,
           RecvWarOver(w, op, won)
    PROVE  StakeInv'
  <1> DEFINE q == fight[w].res
  <1>1. /\ sql' = sql \o Settlement(w, op, won) /\ RemoveWar(w)
        /\ UNCHANGED <<row, staked, paid, reserve, waiting, begun, crowded>>
    BY DEF RecvWarOver, Receive
  <1>2. CASE Settlement(w, op, won) = <<>>
    <2>1. sql' = sql BY <1>1, <1>2 DEF TypeOK
    <2>2. \A v \in War : fight'[v].res \in {fight[v].res, NoReservation} BY <1>1, RemovedStake
    <2>3. UNCHANGED Stakes BY <1>1, <2>1 DEF Stakes
    <2> QED BY <2>2, <2>3, QuietStakes
  <1>3. CASE Settlement(w, op, won) # <<>>
    <2>1. q \in Reservation BY <1>3 DEF Settlement, TypeOK
    <2>2. q # NoReservation BY <2>1, GuildWarAssumption
    <2>3. Settlement(w, op, won) = <<Draw(q)>> \/ Settlement(w, op, won) = <<End(q, won)>>
      BY <1>3 DEF Settlement
    <2>4. Draw(q) \in {SettleJob(q), DrawJob(q)} /\ End(q, won) \in {SettleJob(q), DrawJob(q)}
      BY <2>1, JobsAre
    <2>5. PICK job \in {SettleJob(q), DrawJob(q)} : Settlement(w, op, won) = <<job>>
      BY <2>3, <2>4
    <2>6. sql' = sql \o <<job>> BY <1>1, <2>5
    <2> QED BY <1>1, <2>2, <2>5, <2>6, SettleStakes
  <1> QED BY <1>2, <1>3

\* A statement is executed: its job is shorter, or gone.
LEMMA ExecuteStakes ==
    ASSUME TypeOK, StakeInv, ExecuteQuery
    PROVE  StakeInv'
  <1>0. JobsOK BY DEF StakeInv
  <1>1. PICK r \in Reservation :
             /\ row[r] \in Row /\ 1 \in 1 .. Len(sql)
             /\ \/ sql[1] = StartJob(r) /\ sql' = Tail(sql) /\ UNCHANGED paid
                   /\ row' = [row EXCEPT ![r].started = TRUE]
                \/ sql[1] = SettleJob(r) /\ sql' = Tail(sql) /\ UNCHANGED paid
                   /\ row' = [row EXCEPT ![r].started = TRUE, ![r].winner = TRUE]
                \/ sql[1] = DrawJob(r) /\ sql' = [sql EXCEPT ![1] = PayJob(r)] /\ UNCHANGED paid
                   /\ row' = [row EXCEPT ![r].started = TRUE, ![r].winner = TRUE]
                \/ sql[1] = PayJob(r) /\ sql' = Tail(sql) /\ UNCHANGED row
                   /\ row[r].winner /\ paid' = [paid EXCEPT ![r] = @ + 1]
    BY <1>0, Executed
  <1>2. UNCHANGED <<staked, reserve, waiting, fight, begun, crowded>>
    BY DEF ExecuteQuery, history
  <1>3. sql \in Seq(Seq(Statement)) /\ Len(sql) \in Nat /\ Len(sql) >= 1 BY <1>1 DEF TypeOK
  \* What the row of r says after the statement.
  <1>4. /\ row'[r] \in Row /\ row'[r].war = row[r].war
        /\ row[r].winner => row'[r].winner
        /\ sql[1] \in {SettleJob(r), DrawJob(r), PayJob(r)} => row'[r].winner
        /\ row'[r].winner => row'[r].started
        /\ \A q \in Reservation : q # r => row'[q] = row[q]
    <2>1. row \in [Reservation -> Row \cup {NoRow}] /\ row[r] # NoRow
      BY <1>1, GuildWarAssumption DEF TypeOK
    <2>2. row[r].winner => row[r].started BY <2>1 DEF StakeInv, RowsOK
    <2>3. CASE sql[1] = StartJob(r)
      <3>1. row' = [row EXCEPT ![r].started = TRUE] BY <1>1, <2>3, JobsDiffer
      <3> QED BY <1>1, <2>1, <2>3, <3>1, JobsDiffer DEF Row
    <2>4. CASE sql[1] \in {SettleJob(r), DrawJob(r)}
      <3>1. row' = [row EXCEPT ![r].started = TRUE, ![r].winner = TRUE] BY <1>1, <2>4, JobsDiffer
      <3> DEFINE x == [[row[r] EXCEPT !.started = TRUE] EXCEPT !.winner = TRUE]
      <3>2. x \in Row /\ x.war = row[r].war /\ x.winner /\ x.started BY <1>1 DEF Row
      <3>3. row' = [row EXCEPT ![r] = x] BY <2>1, <3>1
      <3> HIDE DEF x
      <3> QED BY <2>1, <3>2, <3>3
    <2>5. CASE sql[1] = PayJob(r)
      <3>1. row' = row /\ row[r].winner BY <1>1, <2>5, JobsDiffer
      <3> QED BY <1>1, <2>2, <3>1
    <2> QED BY <1>1, <2>3, <2>4, <2>5
  <1>5. /\ row[r] # NoRow /\ row'[r] # NoRow
        /\ \A q \in Reservation : row[q] # NoRow <=> row'[q] # NoRow
        /\ \A q \in Reservation : row[q] # NoRow /\ row[q].winner => row'[q].winner
        /\ \A q \in Reservation : row'[q].war = row[q].war
    BY <1>1, <1>4, GuildWarAssumption, SMTT(30)
  <1>6. \/ /\ sql' = Tail(sql) /\ Len(sql') = Len(sql) - 1
           /\ \A i \in 1 .. Len(sql') : i + 1 \in 1 .. Len(sql) /\ sql'[i] = sql[i + 1]
        \/ /\ sql[1] = DrawJob(r) /\ sql' = [sql EXCEPT ![1] = PayJob(r)]
           /\ Len(sql') = Len(sql) /\ sql'[1] = PayJob(r)
           /\ \A i \in 1 .. Len(sql') : i # 1 => i \in 1 .. Len(sql) /\ sql'[i] = sql[i]
    <2>1. CASE sql' = Tail(sql) BY <1>3, <2>1
    <2>2. CASE sql[1] = DrawJob(r) /\ sql' = [sql EXCEPT ![1] = PayJob(r)]
      <3>1. /\ DOMAIN sql = 1 .. Len(sql) /\ 1 \in DOMAIN sql /\ DOMAIN sql' = DOMAIN sql
            /\ \A i \in DOMAIN sql : sql'[i] = IF i = 1 THEN PayJob(r) ELSE sql[i]
        BY <1>3, <2>2
      <3>2. sql' \in Seq(Seq(Statement) \cup {PayJob(r)}) BY <1>3, <2>2
      <3>3. Len(sql') = Len(sql) BY <1>3, <3>1, <3>2
      <3> QED BY <2>2, <3>1, <3>3
    <2> QED BY <1>1, <2>1, <2>2
  \* Where a job was before the statement.
  <1>7. ASSUME NEW i \in 1 .. Len(sql')
        PROVE  \E j \in 1 .. Len(sql) :
                   /\ \/ sql'[i] = sql[j]
                      \/ i = 1 /\ j = 1 /\ sql[1] = DrawJob(r) /\ sql'[i] = PayJob(r)
                   /\ j = i \/ (j = i + 1 /\ sql' = Tail(sql))
    BY <1>3, <1>6
  <1>8. RowsOK' BY <1>2, <1>4, <1>5 DEF StakeInv, RowsOK
  <1>9. JobsOK'
    <2> SUFFICES ASSUME NEW i \in 1 .. Len(sql')
                 PROVE  \E q \in Reservation : /\ row'[q] # NoRow
                                               /\ sql'[i] = StartJob(q) \/ Draws(sql'[i], q)
                                               /\ sql'[i] = PayJob(q) => row'[q].winner
      BY DEF JobsOK
    <2>1. CASE sql[1] = DrawJob(r) /\ sql'[i] = PayJob(r)
      BY <1>4, <1>5, <2>1 DEF Draws, Pays
    <2>2. ASSUME NEW j \in 1 .. Len(sql), sql'[i] = sql[j]
          PROVE  \E q \in Reservation : /\ row'[q] # NoRow
                                        /\ sql'[i] = StartJob(q) \/ Draws(sql'[i], q)
                                        /\ sql'[i] = PayJob(q) => row'[q].winner
      BY <1>5, <2>2 DEF StakeInv, JobsOK
    <2> QED BY <1>7, <2>1, <2>2
  \* A payment goes on to be one until it is made.
  <1>10. \A i \in 1 .. Len(sql') : \A q : Draws(sql'[i], q) => \E j \in 1 .. Len(sql) : Draws(sql[j], q)
    <2> SUFFICES ASSUME NEW i \in 1 .. Len(sql'), NEW q, Draws(sql'[i], q)
                 PROVE  \E j \in 1 .. Len(sql) : Draws(sql[j], q)
      OBVIOUS
    <2>1. CASE sql[1] = DrawJob(r) /\ sql'[i] = PayJob(r)
      <3>1. q = r BY <2>1, JobsDiffer DEF Draws, Pays
      <3> QED BY <1>1, <2>1, <3>1 DEF Draws, Pays
    <2> QED BY <1>7, <2>1
  <1>11. Drawn' \subseteq Drawn
    <2> SUFFICES ASSUME NEW q \in Drawn' PROVE q \in Drawn OBVIOUS
    <2>1. q \in Reservation /\ (paid'[q] > 0 \/ \E i \in 1 .. Len(sql') : Draws(sql'[i], q))
      BY DEF Drawn
    <2>2. CASE \E i \in 1 .. Len(sql') : Draws(sql'[i], q) BY <1>10, <2>1, <2>2 DEF Drawn
    <2>3. CASE paid'[q] > 0 /\ ~(paid[q] > 0)
      <3>1. q = r /\ sql[1] = PayJob(r) BY <1>1, <2>1, <2>3 DEF TypeOK
      <3> QED BY <1>1, <3>1 DEF Drawn, Draws, Pays
    <2> QED BY <2>1, <2>2, <2>3 DEF Drawn
  <1>12. ASSUME ~crowded' PROVE Course'
    <2>1. Course BY <1>2, <1>12 DEF StakeInv
    <2>2. \A v \in War : fight[v].res # NoReservation => fight[v].res \in Reservation
      BY DEF TypeOK, NoWar
    <2>3. \A v \in War : fight'[v].res # NoReservation =>
             /\ begun'[fight'[v].res] = 1 /\ fight'[v].res \notin Drawn'
             /\ row'[fight'[v].res].war = v
      BY <1>2, <1>5, <1>11, <2>1, <2>2 DEF Course
    <2>4. \A e, f \in waiting' :
             begun'[e.res] = 0 /\ e.res \notin Drawn' /\ (e.res = f.res => e = f)
      BY <1>2, <1>11, <2>1 DEF Course
    <2>5. \A q \in Reservation :
             /\ reserve'[q] = "waits" => q \notin Drawn'
             /\ reserve'[q] # "started" => begun'[q] = 0
             /\ begun'[q] = 1 \/ (begun'[q] = 0
                                  /\ (reserve'[q] = "started" => \E e \in waiting' : e.res = q))
      BY <1>2, <1>11, <2>1 DEF Course
    <2> QED BY <2>3, <2>4, <2>5 DEF Course
  <1>13. ASSUME ~crowded' PROVE PaymentsOK'
    <2>1. PaymentsOK BY <1>2, <1>13 DEF StakeInv
    <2>2. \A i \in 1 .. Len(sql') : \A q : Pays(sql'[i], q) =>
              \E j \in 1 .. Len(sql) : Pays(sql[j], q) /\ (j = i \/ (j = i + 1 /\ sql' = Tail(sql)))
      <3> SUFFICES ASSUME NEW i \in 1 .. Len(sql'), NEW q, Pays(sql'[i], q)
                   PROVE  \E j \in 1 .. Len(sql) :
                              Pays(sql[j], q) /\ (j = i \/ (j = i + 1 /\ sql' = Tail(sql)))
        OBVIOUS
      <3>1. PICK j \in 1 .. Len(sql) :
                   /\ \/ sql'[i] = sql[j]
                      \/ i = 1 /\ j = 1 /\ sql[1] = DrawJob(r) /\ sql'[i] = PayJob(r)
                   /\ j = i \/ (j = i + 1 /\ sql' = Tail(sql))
        BY <1>7
      <3>2. CASE j = 1 /\ sql[1] = DrawJob(r) /\ sql'[i] = PayJob(r)
        <4>1. q = r BY <3>2, JobsDiffer DEF Pays
        <4> QED BY <3>1, <3>2, <4>1 DEF Pays
      <3> QED BY <3>1, <3>2
    <2>3. \A q \in Reservation : \A i, j \in 1 .. Len(sql') :
              Pays(sql'[i], q) /\ Pays(sql'[j], q) => i = j
      <3> SUFFICES ASSUME NEW q \in Reservation, NEW i \in 1 .. Len(sql'), NEW j \in 1 .. Len(sql'),
                          Pays(sql'[i], q), Pays(sql'[j], q)
                   PROVE  i = j
        OBVIOUS
      <3>1. CASE sql' = Tail(sql)
        <4>1. sql'[i] = sql[i + 1] /\ sql'[j] = sql[j + 1]
              /\ i + 1 \in 1 .. Len(sql) /\ j + 1 \in 1 .. Len(sql)
          BY <1>3, <3>1
        <4>2. i + 1 = j + 1 BY <2>1, <4>1 DEF PaymentsOK
        <4> QED BY <4>2
      <3>2. CASE sql' # Tail(sql)
        <4>1. /\ i \in 1 .. Len(sql) /\ Pays(sql[i], q)
              /\ j \in 1 .. Len(sql) /\ Pays(sql[j], q)
          BY <2>2, <3>2
        <4> QED BY <2>1, <4>1 DEF PaymentsOK
      <3> QED BY <3>1, <3>2
    <2>4. ASSUME NEW q \in Reservation
          PROVE  /\ paid'[q] <= 1
                 /\ paid'[q] = 1 => /\ row'[q] # NoRow /\ row'[q].winner
                                    /\ \A i \in 1 .. Len(sql') : ~Pays(sql'[i], q)
      <3>1. paid[q] \in Nat /\ paid[q] <= 1 BY <2>1 DEF PaymentsOK, TypeOK
      <3>2. paid[q] = 1 => \A i \in 1 .. Len(sql) : ~Pays(sql[i], q)
        BY <2>1 DEF PaymentsOK
      <3>3. CASE paid'[q] = paid[q]
        <4>1. paid[q] = 1 => row[q] # NoRow /\ row[q].winner BY <2>1 DEF PaymentsOK
        <4> QED BY <1>5, <2>2, <3>1, <3>2, <3>3, <4>1
      <3>4. CASE paid'[q] # paid[q]
        <4>1. /\ q = r /\ sql[1] = PayJob(r) /\ sql' = Tail(sql) /\ row' = row
              /\ row[r].winner /\ paid'[q] = paid[q] + 1
          BY <1>1, <3>4 DEF TypeOK
        <4>2. Pays(sql[1], q) BY <4>1 DEF Pays
        <4>3. paid[q] = 0 BY <1>1, <3>1, <3>2, <4>2
        <4>4. ASSUME NEW i \in 1 .. Len(sql'), Pays(sql'[i], q) PROVE FALSE
          <5>1. sql'[i] = sql[i + 1] /\ i + 1 \in 1 .. Len(sql) BY <1>3, <4>1
          <5>2. i + 1 = 1 BY <1>1, <2>1, <4>2, <4>4, <5>1 DEF PaymentsOK
          <5> QED BY <5>2
        <4> QED BY <1>5, <4>1, <4>3, <4>4
      <3> QED BY <3>3, <3>4
    <2> QED BY <2>3, <2>4 DEF PaymentsOK
  <1>14. Kept'
    <2> SUFFICES ASSUME NEW q \in staked
                 PROVE  \/ row'[q].winner
                        \/ reserve'[q] # "no"
                        \/ \E i \in 1 .. Len(sql') : sql'[i] \in {SettleJob(q), DrawJob(q)}
      BY <1>2 DEF Kept
    <2>1. \/ row[q].winner
          \/ reserve[q] # "no"
          \/ \E i \in 1 .. Len(sql) : sql[i] \in {SettleJob(q), DrawJob(q)}
      BY DEF StakeInv, Kept
    <2>2. q \in Reservation /\ row[q] # NoRow BY DEF TypeOK, StakeInv, RowsOK
    <2>3. CASE row[q].winner BY <1>5, <2>2, <2>3
    <2>4. ASSUME NEW i \in 1 .. Len(sql), sql[i] \in {SettleJob(q), DrawJob(q)}
          PROVE  \/ row'[q].winner
                 \/ \E j \in 1 .. Len(sql') : sql'[j] \in {SettleJob(q), DrawJob(q)}
      <3>1. CASE i = 1
        <4>1. q = r BY <1>1, <2>4, <3>1, JobsDiffer
        <4> QED BY <1>4, <2>4, <3>1, <4>1
      <3>2. CASE i # 1 /\ sql' = Tail(sql)
        <4>1. i - 1 \in 1 .. Len(sql') /\ sql'[i - 1] = sql[i] BY <1>3, <3>2
        <4> QED BY <2>4, <4>1
      <3>3. CASE i # 1 /\ sql' # Tail(sql)
        <4>1. i \in 1 .. Len(sql') /\ sql'[i] = sql[i] BY <1>6, <3>3
        <4> QED BY <2>4, <4>1
      <3> QED BY <3>1, <3>2, <3>3
    <2> QED BY <1>2, <2>1, <2>3, <2>4
  <1> QED BY <1>8, <1>9, <1>12, <1>13, <1>14 DEF StakeInv

\* The daemon boots: whose war was running is settled, whose time has not come waits.
LEMMA RestartStakes ==
    ASSUME TypeOK, StakeInv, Restart
    PROVE  StakeInv'
  <1> DEFINE stale == {r \in {s \in Reservation : row[s] # NoRow} : Stale(r)}
             jobs == SetToSeq({Draw(r) : r \in stale})
  <1>1. /\ sql' = jobs
        /\ reserve' = [r \in Reservation |->
                         IF row[r] # NoRow /\ ~row[r].started /\ r \notin stale THEN "waits" ELSE "no"]
        /\ waiting' = {} /\ fight' = [w \in War |-> NoWar]
        /\ begun' = [r \in Reservation |-> 0]
        /\ UNCHANGED <<row, staked, paid, crowded>>
    BY DEF Restart, db
  <1>2. \A r \in Reservation : /\ r \in stale => row[r] # NoRow /\ ~row[r].winner
                               /\ r \notin stale /\ row[r] # NoRow => row[r].winner \/ ~row[r].started
    BY DEF Stale, StakeInv, RowsOK
  <1>3. stale \subseteq Reservation OBVIOUS
  <1> HIDE DEF stale
  <1>4. /\ jobs \in Seq(Seq(Statement))
        /\ \A i \in 1 .. Len(jobs) : \E r \in stale : jobs[i] = Draw(r)
        /\ \A r \in stale : \E i \in 1 .. Len(jobs) : jobs[i] = Draw(r)
        /\ \A i, j \in 1 .. Len(jobs) : jobs[i] = jobs[j] => i = j
    BY <1>3, RestartJobs
  <1> HIDE DEF jobs
  <1>5. \A r \in stale : Draw(r) = IF r \in staked THEN DrawJob(r) ELSE SettleJob(r)
    BY <1>3, JobsAre
  <1>6. RowsOK'
    <2>1. \A w \in War : fight'[w].res = NoReservation BY <1>1 DEF NoWar
    <2> QED BY <1>1, <2>1 DEF StakeInv, RowsOK
  <1>7. JobsOK'
    <2> SUFFICES ASSUME NEW i \in 1 .. Len(jobs)
                 PROVE  \E q \in Reservation : /\ row[q] # NoRow
                                               /\ jobs[i] = StartJob(q) \/ Draws(jobs[i], q)
                                               /\ jobs[i] = PayJob(q) => row[q].winner
      BY <1>1 DEF JobsOK
    <2>1. PICK r \in stale : jobs[i] = Draw(r) BY <1>4
    <2>2. jobs[i] \in {SettleJob(r), DrawJob(r)} BY <1>5, <2>1
    <2> QED BY <1>2, <1>3, <2>2, JobsDiffer DEF Draws, Pays
  <1>8. ASSUME NEW r \in Reservation, NEW i \in 1 .. Len(jobs), Draws(jobs[i], r)
        PROVE  r \in stale /\ jobs[i] = Draw(r)
    <2>1. PICK q \in stale : jobs[i] = Draw(q) BY <1>4
    <2>2. jobs[i] \in {SettleJob(q), DrawJob(q)} BY <1>5, <2>1
    <2>3. q = r BY <1>8, <2>2, JobsDiffer DEF Draws, Pays
    <2> QED BY <2>1, <2>3
  <1>9. ASSUME ~crowded' PROVE Course' /\ PaymentsOK'
    <2>1. PaymentsOK BY <1>1, <1>9 DEF StakeInv
    <2>2. \A r \in Reservation : paid[r] \in Nat /\ (paid[r] = 0 \/ (paid[r] = 1 /\ row[r].winner))
      BY <2>1 DEF PaymentsOK, TypeOK
    <2>3. ASSUME NEW r \in Reservation, reserve'[r] = "waits" PROVE r \notin Drawn'
      <3>1. row[r] # NoRow /\ ~row[r].started /\ r \notin stale BY <1>1, <2>3
      <3>2. ~row[r].winner BY <3>1 DEF StakeInv, RowsOK
      <3>3. paid[r] = 0 BY <2>2, <3>2
      <3> QED BY <1>1, <1>8, <3>1, <3>3 DEF Drawn
    <2>4. \A r \in Reservation : reserve'[r] # "started" /\ begun'[r] = 0 BY <1>1
    <2>5. \A w \in War : fight'[w].res = NoReservation BY <1>1 DEF NoWar
    <2>6. Course' BY <1>1, <2>3, <2>4, <2>5 DEF Course
    <2>7. \A r \in Reservation : \A i \in 1 .. Len(jobs) :
              Pays(jobs[i], r) => ~row[r].winner /\ jobs[i] = Draw(r)
      BY <1>2, <1>8 DEF Draws
    <2>8. PaymentsOK'
      <3> SUFFICES ASSUME NEW r \in Reservation
                   PROVE  /\ paid[r] <= 1
                          /\ paid[r] = 1 => /\ row[r] # NoRow /\ row[r].winner
                                            /\ \A i \in 1 .. Len(jobs) : ~Pays(jobs[i], r)
                          /\ \A i, j \in 1 .. Len(jobs) : Pays(jobs[i], r) /\ Pays(jobs[j], r) => i = j
        BY <1>1 DEF PaymentsOK
      <3>1. ASSUME NEW i \in 1 .. Len(jobs), NEW j \in 1 .. Len(jobs), Pays(jobs[i], r), Pays(jobs[j], r)
            PROVE  i = j
        <4>1. jobs[i] = Draw(r) /\ jobs[j] = Draw(r) BY <2>7, <3>1
        <4>2. jobs[i] = jobs[j] => i = j BY <1>4
        <4> QED BY <4>1, <4>2
      <3>2. paid[r] = 1 => row[r] # NoRow /\ row[r].winner BY <2>1 DEF PaymentsOK
      <3> QED BY <2>2, <2>7, <3>1, <3>2
    <2> QED BY <2>6, <2>8
  <1>10. Kept'
    <2> SUFFICES ASSUME NEW r \in staked
                 PROVE  \/ row[r].winner
                        \/ reserve'[r] # "no"
                        \/ \E i \in 1 .. Len(jobs) : jobs[i] \in {SettleJob(r), DrawJob(r)}
      BY <1>1 DEF Kept
    <2>1. r \in Reservation /\ row[r] # NoRow BY DEF TypeOK, StakeInv, RowsOK
    <2>2. CASE r \in stale BY <1>4, <1>5, <2>2
    <2>3. CASE r \notin stale BY <1>1, <1>2, <2>1, <2>3
    <2> QED BY <2>2, <2>3
  <1> QED BY <1>6, <1>7, <1>9, <1>10 DEF StakeInv

\* The jobs that mark the due reservations as started.
LEMMA DueJobs ==
    ASSUME TypeOK, RowsOK, WarsOK
    PROVE  LET s == SetToSeq({Do(<<"start">>, r) : r \in Due})
           IN  /\ s \in Seq(Seq(Statement))
               /\ \A i \in 1 .. Len(s) : \E r \in Due : s[i] = StartJob(r)
  <1> DEFINE f == [r \in Due |-> Do(<<"start">>, r)]
             J == {Do(<<"start">>, r) : r \in Due}
  <1>1. J = {f[r] : r \in DOMAIN f} /\ f = [r \in DOMAIN f |-> f[r]] /\ DOMAIN f = Due OBVIOUS
  <1>2. IsFiniteSet(Due) /\ Due \subseteq Reservation BY DueTyped
  <1>3. J \subseteq Seq(Statement) BY <1>2, JobsAre
  <1>4. \A x \in J : \E r \in Due : x = StartJob(r) BY <1>2, JobsAre
  <1> HIDE DEF f, J
  <1>5. IsFiniteSet(J) BY <1>1, <1>2, ImageFinite
  <1>6. SetToSeq(J) \in Seq(J) BY <1>5, Enumerates
  <1>7. SetToSeq(J) \in Seq(Seq(Statement)) BY <1>3, <1>6
  <1>8. \A i \in 1 .. Len(SetToSeq(J)) : SetToSeq(J)[i] \in J BY <1>6
  <1> QED BY <1>4, <1>7, <1>8 DEF J

LEMMA HeartbeatStakes ==
    ASSUME TypeOK, WarsOK, StakeInv, Heartbeat
    PROVE  StakeInv'
  <1> USE GuildWarAssumption
  <1>0. RowsOK BY DEF StakeInv
  <1>1. PICK top \in [Ready -> Queue] : \E last \in [Begins(top) -> Ready] : Update(top, last)
    BY DEF Heartbeat
  <1>2. PICK last \in [Begins(top) -> Ready] : Update(top, last) BY <1>1
  <1> DEFINE s == SetToSeq({Do(<<"start">>, r) : r \in Due})
  <1>3. /\ sql' = sql \o s /\ waiting' = Queue \ Ready
        /\ fight' = [w \in War |->
                       IF w \in Begins(top) THEN [clock |-> <<last[w].res, 0>>, res |-> top[last[w]].res]
                       ELSE IF w \in Ended THEN NoWar ELSE fight[w]]
        /\ begun' = [r \in Reservation |-> begun[r] + Cardinality({e \in Ready : top[e].res = r})]
        /\ crowded' = (crowded \/ (Ready # {} /\ Cardinality({e.res : e \in Queue}) > 1))
        /\ UNCHANGED <<row, staked, paid>>
    BY <1>2 DEF Update, Heartbeat, db
  <1>4. \A r \in Reservation : reserve'[r] = IF r \in Due THEN "started" ELSE reserve[r]
    BY <1>2 DEF Update, Marked
  <1>5. s \in Seq(Seq(Statement)) /\ \A i \in 1 .. Len(s) : \E r \in Due : s[i] = StartJob(r)
    BY <1>0, DueJobs
  <1> HIDE DEF s
  \* Every job is an old one or marks a reservation as started.
  <1>6. /\ \A i \in 1 .. Len(sql) : i \in 1 .. Len(sql') /\ sql'[i] = sql[i]
        /\ \A i \in 1 .. Len(sql') : \/ i \in 1 .. Len(sql) /\ sql'[i] = sql[i]
                                     \/ \E r \in Due : sql'[i] = StartJob(r)
    <2>1. sql' = sql \o s BY <1>3
    <2>2. /\ \A i \in 1 .. Len(sql) : i \in 1 .. Len(sql') /\ sql'[i] = sql[i]
          /\ \A i \in 1 .. Len(sql') : \/ i \in 1 .. Len(sql) /\ sql'[i] = sql[i]
                                       \/ i - Len(sql) \in 1 .. Len(s) /\ sql'[i] = s[i - Len(sql)]
      BY <1>5, <2>1, MoreJobs
    <2> QED BY <1>5, <2>2
  <1>7. \A r, q : ~Draws(StartJob(r), q) /\ ~Pays(StartJob(r), q) /\ StartJob(r) # PayJob(q)
    BY JobsDiffer DEF Draws, Pays
  <1>8. Drawn' = Drawn
    <2>1. ASSUME NEW r
          PROVE  (\E i \in 1 .. Len(sql') : Draws(sql'[i], r)) <=> \E i \in 1 .. Len(sql) : Draws(sql[i], r)
      BY <1>6, <1>7
    <2> QED BY <1>3, <2>1 DEF Drawn
  \* Who is in the queue is started from now on.
  <1>9. /\ \A r \in Due : r \in Reservation /\ reserve[r] = "waits" /\ row[r] \in Row
        /\ \A e \in Queue : /\ e.at \in Nat /\ e.res \in Reservation /\ row[e.res] \in Row
                            /\ e \in waiting \/ (e.res \in Due /\ e.at = now + 1 + WaitTime)
                            /\ e \in [at : Nat, res : Reservation]
        /\ Ready \subseteq Queue
        /\ \A r \in Due : [at |-> now + 1 + WaitTime, res |-> r] \in Queue
        /\ waiting \subseteq Queue
    <2>1. \A r \in Due : [at |-> now + 1 + WaitTime, res |-> r] \in Queue BY DEF Queue
    <2>2. waiting \subseteq Queue BY DEF Queue
    <2>3. Queue \subseteq [at : Nat, res : Reservation] BY <1>0, DueTyped
    <2>4. \A e \in Queue : e.at \in Nat /\ e.res \in Reservation BY <2>3
    <2> QED BY <1>0, <2>1, <2>2, <2>3, <2>4, DueTyped
  <1>10. \A e \in Queue : reserve'[e.res] = "started"
    BY <1>4, <1>9 DEF StakeInv, RowsOK
  <1>11. \A w \in War :
            \/ w \in Begins(top) /\ last[w] \in Ready /\ fight'[w].res = top[last[w]].res
               /\ top[last[w]] \in Queue
            \/ fight'[w].res \in {fight[w].res, NoReservation}
    BY <1>3 DEF NoWar
  <1>12. RowsOK'
    <2>1. \A r \in Reservation : r \in staked' \/ reserve'[r] # "no" => row'[r] # NoRow
      BY <1>3, <1>4, <1>9 DEF StakeInv, RowsOK
    <2>2. \A e \in waiting' : reserve'[e.res] = "started" BY <1>3, <1>10
    <2>3. \A w \in War : fight'[w].res # NoReservation => reserve'[fight'[w].res] = "started"
      <3>1. \A r \in Reservation : reserve[r] = "started" => reserve'[r] = "started" BY <1>4
      <3>2. \A w \in War : fight[w].res # NoReservation =>
                fight[w].res \in Reservation /\ reserve[fight[w].res] = "started"
        BY DEF TypeOK, NoWar, StakeInv, RowsOK
      <3> QED BY <1>10, <1>11, <3>1, <3>2
    <2>4. \A r \in Reservation : row'[r] # NoRow => (row'[r].winner => row'[r].started)
      BY <1>3 DEF StakeInv, RowsOK
    <2> QED BY <2>1, <2>2, <2>3, <2>4 DEF RowsOK
  <1>13. JobsOK'
    <2> SUFFICES ASSUME NEW i \in 1 .. Len(sql')
                 PROVE  \E q \in Reservation : /\ row[q] # NoRow
                                               /\ sql'[i] = StartJob(q) \/ Draws(sql'[i], q)
                                               /\ sql'[i] = PayJob(q) => row[q].winner
      BY <1>3 DEF JobsOK
    <2>1. CASE i \in 1 .. Len(sql) /\ sql'[i] = sql[i] BY <2>1 DEF StakeInv, JobsOK
    <2>2. ASSUME NEW r \in Due, sql'[i] = StartJob(r)
          PROVE  \E q \in Reservation : /\ row[q] # NoRow
                                        /\ sql'[i] = StartJob(q) \/ Draws(sql'[i], q)
                                        /\ sql'[i] = PayJob(q) => row[q].winner
      BY <1>7, <1>9, <2>2
    <2> QED BY <1>6, <2>1, <2>2
  <1>14. ASSUME ~crowded' PROVE PaymentsOK'
    <2>1. PaymentsOK BY <1>3, <1>14 DEF StakeInv
    <2>2. \A i \in 1 .. Len(sql') : \A r :
              Pays(sql'[i], r) => i \in 1 .. Len(sql) /\ Pays(sql[i], r)
      BY <1>6, <1>7
    <2> QED BY <1>3, <2>1, <2>2 DEF PaymentsOK
  <1>15. Kept'
    <2>1. \A r \in Reservation : reserve[r] # "no" => reserve'[r] # "no" BY <1>4
    <2> QED BY <1>3, <1>6, <2>1 DEF StakeInv, Kept, TypeOK
  <1>16. ASSUME ~crowded' PROVE Course'
    <2>0. Course BY <1>3, <1>16 DEF StakeInv
    \* Nobody in the queue was started before, and none of them is in it twice.
    <2>1. \A e \in Queue : begun[e.res] = 0 /\ e.res \notin Drawn
      BY <1>9, <2>0 DEF Course
    <2>2. \A e, f \in Queue : e.res = f.res => e = f
      <3> SUFFICES ASSUME NEW e \in Queue, NEW f \in Queue, e.res = f.res PROVE e = f OBVIOUS
      <3>1. e \in waiting => f \in waiting BY <1>9 DEF StakeInv, RowsOK
      <3>2. f \in waiting => e \in waiting BY <1>9 DEF StakeInv, RowsOK
      <3>3. CASE e \in waiting BY <2>0, <3>1, <3>3 DEF Course
      <3>4. CASE e \notin waiting
        <4>1. e.at = f.at BY <1>9, <3>2, <3>4
        <4> QED BY <1>9, <4>1
      <3> QED BY <3>3, <3>4
    <2>3. CASE Ready = {}
      <3>1. Begins(top) = {} BY <2>3 DEF Begins
      <3>2. waiting' = Queue BY <1>3, <2>3
      <3>3. \A r \in Reservation : begun'[r] = begun[r]
        <4>1. \A r : {e \in Ready : top[e].res = r} = {} BY <2>3
        <4>2. \A r \in Reservation : begun[r] \in Nat BY DEF TypeOK
        <4> QED BY <1>3, <4>1, <4>2, FS_EmptySet
      <3>4. \A w \in War : fight'[w].res # NoReservation =>
               /\ begun'[fight'[w].res] = 1 /\ fight'[w].res \notin Drawn'
               /\ row'[fight'[w].res].war = w
        <4>1. \A w \in War : fight[w].res # NoReservation => fight[w].res \in Reservation
          <5>1. ASSUME NEW w \in War PROVE fight[w].res \in Reservation \cup {NoReservation}
            <6>1. fight[w] \in [clock : Clock, res : Reservation \cup {NoReservation}] \cup {NoWar}
              BY DEF TypeOK
            <6> QED BY <6>1, Zenon, SMT DEF NoWar
          <5> QED BY <5>1
        <4>2. \A w \in War : fight'[w].res # NoReservation => fight'[w].res = fight[w].res
          BY <1>11, <3>1
        <4>3. row' = row BY <1>3
        <4>4. \A w \in War : fight[w].res # NoReservation =>
                 begun[fight[w].res] = 1 /\ fight[w].res \notin Drawn /\ row[fight[w].res].war = w
          BY <2>0 DEF Course
        <4>5. ASSUME NEW w \in War, fight'[w].res # NoReservation
              PROVE  /\ begun'[fight'[w].res] = 1 /\ fight'[w].res \notin Drawn'
                     /\ row'[fight'[w].res].war = w
          <5>1. fight'[w].res = fight[w].res /\ fight[w].res \in Reservation
            BY <4>1, <4>2, <4>5
          <5>2. begun[fight[w].res] = 1 /\ fight[w].res \notin Drawn /\ row[fight[w].res].war = w
            BY <4>4, <4>5, <5>1
          <5>3. begun'[fight[w].res] = 1 BY <3>3, <5>1, <5>2
          <5>4. fight[w].res \notin Drawn' BY <1>8, <5>2
          <5> QED BY <4>3, <5>1, <5>2, <5>3, <5>4
        <4> QED BY <4>5
      <3>5. \A e, f \in waiting' :
               begun'[e.res] = 0 /\ e.res \notin Drawn' /\ (e.res = f.res => e = f)
        BY <1>8, <1>9, <2>1, <2>2, <3>2, <3>3
      <3>6. ASSUME NEW r \in Reservation
            PROVE  /\ reserve'[r] = "waits" => r \notin Drawn'
                   /\ reserve'[r] # "started" => begun'[r] = 0
                   /\ begun'[r] = 1 \/ (begun'[r] = 0
                                        /\ (reserve'[r] = "started" => \E e \in waiting' : e.res = r))
        <4>1. /\ reserve[r] = "waits" => r \notin Drawn
              /\ reserve[r] # "started" => begun[r] = 0
              /\ begun[r] = 1 \/ (begun[r] = 0
                                  /\ (reserve[r] = "started" => \E e \in waiting : e.res = r))
          BY <2>0 DEF Course
        <4>2. CASE r \in Due
          <5>1. \E e \in waiting' : e.res = r BY <1>9, <3>2, <4>2
          <5> QED BY <1>4, <1>9, <3>3, <4>1, <4>2, <5>1
        <4>3. CASE r \notin Due BY <1>4, <1>8, <1>9, <3>2, <3>3, <4>1, <4>3
        <4> QED BY <4>2, <4>3
      <3> QED BY <3>4, <3>5, <3>6 DEF Course
    <2>4. CASE Ready # {}
      \* The queue has one entry, and so it is the one that starts.
      <3>1. PICK e \in Ready : Queue = {e}
        <4>1. PICK e : e \in Ready BY <2>4
        <4> DEFINE R == {f.res : f \in Queue}
        <4>2. R \subseteq Reservation /\ IsFiniteSet(R) BY <1>9, FS_Subset
        <4>3. ~(Cardinality(R) > 1) BY <1>3, <1>16, <2>4
        <4>4. \A f \in Queue : f.res \in R OBVIOUS
        <4> HIDE DEF R
        <4>5. ASSUME NEW f \in Queue, f # e PROVE FALSE
          <5>1. e \in Queue /\ e.res \in R /\ f.res \in R /\ e.res # f.res
            BY <1>9, <2>2, <4>1, <4>4, <4>5
          <5>2. {e.res, f.res} \subseteq R BY <5>1
          <5>3. Cardinality({e.res, f.res}) <= Cardinality(R) /\ Cardinality(R) \in Nat
            BY <4>2, <5>2, FS_Subset, FS_CardinalityType
          <5>4. Cardinality({e.res, f.res}) = 2
            <6>1. Cardinality({e.res}) = 1 BY FS_Singleton
            <6>2. f.res \notin {e.res} /\ IsFiniteSet({e.res}) BY <5>1, FS_Singleton
            <6>3. Cardinality({e.res} \cup {f.res}) = Cardinality({e.res}) + 1
              BY <6>2, FS_AddElement
            <6>4. {e.res} \cup {f.res} = {e.res, f.res} OBVIOUS
            <6> QED BY <6>1, <6>3, <6>4
          <5> QED BY <4>3, <5>3, <5>4
        <4> QED BY <1>9, <4>1, <4>5
      <3>2. Ready = {e} /\ waiting' = {} BY <1>3, <1>9, <3>1
      <3>3. top[e] = e
        BY <3>1
      <3> DEFINE q == e.res
      <3>4. q \in Reservation /\ reserve'[q] = "started" /\ begun[q] = 0 /\ q \notin Drawn
        BY <1>9, <1>10, <2>1, <3>1
      <3>5. \A r \in Reservation : begun'[r] = IF r = q THEN 1 ELSE begun[r]
        <4>1. {f \in Ready : top[f].res = q} = {e} BY <3>2, <3>3
        <4>2. \A r \in Reservation : r # q => {f \in Ready : top[f].res = r} = {} BY <3>2, <3>3
        <4>3. Cardinality({e}) = 1 /\ Cardinality({}) = 0 BY FS_Singleton, FS_EmptySet
        <4>4. \A r \in Reservation : begun[r] \in Nat BY DEF TypeOK
        <4> HIDE DEF q
        <4>5. begun'[q] = begun[q] + 1 BY <1>3, <3>4, <4>1, <4>3
        <4>6. \A r \in Reservation : r # q => begun'[r] = begun[r] + 0 BY <1>3, <4>2, <4>3
        <4> QED BY <3>4, <4>4, <4>5, <4>6
      <3>6. \A r \in Reservation : /\ r \in Due => r = q
                                   /\ (\E f \in waiting : f.res = r) => r = q
        BY <1>9, <3>1
      <3>7. \A w \in War : w \in Begins(top) => w = row[q].war /\ fight'[w].res = q
        <4>1. \A w \in Begins(top) : w = WarOf(e) BY <3>2, <3>3 DEF Begins
        <4>2. \A w \in Begins(top) : last[w] = e BY <3>2
        <4> QED BY <1>3, <3>3, <4>1, <4>2 DEF WarOf
      <3> HIDE DEF q
      <3>8. \A w \in War : fight'[w].res # NoReservation =>
               /\ begun'[fight'[w].res] = 1 /\ fight'[w].res \notin Drawn'
               /\ row'[fight'[w].res].war = w
        <4>1. \A w \in War : fight[w].res # NoReservation =>
                  /\ fight[w].res \in Reservation
                  /\ begun[fight[w].res] = 1 /\ fight[w].res \notin Drawn
                  /\ row[fight[w].res].war = w
          BY <2>0 DEF TypeOK, NoWar, Course
        <4>2. \A w \in War : w \notin Begins(top) /\ fight'[w].res # NoReservation =>
                  fight'[w].res = fight[w].res
          BY <1>11
        <4>3. row' = row BY <1>3
        <4> SUFFICES ASSUME NEW w \in War, fight'[w].res # NoReservation
                     PROVE  /\ begun'[fight'[w].res] = 1 /\ fight'[w].res \notin Drawn'
                            /\ row'[fight'[w].res].war = w
          OBVIOUS
        <4>4. CASE w \in Begins(top) BY <1>8, <3>4, <3>5, <3>7, <4>3, <4>4
        <4>5. CASE w \notin Begins(top)
          <5>1. fight'[w].res = fight[w].res /\ fight[w].res # q BY <3>4, <4>1, <4>2, <4>5
          <5> QED BY <1>8, <3>5, <4>1, <4>3, <5>1
        <4> QED BY <4>4, <4>5
      <3>9. ASSUME NEW r \in Reservation
            PROVE  /\ reserve'[r] = "waits" => r \notin Drawn'
                   /\ reserve'[r] # "started" => begun'[r] = 0
                   /\ begun'[r] = 1 \/ (begun'[r] = 0
                                        /\ (reserve'[r] = "started" => \E f \in waiting' : f.res = r))
        <4>1. /\ reserve[r] = "waits" => r \notin Drawn
              /\ reserve[r] # "started" => begun[r] = 0
              /\ begun[r] = 1 \/ (begun[r] = 0
                                  /\ (reserve[r] = "started" => \E f \in waiting : f.res = r))
          BY <2>0 DEF Course
        <4>2. CASE r = q BY <1>8, <3>4, <3>5, <4>2
        <4>3. CASE r # q BY <1>4, <1>8, <3>5, <3>6, <4>1, <4>3
        <4> QED BY <4>2, <4>3
      <3> QED BY <3>2, <3>8, <3>9 DEF Course
    <2> QED BY <2>3, <2>4
  <1> QED BY <1>12, <1>13, <1>14, <1>15, <1>16 DEF StakeInv

-----------------------------------------------------------------------------
(* Theorems *)

LEMMA InitStakes == Init => TypeOK /\ StakeInv
  <1> SUFFICES ASSUME Init PROVE TypeOK /\ StakeInv OBVIOUS
  <1>1. TypeOK BY InitTyped
  <1>2. /\ row = [r \in Reservation |-> NoRow] /\ staked = {} /\ waiting = {}
        /\ paid = [r \in Reservation |-> 0] /\ begun = [r \in Reservation |-> 0]
        /\ reserve = [r \in Reservation |-> "no"] /\ fight = [w \in War |-> NoWar] /\ Len(sql) = 0
    BY DEF Init
  <1>3. \A w \in War : fight[w].res = NoReservation BY <1>2 DEF NoWar
  <1>4. RowsOK /\ JobsOK BY <1>2, <1>3 DEF RowsOK, JobsOK
  <1>5. Drawn = {} BY <1>2 DEF Drawn
  <1>6. Course /\ PaymentsOK BY <1>2, <1>3, <1>5 DEF Course, PaymentsOK
  <1>7. Kept BY <1>2 DEF Kept
  <1> QED BY <1>1, <1>4, <1>6, <1>7 DEF StakeInv

LEMMA NextStakes == IInv /\ TypeOK /\ StakeInv /\ [Next]_vars => TypeOK' /\ StakeInv'
  <1> SUFFICES ASSUME IInv, TypeOK, StakeInv, [Next]_vars PROVE TypeOK' /\ StakeInv'
    OBVIOUS
  <1>0. WarsOK /\ RowsOK /\ JobsOK BY DEF IInv, StakeInv
  <1>1. CASE Heartbeat BY <1>0, <1>1, HeartbeatTyped, HeartbeatStakes
  <1>2. CASE ExecuteQuery BY <1>0, <1>2, ExecuteTyped, ExecuteStakes
  <1>3. CASE Disconnect BY <1>3, DisconnectTyped, QuietRest
  <1>4. CASE Reconnect BY <1>0, <1>4, ReconnectTyped, QuietRest
  <1>5. CASE Restart BY <1>5, RestartTyped, RestartStakes
  <1>6. CASE \E r \in Reservation : Bet(r) BY <1>6, BetTyped, BetStakes
  <1>7. CASE UNCHANGED vars
    <2>1. TypeOK' BY <1>7 DEF TypeOK, vars, db, daemon, core, net, history
    <2> QED BY <1>7, <2>1, QuietRest
  <1>8. ASSUME NEW w \in War,
               \/ RequestDeclareWar(w) \/ AcceptWar(w) \/ RequestRefuseWar(w)
               \/ \E op \in {"over", "draw"} : RequestWarOver(w, op)
               \/ RequestEndWar(w) \/ RequestCancelWar(w)
        PROVE  TypeOK' /\ StakeInv'
    <2>1. PICK op \in FromCore : Request(op, w)
      BY <1>8 DEF RequestDeclareWar, AcceptWar, RequestRefuseWar, RequestWarOver, RequestEndWar,
                  RequestCancelWar, FromCore
    <2>2. TypeOK' BY <2>1, RequestTyped
    <2> QED BY <1>8, <2>2, QuietRest
  <1>9. ASSUME NEW w \in War,
               \/ AddDeclare(w) \/ RemoveDeclare(w) \/ StartFieldWar(w)
               \/ \E r \in Reservation : ReserveWar(w, r)
               \/ ReserveWarFails(w)
               \/ \E op \in {"over", "draw"}, won \in BOOLEAN : RecvWarOver(w, op, won)
               \/ RecvWarEnd(w) \/ CancelWar(w)
        PROVE  TypeOK' /\ StakeInv'
    <2>1. TypeOK' BY <1>9, ReceiveTyped
    <2>2. StakeInv' BY <1>9, QuietReceive, ReserveStakes, OverStakes
    <2> QED BY <2>1, <2>2
  <1>10. ASSUME NEW w \in War,
                \/ DeclareWar(w) \/ RefuseWar(w) \/ CoreReserveWar(w) \/ WaitStartWar(w)
                \/ StartWar(w) \/ RecvEndWar(w)
         PROVE  TypeOK' /\ StakeInv'
    BY <1>10, CoreTyped, QuietRest
  <1> QED BY <1>1, <1>2, <1>3, <1>4, <1>5, <1>6, <1>7, <1>8, <1>9, <1>10 DEF Next

THEOREM StakeInvariant == Spec => [](TypeOK /\ StakeInv)
  <1>1. Init => IInv /\ TypeOK /\ StakeInv BY InitInv, InitStakes
  <1>2. (IInv /\ TypeOK /\ StakeInv) /\ [Next]_vars => (IInv /\ TypeOK /\ StakeInv)'
    BY NextInv, NextStakes
  <1> QED BY <1>1, <1>2, PTL DEF Spec

\* Everything the daemon, the database, the core and the packets hold has its type.
THEOREM TypeCorrect == Spec => []TypeOK
  BY StakeInvariant, PTL

\* A stake is paid out at most once, wherever the daemon dies between the result and
\* the award, unless two wars waited for their start at the same time.
THEOREM PaidOnceHolds == Spec => []PaidOnce
  <1>1. TypeOK /\ StakeInv => PaidOnce
    BY DEF TypeOK, StakeInv, PaymentsOK, PaidOnce
  <1> QED BY <1>1, StakeInvariant, PTL

\* A reservation marked as started gets one war, and no other, while wars do not
\* wait for their start together.
THEOREM StartedOnceHolds == Spec => []StartedOnce
  <1>1. TypeOK /\ StakeInv => StartedOnce
    BY DEF TypeOK, StakeInv, Course, StartedOnce
  <1> QED BY <1>1, StakeInvariant, PTL

\* Until its result is in the database the reservation of a stake is in memory or its
\* result is on its way, whatever order wars, statements and restarts come in.
THEOREM StakeIsKeptHolds == Spec => []StakeIsKept
  <1>1. TypeOK /\ StakeInv => StakeIsKept
    <2> SUFFICES ASSUME TypeOK, StakeInv, NEW r \in staked
                 PROVE  \/ row[r].winner
                        \/ reserve[r] # "no"
                        \/ \E i \in 1 .. Len(sql) : [op |-> "settle", res |-> r] \in ToSet(sql[i])
      BY DEF StakeIsKept
    <2>1. \/ row[r].winner \/ reserve[r] # "no"
          \/ \E i \in 1 .. Len(sql) : sql[i] \in {SettleJob(r), DrawJob(r)}
      BY DEF StakeInv, Kept
    <2>2. Stmt("settle", r) \in ToSet(SettleJob(r)) /\ Stmt("settle", r) \in ToSet(DrawJob(r))
      <3>1. \A x : x \in ToSet(<<x>>)
        <4>1. \A x : <<x>>[1] = x /\ 1 \in DOMAIN <<x>> OBVIOUS
        <4> QED BY <4>1 DEF ToSet
      <3>2. \A x, y : x \in ToSet(<<x, y>>)
        <4>1. \A x, y : <<x, y>>[1] = x /\ 1 \in DOMAIN <<x, y>> OBVIOUS
        <4> QED BY <4>1 DEF ToSet
      <3> QED BY <3>1, <3>2 DEF SettleJob, DrawJob
    <2> QED BY <2>1, <2>2 DEF Stmt
  <1> QED BY <1>1, StakeInvariant, PTL
=============================================================================
