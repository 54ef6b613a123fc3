------------------------ MODULE ItemIDRange_proofs ------------------------
(***************************************************************************)
(* The daemon lends a block of ids once, for any number of cores, of       *)
(* blocks and of ids in a block, whatever ids MySQL holds.  A block is     *)
(* known by its first id; the inductive invariant adds to LentOnce that    *)
(* the free blocks and those of the peers are ranges, and that 0 is the    *)
(* first id of none.                                                       *)
(*                                                                         *)
(* That daemon and core agree on their blocks, and that no id is given out *)
(* twice without one of the two known causes, rests on a second invariant: *)
(* what a core whose connection never failed has asked and been answered,  *)
(* and that no item has an id which a core may still give out.             *)
(***************************************************************************)
EXTENDS ItemIDRange, WellFoundedInduction, TLAPS

IsRange(r) ==
    /\ r = [min |-> r.min, max |-> r.max, usable |-> r.usable]
    /\ r.min \in Nat \ {0}

\* A range or none; both are told by the first id.
MayBeRange(r) == r = NoRange \/ IsRange(r)

IsList(l) ==
    /\ \E S : l \in Seq(S)
    /\ \A i \in 1 .. Len(l) : IsRange(l[i])

RangesOK ==
    /\ IsList(listData)
    /\ peer = [c \in Core |-> [range |-> peer[c].range, spare |-> peer[c].spare]]
    /\ \A c \in Core : MayBeRange(peer[c].range) /\ MayBeRange(peer[c].spare)

\* The first ids of the blocks a peer has.
Mins(c) == {peer[c].range.min, peer[c].spare.min}

IInv == RangesOK /\ LentOnce

-----------------------------------------------------------------------------
(* The free list *)

LEMMA MinOf ==
    /\ NoRange.min = 0
    /\ \A r : MayBeRange(r) => r.min \in Nat /\ (r.min = 0 <=> r = NoRange)
  BY DEF NoRange, MayBeRange, IsRange

\* The first block, or none of an empty list, and the others.
LEMMA Taken ==
    ASSUME NEW l, IsList(l)
    PROVE  /\ IsList(GetRange(l).rest) /\ MayBeRange(GetRange(l).range)
           /\ Len(l) \in Nat
           /\ \/ l = <<>> /\ GetRange(l).rest = l /\ GetRange(l).range = NoRange
              \/ /\ Len(l) >= 1 /\ GetRange(l).range = l[1]
                 /\ Len(GetRange(l).rest) = Len(l) - 1
                 /\ \A i \in 1 .. Len(l) - 1 : GetRange(l).rest[i] = l[i + 1]
  <1>1. PICK S : l \in Seq(S) BY DEF IsList
  <1>2. CASE l = <<>>
    <2>1. GetRange(l).rest = l /\ GetRange(l).range = NoRange BY <1>2 DEF GetRange
    <2> QED BY <1>1, <1>2, <2>1 DEF MayBeRange
  <1>3. CASE l # <<>>
    <2>1. Len(l) \in Nat /\ Len(l) >= 1 /\ Head(l) = l[1] BY <1>1, <1>3
    <2>2. /\ Tail(l) \in Seq(S) /\ Len(Tail(l)) = Len(l) - 1
          /\ \A i \in 1 .. Len(l) - 1 : Tail(l)[i] = l[i + 1]
      BY <1>1, <1>3
    <2>3. GetRange(l).rest = Tail(l) /\ GetRange(l).range = l[1]
      BY <1>3, <2>1 DEF GetRange
    <2>4. \A i \in 1 .. Len(l) - 1 : i + 1 \in 1 .. Len(l) BY <2>1
    <2>5. IsList(Tail(l))
      <3>1. \A i \in 1 .. Len(Tail(l)) : IsRange(Tail(l)[i])
        BY <2>2, <2>4 DEF IsList
      <3> QED BY <2>2, <3>1 DEF IsList
    <2>6. IsRange(l[1]) BY <2>1 DEF IsList
    <2> QED BY <2>1, <2>2, <2>3, <2>5, <2>6 DEF MayBeRange
  <1> QED BY <1>2, <1>3

\* A block goes back with the same first id, or not at all.
LEMMA Rebuilt ==
    ASSUME NEW r, MayBeRange(r), NEW ids
    PROVE  \/ BuildRange(r, ids) = <<>>
           \/ \E u : BuildRange(r, ids) = <<u>> /\ IsRange(u) /\ u.min = r.min
  <1> DEFINE used == IdsIn(r, ids)
             usable == IF used = {} THEN r.min ELSE MaxId(used) + 1
             u == [r EXCEPT !.usable = usable]
  <1>1. BuildRange(r, ids) = <<>> \/ (r # NoRange /\ BuildRange(r, ids) = <<u>>)
    BY DEF BuildRange
  <1> HIDE DEF usable
  <1>2. ASSUME r # NoRange PROVE IsRange(u) /\ u.min = r.min
    <2>1. r = [min |-> r.min, max |-> r.max, usable |-> r.usable] /\ r.min \in Nat \ {0}
      BY <1>2 DEF MayBeRange, IsRange
    <2>2. u = [min |-> r.min, max |-> r.max, usable |-> usable] BY <2>1
    <2> HIDE DEF u
    <2>3. u.min = r.min /\ u.max = r.max /\ u.usable = usable BY <2>2
    <2>4. u = [min |-> u.min, max |-> u.max, usable |-> u.usable] BY <2>2, <2>3, Zenon
    <2> QED BY <2>1, <2>3, <2>4 DEF IsRange
  <1> HIDE DEF u
  <1> QED BY <1>1, <1>2

\* Lent out of the list l to the peer c.
LEMMA Lent ==
    ASSUME RangesOK, LentOnce, NEW c \in Core, NEW r, NEW s,
           MayBeRange(r), MayBeRange(s), IsList(listData'),
           peer' = [peer EXCEPT ![c] = [range |-> r, spare |-> s]],
           r.min = s.min => r.min = 0,
           \* what is free now was free
           \E f \in [1 .. Len(listData') -> 1 .. Len(listData)] :
              /\ \A i, j \in 1 .. Len(listData') : f[i] = f[j] => i = j
              /\ \A i \in 1 .. Len(listData') :
                    /\ listData'[i] = listData[f[i]]
                    /\ listData'[i].min # r.min /\ listData'[i].min # s.min,
           \* what the peer has was free or his
           \A x \in {r.min, s.min} :
              \/ x = 0 \/ x \in Mins(c)
              \/ \E i \in 1 .. Len(listData) : listData[i].min = x
    PROVE  IInv'
  <1>1. /\ peer'[c] = [range |-> r, spare |-> s]
        /\ \A d \in Core : d # c => peer'[d] = peer[d]
        /\ peer' = [d \in Core |-> peer'[d]]
    BY DEF RangesOK
  <1>2. RangesOK'
    <2>1. \A d \in Core : MayBeRange(peer'[d].range) /\ MayBeRange(peer'[d].spare)
      BY <1>1 DEF RangesOK
    <2>2. ASSUME NEW d \in Core
          PROVE  peer'[d] = [range |-> peer'[d].range, spare |-> peer'[d].spare]
      <3>1. CASE d = c BY <1>1, <3>1
      <3>2. CASE d # c
        <4>1. peer[d] = [range |-> peer[d].range, spare |-> peer[d].spare] BY DEF RangesOK
        <4> QED BY <1>1, <3>2, <4>1
      <3> QED BY <3>1, <3>2
    <2> QED BY <1>1, <2>1, <2>2 DEF RangesOK
  <1>3. PICK f \in [1 .. Len(listData') -> 1 .. Len(listData)] :
              /\ \A i, j \in 1 .. Len(listData') : f[i] = f[j] => i = j
              /\ \A i \in 1 .. Len(listData') :
                    /\ listData'[i] = listData[f[i]]
                    /\ listData'[i].min # r.min /\ listData'[i].min # s.min
    OBVIOUS
  <1>4. \A i, j \in 1 .. Len(listData') : i # j => listData'[i].min # listData'[j].min
    BY <1>3 DEF LentOnce
  <1>5. \A d \in Core, i \in 1 .. Len(listData') :
           listData'[i].min \notin {peer'[d].range.min, peer'[d].spare.min}
    BY <1>1, <1>3 DEF LentOnce
  <1>6. ASSUME NEW d \in Core, d # c
        PROVE  {r.min, s.min} \cap Mins(d) \subseteq {0}
    <2>1. Mins(c) \cap Mins(d) \subseteq {0} BY <1>6 DEF LentOnce, Mins
    <2>2. \A i \in 1 .. Len(listData) : listData[i].min \notin Mins(d) BY DEF LentOnce, Mins
    <2> QED BY <2>1, <2>2
  <1>7. ASSUME NEW d \in Core, NEW e \in Core, d # e
        PROVE  {peer'[d].range.min, peer'[d].spare.min} \cap
               {peer'[e].range.min, peer'[e].spare.min} \subseteq {0}
    <2>1. CASE d = c BY <1>1, <1>6, <1>7, <2>1 DEF Mins
    <2>2. CASE e = c BY <1>1, <1>6, <1>7, <2>2 DEF Mins
    <2>3. CASE d # c /\ e # c BY <1>1, <1>7, <2>3 DEF LentOnce
    <2> QED BY <2>1, <2>2, <2>3
  <1>8. \A d \in Core : peer'[d].range.min = peer'[d].spare.min => peer'[d].range.min = 0
    BY <1>1 DEF LentOnce
  <1> QED BY <1>2, <1>4, <1>5, <1>7, <1>8 DEF IInv, LentOnce

-----------------------------------------------------------------------------
(* The steps *)

\* QUERY_BOOT takes up to two blocks from the front of the list.
LEMMA BootLends ==
    ASSUME IInv, NEW c \in Core, DbBoot(c)
    PROVE  IInv'
  <1> DEFINE first == GetRange(listData)
             second == GetRange(first.rest)
             r == SetIfAny(peer[c].range, first.range)
             s == SetIfAny(peer[c].spare, second.range)
  <1>1. /\ listData' = second.rest
        /\ peer' = [peer EXCEPT ![c] = [range |-> r, spare |-> s]]
    BY DEF DbBoot
  <1>2. IsList(listData) /\ RangesOK /\ LentOnce BY DEF IInv, RangesOK
  <1>3. /\ IsList(first.rest) /\ MayBeRange(first.range)
        /\ Len(listData) \in Nat
        /\ \/ listData = <<>> /\ first.rest = listData /\ first.range = NoRange
           \/ /\ Len(listData) >= 1 /\ first.range = listData[1]
              /\ Len(first.rest) = Len(listData) - 1
              /\ \A i \in 1 .. Len(listData) - 1 : first.rest[i] = listData[i + 1]
    BY <1>2, Taken
  <1> HIDE DEF first
  <1>4. /\ IsList(second.rest) /\ MayBeRange(second.range)
        /\ Len(first.rest) \in Nat
        /\ \/ first.rest = <<>> /\ second.rest = first.rest /\ second.range = NoRange
           \/ /\ Len(first.rest) >= 1 /\ second.range = first.rest[1]
              /\ Len(second.rest) = Len(first.rest) - 1
              /\ \A i \in 1 .. Len(first.rest) - 1 : second.rest[i] = first.rest[i + 1]
    BY <1>3, Taken
  <1> HIDE DEF second
  <1>5. MayBeRange(peer[c].range) /\ MayBeRange(peer[c].spare) BY <1>2 DEF RangesOK
  <1>6. MayBeRange(r) /\ MayBeRange(s) BY <1>3, <1>4, <1>5 DEF SetIfAny
  <1>7. IsList(listData') BY <1>1, <1>4
  <1>8. CASE Len(listData) = 0
    <2>1. second.rest = listData /\ r = peer[c].range /\ s = peer[c].spare
      BY <1>3, <1>4, <1>8 DEF SetIfAny
    <2> HIDE DEF r, s
    <2> DEFINE f == [i \in 1 .. Len(listData') |-> i]
    <2>2. /\ f \in [1 .. Len(listData') -> 1 .. Len(listData)]
          /\ \A i, j \in 1 .. Len(listData') : f[i] = f[j] => i = j
          /\ \A i \in 1 .. Len(listData') :
                /\ listData'[i] = listData[f[i]]
                /\ listData'[i].min # r.min /\ listData'[i].min # s.min
      BY <1>1, <1>2, <2>1 DEF LentOnce
    <2>3. r.min = s.min => r.min = 0 BY <1>2, <2>1 DEF LentOnce
    <2>4. r.min \in Mins(c) /\ s.min \in Mins(c) BY <2>1 DEF Mins
    <2> HIDE DEF f
    <2>5. peer' = [peer EXCEPT ![c] = [range |-> r, spare |-> s]] BY <1>1
    <2> HIDE DEF r, s
    <2>6. \E g \in [1 .. Len(listData') -> 1 .. Len(listData)] :
             /\ \A i, j \in 1 .. Len(listData') : g[i] = g[j] => i = j
             /\ \A i \in 1 .. Len(listData') :
                   /\ listData'[i] = listData[g[i]]
                   /\ listData'[i].min # r.min /\ listData'[i].min # s.min
      BY <2>2
    <2>7. \A x \in {r.min, s.min} :
             \/ x = 0 \/ x \in Mins(c)
             \/ \E i \in 1 .. Len(listData) : listData[i].min = x
      BY <2>4
    <2> QED BY <1>2, <1>6, <1>7, <2>3, <2>5, <2>6, <2>7, Lent
  <1>9. CASE Len(listData) = 1
    <2>1. /\ second.rest = <<>> /\ r = listData[1] /\ s = peer[c].spare
      <3>1. listData[1] # NoRange
        BY <1>2, <1>9, MinOf DEF IsList, IsRange
      <3>2. first.range = listData[1] /\ Len(first.rest) = 0 BY <1>3, <1>9
      <3>3. second.rest = first.rest /\ second.range = NoRange BY <1>4, <3>2
      <3>4. second.rest = <<>>
        <4>1. Len(first.rest) = 0 /\ \E S : first.rest \in Seq(S) BY <1>3, <3>2 DEF IsList
        <4> QED BY <3>3, <4>1
      <3> QED BY <3>1, <3>2, <3>3, <3>4 DEF SetIfAny
    <2> HIDE DEF r, s
    <2> DEFINE f == [i \in 1 .. Len(listData') |-> i]
    <2>2. /\ f \in [1 .. Len(listData') -> 1 .. Len(listData)]
          /\ \A i, j \in 1 .. Len(listData') : f[i] = f[j] => i = j
          /\ \A i \in 1 .. Len(listData') :
                /\ listData'[i] = listData[f[i]]
                /\ listData'[i].min # r.min /\ listData'[i].min # s.min
      BY <1>1, <2>1
    <2>3. r.min # s.min BY <1>2, <1>9, <2>1 DEF LentOnce
    <2>4. s.min \in Mins(c) /\ \E i \in 1 .. Len(listData) : listData[i].min = r.min
      BY <1>9, <2>1 DEF Mins
    <2> HIDE DEF f
    <2>5. \A x \in {r.min, s.min} :
             \/ x = 0 \/ x \in Mins(c)
             \/ \E i \in 1 .. Len(listData) : listData[i].min = x
      BY <2>4
    <2> QED BY <1>1, <1>2, <1>6, <1>7, <2>2, <2>3, <2>5, Lent
  <1>10. CASE Len(listData) >= 2
    <2>1. /\ r = listData[1] /\ s = listData[2]
          /\ Len(second.rest) = Len(listData) - 2
          /\ \A i \in 1 .. Len(listData) - 2 : second.rest[i] = listData[i + 2]
      <3>1. listData[1] # NoRange /\ listData[2] # NoRange
        <4>1. IsRange(listData[1]) /\ IsRange(listData[2]) BY <1>2, <1>3, <1>10 DEF IsList
        <4> QED BY <4>1, MinOf DEF IsRange
      <3>2. /\ first.range = listData[1] /\ Len(first.rest) = Len(listData) - 1
            /\ \A i \in 1 .. Len(listData) - 1 : first.rest[i] = listData[i + 1]
        BY <1>3, <1>10
      <3>3. /\ second.range = first.rest[1] /\ Len(second.rest) = Len(listData) - 2
            /\ \A i \in 1 .. Len(listData) - 2 : second.rest[i] = first.rest[i + 1]
        BY <1>3, <1>4, <1>10, <3>2
      <3>4. first.rest[1] = listData[2] BY <1>3, <1>10, <3>2
      <3>5. ASSUME NEW i \in 1 .. Len(listData) - 2
            PROVE  second.rest[i] = listData[i + 2]
        <4>1. i + 1 \in 1 .. Len(listData) - 1 /\ (i + 1) + 1 = i + 2 BY <1>3
        <4> QED BY <3>2, <3>3, <4>1
      <3> QED BY <3>1, <3>2, <3>3, <3>4, <3>5 DEF SetIfAny
    <2> HIDE DEF r, s
    <2> DEFINE f == [i \in 1 .. Len(listData') |-> i + 2]
    <2>2. 1 \in 1 .. Len(listData) /\ 2 \in 1 .. Len(listData) BY <1>3, <1>10
    <2>3. /\ f \in [1 .. Len(listData') -> 1 .. Len(listData)]
          /\ \A i, j \in 1 .. Len(listData') : f[i] = f[j] => i = j
          /\ \A i \in 1 .. Len(listData') : listData'[i] = listData[f[i]]
          /\ \A i \in 1 .. Len(listData') : f[i] # 1 /\ f[i] # 2
      BY <1>1, <1>3, <1>10, <2>1
    <2> HIDE DEF f
    <2>4. \A i \in 1 .. Len(listData') :
             listData'[i].min # r.min /\ listData'[i].min # s.min
      BY <1>2, <2>1, <2>2, <2>3 DEF LentOnce
    <2>5. r.min # s.min BY <1>2, <2>1, <2>2 DEF LentOnce
    <2>6. /\ \E i \in 1 .. Len(listData) : listData[i].min = r.min
          /\ \E i \in 1 .. Len(listData) : listData[i].min = s.min
      BY <2>1, <2>2
    <2>7. \E g \in [1 .. Len(listData') -> 1 .. Len(listData)] :
             /\ \A i, j \in 1 .. Len(listData') : g[i] = g[j] => i = j
             /\ \A i \in 1 .. Len(listData') :
                   /\ listData'[i] = listData[g[i]]
                   /\ listData'[i].min # r.min /\ listData'[i].min # s.min
      BY <2>3, <2>4
    <2>8. \A x \in {r.min, s.min} :
             \/ x = 0 \/ x \in Mins(c)
             \/ \E i \in 1 .. Len(listData) : listData[i].min = x
      BY <2>6
    <2> QED BY <1>1, <1>2, <1>6, <1>7, <2>5, <2>7, <2>8, Lent
  <1>11. Len(listData) = 0 \/ Len(listData) = 1 \/ Len(listData) >= 2
    <2>1. Len(listData) \in Nat BY <1>3, Zenon
    <2> QED BY <2>1
  <1> QED BY <1>8, <1>9, <1>10, <1>11, Zenon

\* The spare becomes the current block, the front of the list the spare.
LEMMA SpareLends ==
    ASSUME IInv, NEW c \in Core, DbSpare(c)
    PROVE  IInv'
  <1> DEFINE got == GetRange(listData)
             r == peer[c].spare
             s == got.range
  <1>1. IsList(listData) /\ RangesOK /\ LentOnce BY DEF IInv, RangesOK
  <1>2. CASE peer[c].spare = NoRange
    <2>1. listData' = listData /\ peer' = peer BY <1>2 DEF DbSpare
    <2> QED BY <2>1 DEF IInv, RangesOK, LentOnce
  <1>3. CASE peer[c].spare # NoRange
    <2>1. listData' = got.rest /\ peer' = [peer EXCEPT ![c] = [range |-> r, spare |-> s]]
      BY <1>3 DEF DbSpare
    <2>2. /\ IsList(got.rest) /\ MayBeRange(s)
          /\ Len(listData) \in Nat
          /\ \/ listData = <<>> /\ got.rest = listData /\ s = NoRange
             \/ /\ Len(listData) >= 1 /\ s = listData[1]
                /\ Len(got.rest) = Len(listData) - 1
                /\ \A i \in 1 .. Len(listData) - 1 : got.rest[i] = listData[i + 1]
      BY <1>1, Taken
    <2> HIDE DEF got
    <2>3. MayBeRange(r) /\ r.min \in Mins(c) BY <1>1 DEF RangesOK, Mins
    <2>4. IsList(listData') BY <2>1, <2>2
    <2>5. \A i \in 1 .. Len(listData) : listData[i].min # r.min BY <1>1 DEF LentOnce
    <2>6. CASE listData = <<>>
      <3>1. listData' = listData /\ s = NoRange /\ Len(listData) = 0 BY <2>1, <2>2, <2>6
      <3>2. s.min = 0 BY <3>1, MinOf
      <3> HIDE DEF r, s
      <3> DEFINE f == [i \in 1 .. Len(listData') |-> i]
      <3>3. \E g \in [1 .. Len(listData') -> 1 .. Len(listData)] :
               /\ \A i, j \in 1 .. Len(listData') : g[i] = g[j] => i = j
               /\ \A i \in 1 .. Len(listData') :
                     /\ listData'[i] = listData[g[i]]
                     /\ listData'[i].min # r.min /\ listData'[i].min # s.min
        <4>1. f \in [1 .. Len(listData') -> 1 .. Len(listData)] BY <3>1
        <4>2. 1 .. Len(listData') = {} BY <3>1
        <4> QED BY <4>1, <4>2
      <3>4. \A x \in {r.min, s.min} :
               \/ x = 0 \/ x \in Mins(c)
               \/ \E i \in 1 .. Len(listData) : listData[i].min = x
        BY <2>3, <3>2
      <3> QED BY <1>1, <2>1, <2>2, <2>3, <2>4, <3>2, <3>3, <3>4, Lent
    <2>7. CASE listData # <<>>
      <3>1. /\ s = listData[1] /\ 1 \in 1 .. Len(listData)
            /\ Len(listData') = Len(listData) - 1
            /\ \A i \in 1 .. Len(listData) - 1 : listData'[i] = listData[i + 1]
        BY <2>1, <2>2, <2>7
      <3> HIDE DEF r, s
      <3> DEFINE f == [i \in 1 .. Len(listData') |-> i + 1]
      <3>2. /\ f \in [1 .. Len(listData') -> 1 .. Len(listData)]
            /\ \A i, j \in 1 .. Len(listData') : f[i] = f[j] => i = j
            /\ \A i \in 1 .. Len(listData') : listData'[i] = listData[f[i]]
            /\ \A i \in 1 .. Len(listData') : f[i] # 1
        <4>1. Len(listData) \in Nat BY <2>2, Zenon
        <4> QED BY <3>1, <4>1
      <3> HIDE DEF f
      <3>3. \A i \in 1 .. Len(listData') :
               listData'[i].min # r.min /\ listData'[i].min # s.min
        <4>1. \A i \in 1 .. Len(listData') :
                 f[i] \in 1 .. Len(listData) /\ f[i] # 1 /\ listData'[i] = listData[f[i]]
          BY <3>2
        <4>2. \A i \in 1 .. Len(listData) : i # 1 => listData[i].min # s.min
          BY <1>1, <3>1 DEF LentOnce
        <4> QED BY <2>5, <4>1, <4>2
      <3>4. \E g \in [1 .. Len(listData') -> 1 .. Len(listData)] :
               /\ \A i, j \in 1 .. Len(listData') : g[i] = g[j] => i = j
               /\ \A i \in 1 .. Len(listData') :
                     /\ listData'[i] = listData[g[i]]
                     /\ listData'[i].min # r.min /\ listData'[i].min # s.min
        BY <3>2, <3>3
      <3>5. \A x \in {r.min, s.min} :
               \/ x = 0 \/ x \in Mins(c)
               \/ \E i \in 1 .. Len(listData) : listData[i].min = x
        BY <2>3, <3>1
      <3>6. r.min # s.min BY <2>5, <3>1
      <3> QED BY <1>1, <2>1, <2>2, <2>3, <2>4, <3>4, <3>5, <3>6, Lent
    <2> QED BY <2>6, <2>7
  <1> QED BY <1>2, <1>3

\* A peer that has none any more; his current block is free again, or lost.
LEMMA Returned ==
    ASSUME IInv, NEW c \in Core, OnClose(c)
    PROVE  IInv'
  <1> DEFINE none == [range |-> NoRange, spare |-> NoRange]
  <1>1. IsList(listData) /\ RangesOK /\ LentOnce /\ MayBeRange(peer[c].range)
    BY DEF IInv, RangesOK
  <1>2. /\ none.range = NoRange /\ none.spare = NoRange
        /\ none = [range |-> none.range, spare |-> none.spare]
        /\ MayBeRange(NoRange) /\ NoRange.min = 0
    BY MinOf DEF MayBeRange
  <1>3. /\ peer'[c] = none
        /\ \A d \in Core : d # c => peer'[d] = peer[d]
        /\ peer' = [d \in Core |-> peer'[d]]
    BY <1>1 DEF OnClose, RangesOK
  <1> HIDE DEF none
  <1>4. \A d \in Core : d # c =>
           /\ peer[d] = [range |-> peer[d].range, spare |-> peer[d].spare]
           /\ MayBeRange(peer[d].range) /\ MayBeRange(peer[d].spare)
    BY <1>1 DEF RangesOK
  <1>5. /\ peer' = [d \in Core |-> [range |-> peer'[d].range, spare |-> peer'[d].spare]]
        /\ \A d \in Core : MayBeRange(peer'[d].range) /\ MayBeRange(peer'[d].spare)
    <2>1. ASSUME NEW d \in Core
          PROVE  /\ peer'[d] = [range |-> peer'[d].range, spare |-> peer'[d].spare]
                 /\ MayBeRange(peer'[d].range) /\ MayBeRange(peer'[d].spare)
      <3>1. CASE d = c BY <1>2, <1>3, <3>1
      <3>2. CASE d # c
        <4>1. peer'[d] = peer[d] BY <1>3, <3>2
        <4> QED BY <1>4, <3>2, <4>1
      <3> QED BY <3>1, <3>2
    <2> QED BY <1>3, <2>1
  <1>6. \A d \in Core :
           {peer'[d].range.min, peer'[d].spare.min} \subseteq
             {0} \cup (IF d = c THEN {} ELSE Mins(d))
    BY <1>2, <1>3 DEF Mins
  <1>7. /\ \A d, e \in Core : d # e =>
              {peer'[d].range.min, peer'[d].spare.min} \cap
              {peer'[e].range.min, peer'[e].spare.min} \subseteq {0}
        /\ \A d \in Core : peer'[d].range.min = peer'[d].spare.min => peer'[d].range.min = 0
    BY <1>1, <1>2, <1>3 DEF LentOnce
  <1>8. listData' = listData \o BuildRange(peer[c].range, mysql)
    BY DEF OnClose, UpdateRange
  <1>9. \/ BuildRange(peer[c].range, mysql) = <<>>
        \/ \E u : /\ BuildRange(peer[c].range, mysql) = <<u>>
                  /\ IsRange(u) /\ u.min = peer[c].range.min
    BY <1>1, Rebuilt
  <1>10. PICK S : listData \in Seq(S) BY <1>1 DEF IsList
  <1>11. \A i \in 1 .. Len(listData), d \in Core :
            IsRange(listData[i]) /\ listData[i].min \notin {0} \cup Mins(d)
    BY <1>1 DEF IsList, IsRange, LentOnce, Mins
  <1>12. CASE BuildRange(peer[c].range, mysql) = <<>>
    <2>1. listData' = listData BY <1>8, <1>10, <1>12
    <2>2. \A d \in Core, i \in 1 .. Len(listData') :
             listData'[i].min \notin {peer'[d].range.min, peer'[d].spare.min}
      BY <1>6, <1>11, <2>1
    <2> QED BY <1>1, <1>5, <1>7, <2>1, <2>2 DEF IInv, RangesOK, LentOnce
  <1>13. ASSUME NEW u, BuildRange(peer[c].range, mysql) = <<u>>,
                IsRange(u), u.min = peer[c].range.min
         PROVE  IInv'
    <2>1. /\ Len(listData) \in Nat /\ Len(listData') = Len(listData) + 1
          /\ listData'[Len(listData) + 1] = u
          /\ \A i \in 1 .. Len(listData) : listData'[i] = listData[i]
          /\ listData' \in Seq(S \cup {u})
      <3>1. listData' = Append(listData, u) /\ listData \in Seq(S \cup {u})
        BY <1>8, <1>10, <1>13
      <3> QED BY <1>10, <3>1
    <2>2. u.min # 0 /\ u.min \in Mins(c) BY <1>13 DEF IsRange, Mins
    <2>3. \A i \in 1 .. Len(listData') :
             i \in 1 .. Len(listData) \/ i = Len(listData) + 1
      BY <2>1
    <2>4. IsList(listData')
      <3>1. \A i \in 1 .. Len(listData') : IsRange(listData'[i])
        BY <1>11, <1>13, <2>1, <2>3
      <3> QED BY <2>1, <3>1 DEF IsList
    <2>5. \A i, j \in 1 .. Len(listData') : i # j => listData'[i].min # listData'[j].min
      <3>1. \A i \in 1 .. Len(listData) : listData[i].min # u.min BY <1>11, <2>2
      <3>2. \A i, j \in 1 .. Len(listData) : i # j => listData[i].min # listData[j].min
        BY <1>1 DEF LentOnce
      <3> QED BY <2>1, <2>3, <3>1, <3>2
    <2>6. \A d \in Core : u.min \notin {peer'[d].range.min, peer'[d].spare.min}
      <3>1. \A d \in Core : d # c => Mins(c) \cap Mins(d) \subseteq {0}
        BY <1>1 DEF LentOnce, Mins
      <3> QED BY <1>6, <2>2, <3>1
    <2>7. \A d \in Core, i \in 1 .. Len(listData') :
             listData'[i].min \notin {peer'[d].range.min, peer'[d].spare.min}
      BY <1>6, <1>11, <2>1, <2>3, <2>6
    <2> QED BY <1>5, <1>7, <2>4, <2>5, <2>7 DEF IInv, RangesOK, LentOnce
  <1> QED BY <1>9, <1>12, <1>13

-----------------------------------------------------------------------------
\* The blocks of Build start at different ids.
LEMMA AtFirst ==
    ASSUME Init PROVE IInv
  <1>1. NBlock \in Nat /\ BlockSize \in Nat \ {0} BY RangeAssumption
  <1> DEFINE first(b) == (b - 1) * BlockSize + 1
             S == {Range(b, first(b)) : b \in 1 .. NBlock}
  <1>2. \A b \in 1 .. NBlock :
           /\ Range(b, first(b)).min = first(b)
           /\ Range(b, first(b)) = [min |-> Range(b, first(b)).min,
                                    max |-> Range(b, first(b)).max,
                                    usable |-> Range(b, first(b)).usable]
    BY DEF Range
  <1>3. \A b \in 1 .. NBlock : first(b) \in Nat \ {0}
    <2>1. ASSUME NEW b \in 1 .. NBlock PROVE first(b) \in Nat \ {0}
      <3>1. b - 1 \in Nat BY <1>1
      <3>2. (b - 1) * BlockSize \in Nat BY <1>1, <3>1
      <3> QED BY <3>2
    <2> QED BY <2>1
  <1>4. \A a, b \in 1 .. NBlock : a # b => first(a) # first(b)
    <2>1. ASSUME NEW a \in 1 .. NBlock, NEW b \in 1 .. NBlock, a < b
          PROVE  first(a) < first(b)
      <3>1. a - 1 \in Nat /\ b - a \in Nat \ {0} /\ b - 1 = (a - 1) + (b - a) BY <1>1, <2>1
      <3>2. \A x, y \in Nat : (x + y) * BlockSize = x * BlockSize + y * BlockSize BY <1>1
      <3>3. (b - 1) * BlockSize = (a - 1) * BlockSize + (b - a) * BlockSize BY <3>1, <3>2
      <3>4. (b - a) * BlockSize > 0 /\ (b - a) * BlockSize \in Nat /\ (a - 1) * BlockSize \in Nat
        BY <1>1, <3>1
      <3> QED BY <3>3, <3>4
    <2>2. ASSUME NEW a \in 1 .. NBlock, NEW b \in 1 .. NBlock, a # b
          PROVE  first(a) # first(b)
      <3>1. a < b \/ b < a BY <1>1, <2>2
      <3>2. first(a) \in Nat /\ first(b) \in Nat BY <1>3
      <3> HIDE DEF first
      <3>3. first(a) < first(b) \/ first(b) < first(a) BY <2>1, <3>1
      <3> QED BY <3>2, <3>3
    <2> QED BY <2>2
  <1> HIDE DEF first
  <1>5. listData = [b \in 1 .. NBlock |-> Range(b, first(b))] BY DEF Init, first
  <1>6. listData \in Seq(S) /\ Len(listData) = NBlock BY <1>1, <1>5
  <1>7. \A b \in 1 .. NBlock : listData[b] = Range(b, first(b)) BY <1>5
  <1>8. IsList(listData)
    <2>1. \A b \in 1 .. NBlock : IsRange(listData[b]) BY <1>2, <1>3, <1>7 DEF IsRange
    <2> HIDE DEF S
    <2> QED BY <1>6, <2>1 DEF IsList
  <1>9. NoRange.min = 0 /\ MayBeRange(NoRange) BY MinOf DEF MayBeRange
  <1>10. peer = [c \in Core |-> [range |-> NoRange, spare |-> NoRange]] BY DEF Init
  <1>11. \A c \in Core : peer[c].range = NoRange /\ peer[c].spare = NoRange BY <1>10
  <1>12. RangesOK BY <1>8, <1>9, <1>10, <1>11 DEF RangesOK
  <1>13. LentOnce
    <2>1. \A i, j \in 1 .. Len(listData) : i # j => listData[i].min # listData[j].min
      BY <1>2, <1>4, <1>6, <1>7
    <2>2. \A i \in 1 .. Len(listData) : listData[i].min # 0 BY <1>2, <1>3, <1>6, <1>7
    <2> QED BY <1>9, <1>11, <2>1, <2>2 DEF LentOnce
  <1> QED BY <1>12, <1>13 DEF IInv

LEMMA NextInv ==
    ASSUME IInv, [Next]_vars PROVE IInv'
  <1>1. ASSUME UNCHANGED dbVars PROVE IInv'
    BY <1>1 DEF dbVars, IInv, RangesOK, LentOnce
  <1>2. ASSUME NEW c \in Core, DbStep(c) PROVE IInv'
    BY <1>2, BootLends, SpareLends DEF DbStep
  <1>3. ASSUME NEW c \in Core, CoreRecv(c) PROVE IInv'
    BY <1>1, <1>3 DEF CoreRecv, CoreBoot, CoreSpare
  <1>4. ASSUME NEW c \in Core, CoreStart(c) PROVE IInv' BY <1>1, <1>4 DEF CoreStart
  <1>5. ASSUME NEW c \in Core, CreateItem(c) PROVE IInv' BY <1>1, <1>5 DEF CreateItem
  <1>6. ASSUME NEW c \in Core, CreateItemOnSpare(c) PROVE IInv'
    BY <1>1, <1>6 DEF CreateItemOnSpare
  <1>7. ASSUME NEW c \in Core, OutOfIds(c) PROVE IInv' BY <1>1, <1>7 DEF OutOfIds
  <1>8. ASSUME NEW c \in Core, CoreEnd(c) PROVE IInv' BY <1>1, <1>8, Returned DEF CoreEnd
  <1>9. ASSUME NEW c \in Core, LinkLost(c) PROVE IInv' BY <1>9, Returned DEF LinkLost
  <1>10. ASSUME NEW c \in Core, Reconnect(c) PROVE IInv' BY <1>1, <1>10 DEF Reconnect
  <1>11. ASSUME NEW id \in ItemID, Persist(id) \/ Destroy(id) PROVE IInv'
    BY <1>1, <1>11 DEF Persist, Destroy
  <1>12. CASE UNCHANGED vars BY <1>1, <1>12 DEF vars
  <1>13. CASE Next
    BY <1>2, <1>3, <1>4, <1>5, <1>6, <1>7, <1>8, <1>9, <1>10, <1>11, <1>13 DEF Next
  <1> QED BY <1>12, <1>13

\* The daemon lends a block of ids once: whatever boots, requests and closed
\* connections came before, no block is free twice, with two peers, or both
\* free and lent.
THEOREM LentOnceHolds == Spec => []LentOnce
  <1>1. Init => IInv BY AtFirst
  <1>2. IInv /\ [Next]_vars => IInv' BY NextInv
  <1>3. IInv => LentOnce BY DEF IInv
  <1> QED BY <1>1, <1>2, <1>3, PTL DEF Spec

-----------------------------------------------------------------------------
(* The daemon, a core and the packets between them *)

Rng == [min : Nat, max : Nat, usable : Nat]

Packet == [type : {"boot"}, range : Rng, spare : Rng] \cup [type : {"spare"}, spare : Rng]

TypeOK ==
    /\ listData \in Seq(Rng)
    /\ peer \in [Core -> [range : Rng, spare : Rng]]
    /\ core \in [Core -> [st : {"off", "boot", "run", "stop"},
                          range : Rng, spare : Rng, id : Nat]]
    /\ up \subseteq Core /\ orphans \subseteq Core
    /\ toDb \in [Core -> Seq({"boot", "spare"})]
    /\ toCore \in [Core -> Seq(Packet)]
    /\ mysql \subseteq ItemID /\ unsaved \subseteq Nat

Elems(l) == {l[i] : i \in 1 .. Len(l)}

\* A block of Build, with some of its ids left.
IsBlock(r) ==
    /\ \E b \in 1 .. NBlock : r.min = (b - 1) * BlockSize + 1 /\ r.max = b * BlockSize
    /\ r.min <= r.usable /\ r.usable <= r.max

Blocks ==
    /\ \A r \in Elems(listData) : IsBlock(r)
    /\ \A c \in Core : /\ peer[c].range = NoRange \/ IsBlock(peer[c].range)
                       /\ peer[c].spare = NoRange \/ IsBlock(peer[c].spare)

\* What a core whose connection never failed and the daemon know of each other.
Off(c) ==
    /\ c \notin up /\ core[c].st = "off" /\ toDb[c] = <<>> /\ toCore[c] = <<>>
    /\ peer[c].range = NoRange /\ peer[c].spare = NoRange

Asking(c) ==
    /\ c \in up /\ core[c].st = "boot" /\ toDb[c] = <<"boot">> /\ toCore[c] = <<>>
    /\ peer[c].range = NoRange /\ peer[c].spare = NoRange

Booting(c) ==
    /\ c \in up /\ core[c].st = "boot" /\ toDb[c] = <<>>
    /\ toCore[c] = <<[type |-> "boot", range |-> peer[c].range, spare |-> peer[c].spare]>>

Runs(c) == c \in up /\ core[c].st \in {"run", "stop"}

Settled(c) ==
    /\ Runs(c) /\ toDb[c] = <<>> /\ toCore[c] = <<>>
    /\ peer[c].range = core[c].range /\ peer[c].spare = core[c].spare

\* The daemon takes the spare for the current block when it reads the request.
Requested(c) ==
    /\ Runs(c) /\ toDb[c] = <<"spare">> /\ toCore[c] = <<>>
    /\ peer[c].spare = core[c].range /\ core[c].range # NoRange /\ core[c].spare = NoRange

Answered(c) ==
    /\ Runs(c) /\ toDb[c] = <<>>
    /\ toCore[c] = <<[type |-> "spare", spare |-> peer[c].spare]>>
    /\ peer[c].range = core[c].range /\ core[c].spare = NoRange

Phase(c) ==
    \/ Off(c) \/ Asking(c) \/ Booting(c)
    \/ Settled(c) \/ Requested(c) \/ Answered(c)

Phases == \A c \in Core \ orphans : Phase(c)

\* No item has an id of the block r from id on.
Unused(ids, r, id) == \A i \in ids : i < id \/ r.max < i

Known == mysql \cup unsaved

Numbered(c) == core[c].range.min <= core[c].id /\ Unused(Known, core[c].range, core[c].id)

SpareUnused(c) == Unused(Known, peer[c].spare, peer[c].spare.usable)

\* No item has an id that a core may still give out.
IdsOf(c) ==
    /\ Booting(c) => Unused(Known, peer[c].range, peer[c].range.usable)
    /\ Settled(c) \/ Requested(c) \/ Answered(c) => Numbered(c)
    /\ Booting(c) \/ Settled(c) \/ Answered(c) => SpareUnused(c)

Ids ==
    /\ ~clash /\ unsaved \subseteq Nat \ {0}
    /\ \A r \in Elems(listData) : Unused(Known, r, r.usable)
    /\ \A c \in Core : IdsOf(c)

IdsKept == orphans = {} /\ ~unflushed => Ids

IdInv == TypeOK /\ Blocks /\ Phases /\ IdsKept

\* Two blocks share no id.
LEMMA Disjoint ==
    ASSUME NEW r \in Rng, NEW s \in Rng, IsBlock(r), IsBlock(s), r.min # s.min,
           NEW i \in Nat, r.min <= i, i <= r.max
    PROVE  i < s.min \/ s.max < i
  <1>1. NBlock \in Nat /\ BlockSize \in Nat BY RangeAssumption
  <1>2. PICK a \in 1 .. NBlock : r.min = (a - 1) * BlockSize + 1 /\ r.max = a * BlockSize
    BY DEF IsBlock
  <1>3. PICK b \in 1 .. NBlock : s.min = (b - 1) * BlockSize + 1 /\ s.max = b * BlockSize
    BY DEF IsBlock
  <1>4. ASSUME NEW x \in 1 .. NBlock, NEW y \in 1 .. NBlock, x < y
        PROVE  x * BlockSize <= (y - 1) * BlockSize
    <2>1. y - 1 = x + ((y - 1) - x) /\ (y - 1) - x \in Nat /\ x \in Nat BY <1>1, <1>4
    <2>2. \A u, v \in Nat : (u + v) * BlockSize = u * BlockSize + v * BlockSize BY <1>1
    <2>3. (y - 1) * BlockSize = x * BlockSize + ((y - 1) - x) * BlockSize BY <2>1, <2>2
    <2>4. ((y - 1) - x) * BlockSize \in Nat /\ x * BlockSize \in Nat BY <1>1, <2>1
    <2> QED BY <2>3, <2>4
  <1>5. a # b BY <1>2, <1>3
  <1> DEFINE rmax == a * BlockSize
             smax == b * BlockSize
             rmin == (a - 1) * BlockSize
             smin == (b - 1) * BlockSize
  <1>6. r.max = rmax /\ s.max = smax /\ r.min = rmin + 1 /\ s.min = smin + 1 BY <1>2, <1>3
  <1>7. rmax <= smin \/ smax <= rmin
    <2>1. a < b \/ b < a BY <1>1, <1>5
    <2> QED BY <1>4, <2>1
  <1>8. rmax \in Int /\ smax \in Int /\ rmin \in Int /\ smin \in Int BY <1>1
  <1> HIDE DEF rmax, smax, rmin, smin
  <1> QED BY <1>6, <1>7, <1>8

\* A set of naturals has a least element.
LEMMA LeastOf ==
    ASSUME NEW T \in SUBSET Nat, T # {}
    PROVE  \E m \in T : \A k \in T : m <= k
  <1> DEFINE R == {p \in Nat \X Nat : p[1] < p[2]}
  <1>1. IsWellFoundedOn(R, Nat) BY NatLessThanWellFounded, Zenon DEF OpToRel
  <1>2. T \subseteq Nat OBVIOUS
  <1> HIDE DEF R
  <1>3. PICK x \in T : \A y \in T : ~ (<<y, x>> \in R) BY <1>1, <1>2, WFMin
  <1>4. ASSUME NEW k \in T PROVE x <= k
    <2>1. ~ (<<k, x>> \in R) BY <1>3
    <2>2. k \in Nat /\ x \in Nat OBVIOUS
    <2>3. ~ (k < x) BY <2>1, <2>2 DEF R
    <2> QED BY <2>2, <2>3
  <1> QED BY <1>4

\* MAX(id) of the ids of a block.
LEMMA Greatest ==
    ASSUME NEW r \in Rng, NEW ids \in SUBSET Nat, IdsIn(r, ids) # {}
    PROVE  /\ MaxId(IdsIn(r, ids)) \in IdsIn(r, ids)
           /\ \A j \in IdsIn(r, ids) : j <= MaxId(IdsIn(r, ids))
  <1> DEFINE used == IdsIn(r, ids)
             T == {r.max - i : i \in used}
  <1>1. \A i \in used : i \in Nat /\ i <= r.max /\ r.max \in Nat BY DEF IdsIn, Rng
  <1> HIDE DEF used
  <1>2. T \in SUBSET Nat BY <1>1
  <1>3. used # {} BY DEF used
  <1>4. T # {} BY <1>3
  <1>5. PICK m \in T : \A k \in T : m <= k
    <2> HIDE DEF T
    <2> QED BY <1>2, <1>4, LeastOf
  <1>6. PICK i \in used : m = r.max - i OBVIOUS
  <1>7. \A j \in used : j <= i
    <2>1. ASSUME NEW j \in used PROVE j <= i
      <3>1. r.max - j \in T OBVIOUS
      <3>2. r.max - i <= r.max - j BY <1>5, <1>6, <3>1
      <3> QED BY <1>1, <3>2
    <2> QED BY <2>1
  <1> HIDE DEF T
  <1>8. MaxId(used) \in used /\ \A j \in used : j <= MaxId(used)
    BY <1>7 DEF MaxId
  <1> QED BY <1>8 DEF used

\* A block that comes back is cut off above the last id MySQL has in it.
LEMMA Reopened ==
    ASSUME NEW r \in Rng, r = NoRange \/ IsBlock(r), NEW ids \in SUBSET Nat
    PROVE  \/ BuildRange(r, ids) = <<>>
           \/ \E u \in Rng : /\ BuildRange(r, ids) = <<u>> /\ IsBlock(u)
                             /\ u.min = r.min /\ u.max = r.max
                             /\ Unused(ids, u, u.usable)
  <1> DEFINE used == IdsIn(r, ids)
             usable == IF used = {} THEN r.min ELSE MaxId(used) + 1
             u == [r EXCEPT !.usable = usable]
  <1>1. \/ BuildRange(r, ids) = <<>>
        \/ r # NoRange /\ ~(r.max < usable) /\ BuildRange(r, ids) = <<u>>
    BY DEF BuildRange
  <1>2. r.min \in Nat /\ r.max \in Nat BY DEF Rng
  <1>3. /\ usable \in Nat /\ r.min <= usable
        /\ \A i \in ids : i < usable \/ r.max < i
    <2>1. CASE used = {}
      <3>1. usable = r.min BY <2>1
      <3>2. \A i \in ids : i < r.min \/ r.max < i BY <1>2, <2>1 DEF IdsIn
      <3> QED BY <1>2, <3>1, <3>2
    <2>2. CASE used # {}
      <3>1. usable = MaxId(used) + 1 BY <2>2
      <3>2. MaxId(used) \in used /\ \A j \in used : j <= MaxId(used) BY <2>2, Greatest
      <3>3. MaxId(used) \in Nat /\ r.min <= MaxId(used) BY <3>2 DEF IdsIn
      <3>4. ASSUME NEW i \in ids PROVE i < MaxId(used) + 1 \/ r.max < i
        <4>1. i \in used => i <= MaxId(used) BY <3>2
        <4>2. i \in used \/ i < r.min \/ r.max < i BY <1>2 DEF IdsIn
        <4> HIDE DEF used
        <4> QED BY <1>2, <3>3, <4>1, <4>2
      <3> HIDE DEF used
      <3> QED BY <1>2, <3>1, <3>3, <3>4
    <2> QED BY <2>1, <2>2
  <1> HIDE DEF usable
  <1>4. u \in Rng /\ u.min = r.min /\ u.max = r.max /\ u.usable = usable
    BY <1>3 DEF Rng
  <1> HIDE DEF u
  <1>5. r # NoRange /\ ~(r.max < usable) => IsBlock(u)
    BY <1>2, <1>3, <1>4 DEF IsBlock
  <1>6. Unused(ids, u, u.usable) BY <1>3, <1>4 DEF Unused
  <1> QED BY <1>1, <1>4, <1>5, <1>6

LEMMA RangeFacts ==
    /\ NoRange \in Rng /\ NoRange.min = 0 /\ NoRange.max = 0 /\ NoRange.usable = 0
    /\ \A r \in Rng : r.min \in Nat /\ r.max \in Nat /\ r.usable \in Nat
    /\ \A r \in Rng : IsBlock(r) => r.min >= 1
  <1>1. NBlock \in Nat /\ BlockSize \in Nat BY RangeAssumption
  <1>2. ASSUME NEW r \in Rng, IsBlock(r) PROVE r.min >= 1
    <2>1. PICK b \in 1 .. NBlock : r.min = (b - 1) * BlockSize + 1 BY <1>2 DEF IsBlock
    <2>2. b - 1 \in Nat BY <1>1
    <2>3. (b - 1) * BlockSize \in Nat BY <1>1, <2>2
    <2> QED BY <2>1, <2>3
  <1> QED BY <1>2 DEF NoRange, Rng

\* GetRange answers a block of the list or none and leaves blocks of the list.
LEMMA Took ==
    ASSUME NEW l \in Seq(Rng)
    PROVE  /\ GetRange(l).rest \in Seq(Rng) /\ GetRange(l).range \in Rng
           /\ GetRange(l).range \in Elems(l) \cup {NoRange}
           /\ Elems(GetRange(l).rest) \subseteq Elems(l)
  <1>1. CASE l = <<>>
    <2>1. GetRange(l).rest = l /\ GetRange(l).range = NoRange BY <1>1 DEF GetRange
    <2> QED BY <2>1, RangeFacts
  <1>2. CASE l # <<>>
    <2>1. GetRange(l).rest = Tail(l) /\ GetRange(l).range = Head(l) BY <1>2 DEF GetRange
    <2>2. /\ Len(l) \in Nat /\ Len(l) >= 1 /\ Head(l) = l[1] /\ l[1] \in Rng
          /\ Tail(l) \in Seq(Rng) /\ Len(Tail(l)) = Len(l) - 1
          /\ \A i \in 1 .. Len(l) - 1 : Tail(l)[i] = l[i + 1]
      BY <1>2
    <2>3. Head(l) \in Elems(l) BY <2>2 DEF Elems
    <2>4. ASSUME NEW i \in 1 .. Len(Tail(l)) PROVE Tail(l)[i] \in Elems(l)
      <3>1. i + 1 \in 1 .. Len(l) /\ Tail(l)[i] = l[i + 1] BY <2>2
      <3> QED BY <3>1 DEF Elems
    <2>5. Elems(Tail(l)) \subseteq Elems(l) BY <2>4 DEF Elems
    <2> QED BY <2>1, <2>2, <2>3, <2>5
  <1> QED BY <1>1, <1>2

LEMMA Added ==
    ASSUME NEW l \in Seq(Rng), NEW u \in Rng
    PROVE  l \o <<u>> \in Seq(Rng) /\ Elems(l \o <<u>>) = Elems(l) \cup {u}
  <1>1. /\ l \o <<u>> \in Seq(Rng) /\ Len(l \o <<u>>) = Len(l) + 1 /\ Len(l) \in Nat
        /\ (l \o <<u>>)[Len(l) + 1] = u
        /\ \A i \in 1 .. Len(l) : (l \o <<u>>)[i] = l[i]
    OBVIOUS
  <1> DEFINE m == l \o <<u>>
  <1> HIDE DEF m
  <1>2. /\ Len(m) = Len(l) + 1 /\ Len(l) \in Nat /\ m[Len(l) + 1] = u
        /\ \A i \in 1 .. Len(l) : m[i] = l[i]
    BY <1>1 DEF m
  <1>3. Elems(m) \subseteq Elems(l) \cup {u}
    <2>1. ASSUME NEW i \in 1 .. Len(m) PROVE m[i] \in Elems(l) \cup {u}
      <3>1. i \in 1 .. Len(l) \/ i = Len(l) + 1 BY <1>2
      <3> QED BY <1>2, <3>1 DEF Elems
    <2> QED BY <2>1 DEF Elems
  <1>4. Elems(l) \subseteq Elems(m)
    <2>1. ASSUME NEW i \in 1 .. Len(l) PROVE l[i] \in Elems(m)
      <3>1. i \in 1 .. Len(m) BY <1>2
      <3> QED BY <1>2, <3>1 DEF Elems
    <2> QED BY <2>1 DEF Elems
  <1>5. u \in Elems(m)
    <2>1. Len(l) + 1 \in 1 .. Len(m) BY <1>2
    <2> QED BY <1>2, <2>1 DEF Elems
  <1> QED BY <1>1, <1>3, <1>4, <1>5 DEF m

\* No item has an id of no block.
LEMMA NoneUnused ==
    ASSUME TypeOK, Ids, NEW id
    PROVE  Unused(Known, NoRange, id)
  BY RangeFacts DEF TypeOK, Ids, Unused, Known, ItemID

LEMMA UnusedSubset ==
    ASSUME NEW ids, NEW less \in SUBSET ids, NEW r, NEW id, Unused(ids, r, id)
    PROVE  Unused(less, r, id)
  BY DEF Unused

\* An id of a block is none of another.
LEMMA StillUnused ==
    ASSUME NEW ids, NEW r \in Rng, IsBlock(r),
           NEW s \in Rng, s = NoRange \/ (IsBlock(s) /\ s.min # r.min),
           NEW id \in Nat, r.min <= id, id <= r.max,
           NEW from \in Nat, s.min <= from, Unused(ids, s, from)
    PROVE  Unused(ids \cup {id}, s, from)
  <1>1. id < from \/ s.max < id
    <2>1. CASE s = NoRange BY <2>1, RangeFacts
    <2>2. CASE IsBlock(s) /\ s.min # r.min
      <3>1. id < s.min \/ s.max < id BY <2>2, Disjoint
      <3> QED BY <3>1, RangeFacts
    <2> QED BY <2>1, <2>2
  <1> QED BY <1>1 DEF Unused

\* What no step touches stays as it is.
LEMMA PhaseKept ==
    ASSUME NEW c, Phase(c), peer'[c] = peer[c], core'[c] = core[c],
           toDb'[c] = toDb[c], toCore'[c] = toCore[c], c \in up' <=> c \in up
    PROVE  Phase(c)'
  BY DEF Phase, Off, Asking, Booting, Runs, Settled, Requested, Answered

LEMMA IdsOfKept ==
    ASSUME NEW c, IdsOf(c), peer'[c] = peer[c], core'[c] = core[c],
           toDb'[c] = toDb[c], toCore'[c] = toCore[c], c \in up' <=> c \in up,
           Known' \subseteq Known
    PROVE  IdsOf(c)'
  <1>1. /\ Booting(c)' <=> Booting(c)
        /\ Settled(c)' <=> Settled(c)
        /\ Requested(c)' <=> Requested(c)
        /\ Answered(c)' <=> Answered(c)
    BY DEF Booting, Runs, Settled, Requested, Answered
  <1>2. Numbered(c) => Numbered(c)' BY UnusedSubset DEF Numbered
  <1>3. SpareUnused(c) => SpareUnused(c)' BY UnusedSubset DEF SpareUnused
  <1>4. Unused(Known, peer[c].range, peer[c].range.usable) =>
           Unused(Known', peer'[c].range, peer'[c].range.usable)
    BY UnusedSubset
  <1> QED BY <1>1, <1>2, <1>3, <1>4 DEF IdsOf

-----------------------------------------------------------------------------
(* The steps keep daemon and cores in step, and the ids apart *)

LEMMA BootIds ==
    ASSUME IdInv, NEW c \in Core, DbBoot(c)
    PROVE  IdInv'
  <1> DEFINE first == GetRange(listData)
             second == GetRange(first.rest)
             f == first.range
             s == second.range
             msg == [type |-> "boot", range |-> f, spare |-> s]
  <1>1. TypeOK /\ Blocks /\ Phases /\ IdsKept BY DEF IdInv
  <1>2. /\ first.rest \in Seq(Rng) /\ f \in Rng /\ f \in Elems(listData) \cup {NoRange}
        /\ Elems(first.rest) \subseteq Elems(listData)
    BY <1>1, Took DEF TypeOK
  <1>3. /\ second.rest \in Seq(Rng) /\ s \in Rng /\ s \in Elems(first.rest) \cup {NoRange}
        /\ Elems(second.rest) \subseteq Elems(first.rest)
    <2> HIDE DEF first
    <2> QED BY <1>2, Took
  <1>4. /\ listData' = second.rest
        /\ peer' = [peer EXCEPT ![c] = [range |-> SetIfAny(@.range, f),
                                        spare |-> SetIfAny(@.spare, s)]]
        /\ toCore' = [toCore EXCEPT ![c] = Append(@, msg)]
        /\ toDb' = [toDb EXCEPT ![c] = Tail(@)]
        /\ toDb[c] # <<>> /\ Head(toDb[c]) = "boot"
        /\ core' = core /\ up' = up /\ mysql' = mysql /\ unsaved' = unsaved /\ clash' = clash
        /\ orphans' = orphans /\ unflushed' = unflushed
    BY DEF DbBoot, itemVars, history
  <1> HIDE DEF first, second, f, s
  <1>5. /\ peer'[c].range = SetIfAny(peer[c].range, f)
        /\ peer'[c].spare = SetIfAny(peer[c].spare, s)
        /\ toCore'[c] = Append(toCore[c], msg) /\ toDb'[c] = Tail(toDb[c])
        /\ \A d \in Core : d # c =>
              peer'[d] = peer[d] /\ toCore'[d] = toCore[d] /\ toDb'[d] = toDb[d]
    BY <1>1, <1>4 DEF TypeOK
  <1>6. /\ peer'[c].range \in {peer[c].range, f} /\ peer'[c].spare \in {peer[c].spare, s}
        /\ peer[c].range = NoRange => peer'[c].range = f
        /\ peer[c].spare = NoRange => peer'[c].spare = s
    BY <1>5 DEF SetIfAny
  <1>7. TypeOK'
    <2>1. peer' \in [Core -> [range : Rng, spare : Rng]]
      <3>1. SetIfAny(peer[c].range, f) \in Rng /\ SetIfAny(peer[c].spare, s) \in Rng
        BY <1>1, <1>2, <1>3 DEF SetIfAny, TypeOK
      <3> QED BY <1>1, <1>4, <3>1 DEF TypeOK
    <2>2. toCore' \in [Core -> Seq(Packet)]
      <3>1. msg \in Packet BY <1>2, <1>3 DEF Packet
      <3> HIDE DEF msg
      <3>2. Append(toCore[c], msg) \in Seq(Packet) BY <1>1, <3>1 DEF TypeOK
      <3> QED BY <1>1, <1>4, <3>2 DEF TypeOK
    <2>3. toDb' \in [Core -> Seq({"boot", "spare"})]
      <3>1. Tail(toDb[c]) \in Seq({"boot", "spare"}) BY <1>1, <1>4 DEF TypeOK
      <3> QED BY <1>1, <1>4, <3>1 DEF TypeOK
    <2>4. listData' \in Seq(Rng) BY <1>3, <1>4
    <2> QED BY <1>1, <1>4, <2>1, <2>2, <2>3, <2>4 DEF TypeOK
  <1>8. Blocks'
    <2>1. \A r \in Elems(listData') : IsBlock(r) BY <1>1, <1>2, <1>3, <1>4 DEF Blocks
    <2>2. (f = NoRange \/ IsBlock(f)) /\ (s = NoRange \/ IsBlock(s))
      BY <1>1, <1>2, <1>3 DEF Blocks
    <2>3. \A d \in Core : /\ peer'[d].range = NoRange \/ IsBlock(peer'[d].range)
                          /\ peer'[d].spare = NoRange \/ IsBlock(peer'[d].spare)
      BY <1>1, <1>5, <1>6, <2>2 DEF Blocks
    <2> QED BY <2>1, <2>3 DEF Blocks
  <1>9. c \notin orphans => Booting(c)' /\ peer'[c].range = f /\ peer'[c].spare = s
    <2>1. ASSUME c \notin orphans PROVE Asking(c)
      <3>1. Phase(c) BY <1>1, <2>1 DEF Phases
      <3>2. ~Requested(c) BY <1>4 DEF Requested
      <3> QED BY <1>4, <3>1, <3>2 DEF Phase, Off, Booting, Settled, Answered
    <2>2. Asking(c) => toDb'[c] = <<>> /\ toCore'[c] = <<msg>> BY <1>5 DEF Asking
    <2> QED BY <1>4, <1>6, <2>1, <2>2 DEF Asking, Booting
  <1>10. Phases'
    <2>1. ASSUME NEW d \in Core \ orphans' PROVE Phase(d)'
      <3>1. CASE d = c BY <1>4, <1>9, <2>1, <3>1 DEF Phase
      <3>2. CASE d # c BY <1>1, <1>4, <1>5, <2>1, <3>2, PhaseKept DEF Phases
      <3> QED BY <3>1, <3>2
    <2> QED BY <2>1 DEF Phases
  <1>11. IdsKept'
    <2> SUFFICES ASSUME orphans' = {}, ~unflushed' PROVE Ids' BY DEF IdsKept
    <2>1. Ids /\ c \notin orphans BY <1>1, <1>4 DEF IdsKept
    <2>2. Known' = Known BY <1>4 DEF Known
    <2>3. \A r \in Elems(listData) \cup {NoRange} : Unused(Known, r, r.usable)
      BY <1>1, <2>1, NoneUnused DEF Ids
    <2>4. IdsOf(c)'
      <3>1. ~Settled(c)' /\ ~Requested(c)' /\ ~Answered(c)'
        BY <1>9, <2>1 DEF Booting, Settled, Requested, Answered, Runs
      <3>2. Unused(Known', f, f.usable) /\ Unused(Known', s, s.usable)
        BY <1>2, <1>3, <2>2, <2>3
      <3> QED BY <1>9, <2>1, <3>1, <3>2 DEF IdsOf, SpareUnused
    <2>5. \A d \in Core : IdsOf(d)'
      BY <1>4, <1>5, <2>1, <2>2, <2>4, IdsOfKept DEF Ids
    <2>6. \A r \in Elems(listData') : Unused(Known', r, r.usable)
      BY <1>2, <1>3, <1>4, <2>2, <2>3
    <2> QED BY <1>4, <2>1, <2>5, <2>6 DEF Ids
  <1> QED BY <1>7, <1>8, <1>10, <1>11 DEF IdInv

LEMMA SpareIds ==
    ASSUME IdInv, NEW c \in Core, DbSpare(c)
    PROVE  IdInv'
  <1> DEFINE got == GetRange(listData)
             s == got.range
             none == peer[c].spare = NoRange
  <1>1. TypeOK /\ Blocks /\ Phases /\ IdsKept BY DEF IdInv
  <1>2. /\ got.rest \in Seq(Rng) /\ s \in Rng /\ s \in Elems(listData) \cup {NoRange}
        /\ Elems(got.rest) \subseteq Elems(listData)
    BY <1>1, Took DEF TypeOK
  <1>3. /\ none => listData' = listData /\ peer' = peer
        /\ ~none => /\ listData' = got.rest
                    /\ peer' = [peer EXCEPT ![c] = [range |-> @.spare, spare |-> s]]
        /\ toCore' = [toCore EXCEPT ![c] =
                        Append(@, [type |-> "spare", spare |-> peer'[c].spare])]
        /\ toDb' = [toDb EXCEPT ![c] = Tail(@)]
        /\ toDb[c] # <<>> /\ Head(toDb[c]) = "spare"
        /\ core' = core /\ up' = up /\ mysql' = mysql /\ unsaved' = unsaved /\ clash' = clash
        /\ orphans' = orphans /\ unflushed' = unflushed
    BY DEF DbSpare, itemVars, history
  <1> HIDE DEF got, s
  <1>4. /\ none => peer'[c].range = peer[c].range /\ peer'[c].spare = peer[c].spare
        /\ ~none => peer'[c].range = peer[c].spare /\ peer'[c].spare = s
        /\ \A d \in Core : d # c => peer'[d] = peer[d]
        /\ peer' \in [Core -> [range : Rng, spare : Rng]]
        /\ listData' \in Seq(Rng) /\ Elems(listData') \subseteq Elems(listData)
    <2>1. CASE none BY <1>1, <1>3, <2>1 DEF TypeOK
    <2>2. CASE ~none
      <3>1. peer' = [peer EXCEPT ![c] = [range |-> peer[c].spare, spare |-> s]]
        BY <1>3, <2>2
      <3>2. peer \in [Core -> [range : Rng, spare : Rng]] /\ peer[c].spare \in Rng
        BY <1>1 DEF TypeOK
      <3>3. /\ peer'[c].range = peer[c].spare /\ peer'[c].spare = s
            /\ \A d \in Core : d # c => peer'[d] = peer[d]
            /\ peer' \in [Core -> [range : Rng, spare : Rng]]
        BY <1>2, <3>1, <3>2
      <3> QED BY <1>2, <1>3, <2>2, <3>3
    <2> QED BY <2>1, <2>2
  <1> HIDE DEF none
  <1> DEFINE msg == [type |-> "spare", spare |-> peer'[c].spare]
  <1>5. /\ toCore'[c] = Append(toCore[c], msg) /\ toDb'[c] = Tail(toDb[c])
        /\ \A d \in Core : d # c => toCore'[d] = toCore[d] /\ toDb'[d] = toDb[d]
    BY <1>1, <1>3 DEF TypeOK
  <1>6. TypeOK'
    <2>1. toCore' \in [Core -> Seq(Packet)]
      <3>1. msg \in Packet BY <1>4 DEF Packet
      <3> HIDE DEF msg
      <3>2. Append(toCore[c], msg) \in Seq(Packet) BY <1>1, <3>1 DEF TypeOK
      <3>3. toCore' = [toCore EXCEPT ![c] = Append(@, msg)] BY <1>3 DEF msg
      <3> QED BY <1>1, <3>2, <3>3 DEF TypeOK
    <2>2. toDb' \in [Core -> Seq({"boot", "spare"})]
      <3>1. Tail(toDb[c]) \in Seq({"boot", "spare"}) BY <1>1, <1>3 DEF TypeOK
      <3> QED BY <1>1, <1>3, <3>1 DEF TypeOK
    <2> QED BY <1>1, <1>3, <1>4, <2>1, <2>2 DEF TypeOK
  <1>7. Blocks'
    <2>1. \A r \in Elems(listData') : IsBlock(r) BY <1>1, <1>4 DEF Blocks
    <2>2. s = NoRange \/ IsBlock(s) BY <1>1, <1>2 DEF Blocks
    <2>3. \A d \in Core : /\ peer'[d].range = NoRange \/ IsBlock(peer'[d].range)
                          /\ peer'[d].spare = NoRange \/ IsBlock(peer'[d].spare)
      BY <1>1, <1>4, <2>2 DEF Blocks
    <2> QED BY <2>1, <2>3 DEF Blocks
  <1>8. ASSUME c \notin orphans
        PROVE  Answered(c)' /\ Requested(c) /\ peer'[c].spare = s
    <2>1. Requested(c)
      <3>1. Phase(c) BY <1>1, <1>8 DEF Phases
      <3>2. ~Asking(c) BY <1>3 DEF Asking
      <3> QED BY <1>3, <3>1, <3>2 DEF Phase, Off, Booting, Settled, Answered
    <2>2. ~none BY <2>1 DEF Requested, none
    <2>3. toDb'[c] = <<>> /\ toCore'[c] = <<msg>> BY <1>5, <2>1 DEF Requested
    <2> QED BY <1>3, <1>4, <2>1, <2>2, <2>3 DEF Requested, Answered, Runs
  <1>9. Phases'
    <2>1. ASSUME NEW d \in Core \ orphans' PROVE Phase(d)'
      <3>1. CASE d = c BY <1>3, <1>8, <2>1, <3>1 DEF Phase
      <3>2. CASE d # c BY <1>1, <1>3, <1>4, <1>5, <2>1, <3>2, PhaseKept DEF Phases
      <3> QED BY <3>1, <3>2
    <2> QED BY <2>1 DEF Phases
  <1>10. IdsKept'
    <2> SUFFICES ASSUME orphans' = {}, ~unflushed' PROVE Ids' BY DEF IdsKept
    <2>1. Ids /\ c \notin orphans BY <1>1, <1>3 DEF IdsKept
    <2>2. Known' = Known BY <1>3 DEF Known
    <2>3. \A r \in Elems(listData) \cup {NoRange} : Unused(Known, r, r.usable)
      BY <1>1, <2>1, NoneUnused DEF Ids
    <2>4. IdsOf(c)'
      <3>1. ~Booting(c)' BY <1>8, <2>1 DEF Booting, Answered, Runs
      <3>2. Unused(Known', s, s.usable) BY <1>2, <2>2, <2>3
      <3>3. Numbered(c) BY <1>8, <2>1 DEF Ids, IdsOf
      <3>4. Numbered(c)' BY <1>3, <2>2, <3>3 DEF Numbered
      <3> QED BY <1>8, <2>1, <3>1, <3>2, <3>4 DEF IdsOf, SpareUnused
    <2>5. \A d \in Core : IdsOf(d)'
      BY <1>3, <1>4, <1>5, <2>1, <2>2, <2>4, IdsOfKept DEF Ids
    <2>6. \A r \in Elems(listData') : Unused(Known', r, r.usable)
      BY <1>4, <2>2, <2>3
    <2> QED BY <1>3, <2>1, <2>5, <2>6 DEF Ids
  <1> QED BY <1>6, <1>7, <1>9, <1>10 DEF IdInv

\* A step of the core c that leaves the daemon and the items alone.
LEMMA CoreAlone ==
    ASSUME IdInv, NEW c \in Core,
           listData' = listData, peer' = peer, mysql' = mysql, unsaved' = unsaved,
           clash' = clash, orphans' = orphans, unflushed' = unflushed,
           \A d \in Core : d # c =>
              /\ core'[d] = core[d] /\ toDb'[d] = toDb[d] /\ toCore'[d] = toCore[d]
              /\ d \in up' <=> d \in up,
           TypeOK', c \notin orphans => Phase(c)',
           Ids /\ c \notin orphans => IdsOf(c)'
    PROVE  IdInv'
  <1>1. TypeOK /\ Blocks /\ Phases /\ IdsKept BY DEF IdInv
  <1>2. Blocks' BY <1>1 DEF Blocks
  <1>3. Phases'
    <2>1. ASSUME NEW d \in Core \ orphans' PROVE Phase(d)'
      <3>1. CASE d = c BY <2>1, <3>1
      <3>2. CASE d # c BY <1>1, <2>1, <3>2, PhaseKept DEF Phases
      <3> QED BY <3>1, <3>2
    <2> QED BY <2>1 DEF Phases
  <1>4. Known' = Known BY DEF Known
  <1>5. IdsKept'
    <2> SUFFICES ASSUME orphans' = {}, ~unflushed' PROVE Ids' BY DEF IdsKept
    <2>1. Ids /\ c \notin orphans BY <1>1 DEF IdsKept
    <2>2. \A d \in Core : IdsOf(d)' BY <1>4, <2>1, IdsOfKept DEF Ids
    <2> QED BY <1>4, <2>1, <2>2 DEF Ids
  <1> QED BY <1>2, <1>3, <1>5 DEF IdInv

LEMMA StartIds ==
    ASSUME IdInv, NEW c \in Core, CoreStart(c)
    PROVE  IdInv'
  <1>1. TypeOK /\ Phases BY DEF IdInv
  <1>2. /\ core[c].st = "off" /\ c \notin up /\ up' = up \cup {c}
        /\ core' = [core EXCEPT ![c].st = "boot"]
        /\ toDb' = [toDb EXCEPT ![c] = <<"boot">>] /\ toCore' = toCore
        /\ listData' = listData /\ peer' = peer /\ mysql' = mysql /\ unsaved' = unsaved
        /\ clash' = clash /\ orphans' = orphans /\ unflushed' = unflushed
    BY DEF CoreStart, dbVars, itemVars
  <1>3. /\ core'[c].st = "boot" /\ toDb'[c] = <<"boot">>
        /\ \A d \in Core : d # c => core'[d] = core[d] /\ toDb'[d] = toDb[d]
    BY <1>1, <1>2 DEF TypeOK
  <1>4. TypeOK'
    <2>1. core' \in [Core -> [st : {"off", "boot", "run", "stop"},
                              range : Rng, spare : Rng, id : Nat]]
      BY <1>1, <1>2 DEF TypeOK
    <2>2. <<"boot">> \in Seq({"boot", "spare"}) OBVIOUS
    <2>3. toDb' \in [Core -> Seq({"boot", "spare"})] BY <1>1, <1>2, <2>2 DEF TypeOK
    <2> QED BY <1>1, <1>2, <2>1, <2>3 DEF TypeOK
  <1>5. c \notin orphans => Asking(c)'
    <2>1. c \notin orphans => Off(c)
      BY <1>1, <1>2 DEF Phases, Phase, Asking, Booting, Settled, Requested, Answered, Runs
    <2> QED BY <1>2, <1>3, <2>1 DEF Off, Asking
  <1>6. c \notin orphans => IdsOf(c)'
    BY <1>5 DEF Asking, IdsOf, Booting, Settled, Requested, Answered, Runs
  <1>7. c \notin orphans => Phase(c)' BY <1>5 DEF Phase
  <1> QED BY <1>2, <1>3, <1>4, <1>6, <1>7, CoreAlone

LEMMA CoreBootIds ==
    ASSUME IdInv, NEW c \in Core, CoreBoot(c)
    PROVE  IdInv'
  <1> DEFINE p == Head(toCore[c])
             st == IF p.range = NoRange \/ p.spare = NoRange THEN "stop" ELSE "run"
  <1>1. TypeOK /\ Phases /\ Blocks BY DEF IdInv
  <1>2. /\ toCore[c] # <<>> /\ p.type = "boot"
        /\ core' = [core EXCEPT ![c] = [st |-> st, range |-> p.range, spare |-> p.spare,
                                        id |-> p.range.usable]]
        /\ toCore' = [toCore EXCEPT ![c] = Tail(@)] /\ toDb' = toDb /\ up' = up
        /\ listData' = listData /\ peer' = peer /\ mysql' = mysql /\ unsaved' = unsaved
        /\ clash' = clash /\ orphans' = orphans /\ unflushed' = unflushed
    BY DEF CoreBoot, dbVars, itemVars, history
  <1>3. st \in {"run", "stop"} OBVIOUS
  <1>4. p \in Packet /\ Tail(toCore[c]) \in Seq(Packet)
    <2>1. toCore[c] \in Seq(Packet) BY <1>1 DEF TypeOK
    <2> QED BY <1>2, <2>1
  <1> HIDE DEF p, st
  <1>5. p.range \in Rng /\ p.spare \in Rng /\ p.range.usable \in Nat
    <2>1. p.range \in Rng /\ p.spare \in Rng BY <1>2, <1>4 DEF Packet
    <2> QED BY <2>1, RangeFacts
  <1>6. /\ core'[c].st = st /\ core'[c].range = p.range /\ core'[c].spare = p.spare
        /\ core'[c].id = p.range.usable /\ toCore'[c] = Tail(toCore[c])
        /\ \A d \in Core : d # c => core'[d] = core[d] /\ toCore'[d] = toCore[d]
    BY <1>1, <1>2 DEF TypeOK
  <1>7. TypeOK'
    <2>1. core' \in [Core -> [st : {"off", "boot", "run", "stop"},
                              range : Rng, spare : Rng, id : Nat]]
      BY <1>1, <1>2, <1>3, <1>5 DEF TypeOK
    <2>2. toCore' \in [Core -> Seq(Packet)] BY <1>1, <1>2, <1>4 DEF TypeOK
    <2> QED BY <1>1, <1>2, <2>1, <2>2 DEF TypeOK
  <1>8. ASSUME c \notin orphans
        PROVE  Settled(c)' /\ Booting(c) /\ p.range = peer[c].range /\ p.spare = peer[c].spare
    <2>1. Phase(c) BY <1>1, <1>8 DEF Phases
    <2>2. ~Answered(c) BY <1>2 DEF Answered, p
    <2>3. Booting(c) BY <1>2, <2>1, <2>2 DEF Phase, Off, Asking, Settled, Requested
    <2>4. p.range = peer[c].range /\ p.spare = peer[c].spare /\ Tail(toCore[c]) = <<>>
      BY <2>3 DEF Booting, p
    <2>5. Settled(c)'
      BY <1>2, <1>3, <1>6, <2>3, <2>4 DEF Settled, Booting, Runs
    <2> QED BY <2>3, <2>4, <2>5
  <1>9. ASSUME Ids, c \notin orphans PROVE IdsOf(c)'
    <2>1. Known' = Known BY <1>2 DEF Known
    <2>2. /\ Unused(Known, peer[c].range, peer[c].range.usable) /\ SpareUnused(c)
      BY <1>8, <1>9 DEF Ids, IdsOf
    <2>3. peer[c].range.min <= peer[c].range.usable
      BY <1>1, RangeFacts DEF Blocks, IsBlock
    <2>4. Numbered(c)' BY <1>6, <1>8, <1>9, <2>1, <2>2, <2>3 DEF Numbered
    <2>5. SpareUnused(c)' BY <1>2, <2>1, <2>2 DEF SpareUnused
    <2>6. ~Booting(c)' BY <1>8, <1>9 DEF Booting, Settled, Runs
    <2> QED BY <2>4, <2>5, <2>6 DEF IdsOf
  <1>10. c \notin orphans => Phase(c)' BY <1>8 DEF Phase
  <1> QED BY <1>2, <1>6, <1>7, <1>9, <1>10, CoreAlone

LEMMA CoreSpareIds ==
    ASSUME IdInv, NEW c \in Core, CoreSpare(c)
    PROVE  IdInv'
  <1> DEFINE p == Head(toCore[c])
             s == SetIfAny(core[c].spare, p.spare)
  <1>1. TypeOK /\ Phases BY DEF IdInv
  <1>2. /\ toCore[c] # <<>> /\ p.type = "spare"
        /\ core' = [core EXCEPT ![c].spare = s]
        /\ toCore' = [toCore EXCEPT ![c] = Tail(@)] /\ toDb' = toDb /\ up' = up
        /\ listData' = listData /\ peer' = peer /\ mysql' = mysql /\ unsaved' = unsaved
        /\ clash' = clash /\ orphans' = orphans /\ unflushed' = unflushed
    <2>1. core' = [core EXCEPT ![c].spare = SetIfAny(@, p.spare)] BY DEF CoreSpare
    <2>2. core' = [core EXCEPT ![c].spare = s] BY <2>1
    <2> HIDE DEF s
    <2> QED BY <2>2 DEF CoreSpare, dbVars, itemVars, history
  <1>3. p \in Packet /\ Tail(toCore[c]) \in Seq(Packet)
    <2>1. toCore[c] \in Seq(Packet) BY <1>1 DEF TypeOK
    <2> QED BY <1>2, <2>1
  <1> HIDE DEF p
  <1>4. p.spare \in Rng BY <1>2, <1>3 DEF Packet
  <1>5. s \in Rng BY <1>1, <1>4 DEF SetIfAny, TypeOK
  <1>6. core[c].spare = NoRange => s = p.spare BY DEF SetIfAny
  <1> HIDE DEF s
  <1>7. /\ core'[c].st = core[c].st /\ core'[c].range = core[c].range
        /\ core'[c].id = core[c].id /\ core'[c].spare = s /\ toCore'[c] = Tail(toCore[c])
        /\ \A d \in Core : d # c => core'[d] = core[d] /\ toCore'[d] = toCore[d]
    BY <1>1, <1>2 DEF TypeOK
  <1>8. TypeOK'
    <2>1. core' \in [Core -> [st : {"off", "boot", "run", "stop"},
                              range : Rng, spare : Rng, id : Nat]]
      BY <1>1, <1>2, <1>5 DEF TypeOK
    <2>2. toCore' \in [Core -> Seq(Packet)] BY <1>1, <1>2, <1>3 DEF TypeOK
    <2> QED BY <1>1, <1>2, <2>1, <2>2 DEF TypeOK
  <1>9. ASSUME c \notin orphans PROVE Settled(c)' /\ Answered(c)
    <2>1. Phase(c) BY <1>1, <1>9 DEF Phases
    <2>2. ~Booting(c) BY <1>2 DEF Booting, p
    <2>3. Answered(c) BY <1>2, <2>1, <2>2 DEF Phase, Off, Asking, Settled, Requested
    <2>4. p.spare = peer[c].spare /\ Tail(toCore[c]) = <<>> BY <2>3 DEF Answered, p
    <2>5. Settled(c)' BY <1>2, <1>6, <1>7, <2>3, <2>4 DEF Settled, Answered, Runs
    <2> QED BY <2>3, <2>5
  <1>10. ASSUME Ids, c \notin orphans PROVE IdsOf(c)'
    <2>1. Known' = Known BY <1>2 DEF Known
    <2>2. Numbered(c) /\ SpareUnused(c) BY <1>9, <1>10 DEF Ids, IdsOf
    <2>3. Numbered(c)' BY <1>7, <2>1, <2>2 DEF Numbered
    <2>4. SpareUnused(c)' BY <1>2, <2>1, <2>2 DEF SpareUnused
    <2>5. ~Booting(c)' BY <1>9, <1>10 DEF Booting, Settled, Runs
    <2> QED BY <2>3, <2>4, <2>5 DEF IdsOf
  <1>11. c \notin orphans => Phase(c)' BY <1>9 DEF Phase
  <1> QED BY <1>2, <1>7, <1>8, <1>10, <1>11, CoreAlone

LEMMA OutOfIdsIds ==
    ASSUME IdInv, NEW c \in Core, OutOfIds(c)
    PROVE  IdInv'
  <1>1. TypeOK /\ Phases BY DEF IdInv
  <1>2. /\ core[c].st = "run" /\ core' = [core EXCEPT ![c].st = "stop"]
        /\ toCore' = toCore /\ toDb' = toDb /\ up' = up
        /\ listData' = listData /\ peer' = peer /\ mysql' = mysql /\ unsaved' = unsaved
        /\ clash' = clash /\ orphans' = orphans /\ unflushed' = unflushed
    BY DEF OutOfIds, dbVars, netVars, itemVars, history
  <1>3. /\ core'[c].st = "stop" /\ core'[c].range = core[c].range
        /\ core'[c].id = core[c].id /\ core'[c].spare = core[c].spare
        /\ \A d \in Core : d # c => core'[d] = core[d]
    BY <1>1, <1>2 DEF TypeOK
  <1>4. TypeOK'
    <2>1. core' \in [Core -> [st : {"off", "boot", "run", "stop"},
                              range : Rng, spare : Rng, id : Nat]]
      BY <1>1, <1>2 DEF TypeOK
    <2> QED BY <1>1, <1>2, <2>1 DEF TypeOK
  <1>5. /\ Settled(c)' <=> Settled(c)
        /\ Requested(c)' <=> Requested(c)
        /\ Answered(c)' <=> Answered(c)
        /\ ~Booting(c)'
    BY <1>2, <1>3 DEF Settled, Requested, Answered, Booting, Runs
  <1>6. c \notin orphans => Phase(c)'
    BY <1>1, <1>2, <1>5 DEF Phases, Phase, Off, Asking, Booting
  <1>7. Ids => IdsOf(c)'
    <2>1. Known' = Known BY <1>2 DEF Known
    <2>2. (Numbered(c) => Numbered(c)') /\ (SpareUnused(c) => SpareUnused(c)')
      BY <1>2, <1>3, <2>1 DEF Numbered, SpareUnused
    <2> QED BY <1>5, <2>2 DEF Ids, IdsOf
  <1> QED BY <1>2, <1>3, <1>4, <1>6, <1>7, CoreAlone

LEMMA ReconnectIds ==
    ASSUME IdInv, NEW c \in Core, Reconnect(c)
    PROVE  IdInv'
  <1>1. TypeOK /\ Phases BY DEF IdInv
  <1>2. /\ core[c].st = "run" /\ c \notin up /\ up' = up \cup {c}
        /\ core' = core /\ toCore' = toCore /\ toDb' = toDb
        /\ listData' = listData /\ peer' = peer /\ mysql' = mysql /\ unsaved' = unsaved
        /\ clash' = clash /\ orphans' = orphans /\ unflushed' = unflushed
    BY DEF Reconnect, dbVars, itemVars, history
  <1>3. TypeOK' BY <1>1, <1>2 DEF TypeOK
  <1>4. c \in orphans
    BY <1>1, <1>2 DEF Phases, Phase, Off, Asking, Booting, Settled, Requested, Answered, Runs
  <1> QED BY <1>2, <1>3, <1>4, CoreAlone

\* The block of a closed connection is free again, or lost.
LEMMA CloseIds ==
    ASSUME IdInv, NEW c \in Core, OnClose(c),
           core' \in [Core -> [st : {"off", "boot", "run", "stop"},
                               range : Rng, spare : Rng, id : Nat]],
           \A d \in Core : d # c => core'[d] = core[d],
           mysql' = mysql, unsaved' = unsaved, clash' = clash,
           \/ orphans' = orphans /\ core'[c].st = "off"
           \/ orphans' = orphans \cup {c}
    PROVE  IdInv'
  <1> DEFINE r == peer[c].range
             back == BuildRange(r, mysql)
  <1>1. TypeOK /\ Blocks /\ Phases /\ IdsKept BY DEF IdInv
  <1>2. /\ listData' = listData \o back
        /\ peer' = [peer EXCEPT ![c] = [range |-> NoRange, spare |-> NoRange]]
        /\ up' = up \ {c}
        /\ toDb' = [toDb EXCEPT ![c] = <<>>] /\ toCore' = [toCore EXCEPT ![c] = <<>>]
        /\ ~unflushed' => ~unflushed /\ IdsIn(r, unsaved) = {}
    BY DEF OnClose, UpdateRange
  <1>3. /\ peer'[c].range = NoRange /\ peer'[c].spare = NoRange
        /\ toDb'[c] = <<>> /\ toCore'[c] = <<>>
        /\ \A d \in Core : d # c =>
              peer'[d] = peer[d] /\ toDb'[d] = toDb[d] /\ toCore'[d] = toCore[d]
    BY <1>1, <1>2 DEF TypeOK
  <1>4. r \in Rng /\ (r = NoRange \/ IsBlock(r)) /\ listData \in Seq(Rng)
    BY <1>1 DEF TypeOK, Blocks
  <1>5. mysql \in SUBSET Nat BY <1>1 DEF TypeOK, ItemID
  <1> HIDE DEF r
  <1>6. \/ back = <<>>
        \/ \E u \in Rng : /\ back = <<u>> /\ IsBlock(u) /\ u.min = r.min /\ u.max = r.max
                          /\ Unused(mysql, u, u.usable)
    BY <1>4, <1>5, Reopened
  <1> HIDE DEF back
  <1>7. /\ listData' \in Seq(Rng)
        /\ \A x \in Elems(listData') :
              \/ x \in Elems(listData)
              \/ /\ x \in Rng /\ IsBlock(x) /\ x.min = r.min /\ x.max = r.max
                 /\ Unused(mysql, x, x.usable)
    <2>1. CASE back = <<>>
      <3>1. listData' = listData BY <1>2, <1>4, <2>1
      <3> QED BY <1>4, <3>1
    <2>2. ASSUME NEW u \in Rng, back = <<u>>, IsBlock(u), u.min = r.min, u.max = r.max,
                 Unused(mysql, u, u.usable)
          PROVE  /\ listData' \in Seq(Rng)
                 /\ Elems(listData') = Elems(listData) \cup {u}
      BY <1>2, <1>4, <2>2, Added
    <2> QED BY <1>6, <2>1, <2>2
  <1>8. TypeOK'
    <2>1. peer' \in [Core -> [range : Rng, spare : Rng]]
      BY <1>1, <1>2, RangeFacts DEF TypeOK
    <2>2. <<>> \in Seq(Packet) /\ <<>> \in Seq({"boot", "spare"}) OBVIOUS
    <2>3. /\ toDb' \in [Core -> Seq({"boot", "spare"})] /\ toCore' \in [Core -> Seq(Packet)]
      BY <1>1, <1>2, <2>2 DEF TypeOK
    <2>4. up' \subseteq Core /\ orphans' \subseteq Core BY <1>1, <1>2 DEF TypeOK
    <2>5. mysql' \subseteq ItemID /\ unsaved' \subseteq Nat BY <1>1 DEF TypeOK
    <2> QED BY <1>7, <2>1, <2>3, <2>4, <2>5 DEF TypeOK
  <1>9. Blocks'
    <2>1. \A x \in Elems(listData') : IsBlock(x) BY <1>1, <1>7 DEF Blocks
    <2>2. \A d \in Core : /\ peer'[d].range = NoRange \/ IsBlock(peer'[d].range)
                          /\ peer'[d].spare = NoRange \/ IsBlock(peer'[d].spare)
      BY <1>1, <1>3 DEF Blocks
    <2> QED BY <2>1, <2>2 DEF Blocks
  <1>10. c \notin orphans' => Off(c)' BY <1>2, <1>3 DEF Off
  <1>11. Phases'
    <2>1. ASSUME NEW d \in Core \ orphans' PROVE Phase(d)'
      <3>1. CASE d = c BY <1>10, <2>1, <3>1 DEF Phase
      <3>2. CASE d # c
        <4>1. d \notin orphans /\ (d \in up' <=> d \in up) BY <1>2, <2>1, <3>2
        <4> QED BY <1>1, <1>3, <3>2, <4>1, PhaseKept DEF Phases
      <3> QED BY <3>1, <3>2
    <2> QED BY <2>1 DEF Phases
  <1>12. IdsKept'
    <2> SUFFICES ASSUME orphans' = {}, ~unflushed' PROVE Ids' BY DEF IdsKept
    <2>1. Ids /\ IdsIn(r, unsaved) = {} BY <1>1, <1>2 DEF IdsKept
    <2>2. Known' = Known BY DEF Known
    <2>3. IdsOf(c)'
      BY <1>10 DEF Off, IdsOf, Booting, Settled, Requested, Answered, Runs
    <2>4. \A d \in Core : d # c => (d \in up' <=> d \in up) BY <1>2
    <2>5. \A d \in Core : IdsOf(d)' BY <1>3, <2>1, <2>2, <2>3, <2>4, IdsOfKept DEF Ids
    <2>6. ASSUME NEW x \in Rng, IsBlock(x), x.min = r.min, x.max = r.max,
                 Unused(mysql, x, x.usable)
          PROVE  Unused(Known, x, x.usable)
      <3>1. ASSUME NEW i \in unsaved PROVE i < x.usable \/ x.max < i
        <4>1. i \in Nat BY <1>1 DEF TypeOK
        <4>2. ~(r.min <= i /\ i <= r.max) BY <2>1 DEF IdsIn
        <4>3. /\ x.min \in Nat /\ x.max \in Nat /\ x.usable \in Nat /\ x.min <= x.usable
          BY <2>6, RangeFacts DEF IsBlock
        <4> QED BY <2>6, <4>1, <4>2, <4>3
      <3> QED BY <2>6, <3>1 DEF Unused, Known
    <2>7. \A x \in Elems(listData') : Unused(Known', x, x.usable)
      BY <1>7, <2>1, <2>2, <2>6 DEF Ids
    <2> QED BY <2>1, <2>5, <2>7 DEF Ids
  <1> QED BY <1>8, <1>9, <1>11, <1>12 DEF IdInv

LEMMA EndIds ==
    ASSUME IdInv, NEW c \in Core, CoreEnd(c)
    PROVE  IdInv'
  <1> DEFINE off == [st |-> "off", range |-> NoRange, spare |-> NoRange, id |-> 0]
  <1>1. TypeOK /\ Phases BY DEF IdInv
  <1>2. /\ core' = [core EXCEPT ![c] = off]
        /\ core[c].st = "stop" \/ c \in up
        /\ mysql' = mysql /\ unsaved' = unsaved /\ clash' = clash /\ orphans' = orphans
    BY DEF CoreEnd, itemVars
  <1>3. /\ core' \in [Core -> [st : {"off", "boot", "run", "stop"},
                               range : Rng, spare : Rng, id : Nat]]
        /\ core'[c] = off /\ \A d \in Core : d # c => core'[d] = core[d]
    <2>1. off \in [st : {"off", "boot", "run", "stop"}, range : Rng, spare : Rng, id : Nat]
      BY RangeFacts
    <2> HIDE DEF off
    <2> QED BY <1>1, <1>2, <2>1 DEF TypeOK
  <1>4. core'[c].st = "off" BY <1>3
  <1>5. CASE c \in up
    <2>1. OnClose(c) BY <1>5 DEF CoreEnd
    <2> QED BY <1>2, <1>3, <1>4, <2>1, CloseIds
  <1>6. CASE c \notin up
    <2>1. UNCHANGED <<dbVars, netVars, unflushed>> BY <1>6 DEF CoreEnd
    <2>2. /\ listData' = listData /\ peer' = peer /\ up' = up /\ toDb' = toDb
          /\ toCore' = toCore /\ unflushed' = unflushed
      BY <2>1 DEF dbVars, netVars
    <2>3. core[c].st = "stop" BY <1>2, <1>6
    <2>4. c \in orphans
      BY <1>1, <1>6, <2>3
         DEF Phases, Phase, Off, Asking, Booting, Settled, Requested, Answered, Runs
    <2>5. TypeOK' BY <1>1, <1>2, <1>3, <2>2 DEF TypeOK
    <2> QED BY <1>2, <1>3, <2>2, <2>4, <2>5, CoreAlone
  <1> QED BY <1>5, <1>6

LEMMA LostIds ==
    ASSUME IdInv, NEW c \in Core, LinkLost(c)
    PROVE  IdInv'
  <1>1. TypeOK BY DEF IdInv
  <1>2. /\ OnClose(c) /\ core' = core /\ orphans' = orphans \cup {c}
        /\ mysql' = mysql /\ unsaved' = unsaved /\ clash' = clash
    BY DEF LinkLost, itemVars
  <1>3. core' \in [Core -> [st : {"off", "boot", "run", "stop"},
                            range : Rng, spare : Rng, id : Nat]]
    BY <1>1, <1>2 DEF TypeOK
  <1> QED BY <1>2, <1>3, CloseIds

-----------------------------------------------------------------------------
(* A new item *)

\* The id is one of the block the core c works with.
LEMMA GivenIds ==
    ASSUME IInv, TypeOK, Blocks, Phases, Ids, orphans = {},
           NEW c \in Core, NEW r \in Rng, IsBlock(r), r \in {peer[c].range, peer[c].spare},
           NEW id \in Nat, r.min <= id, id <= r.max, Known' = Known \cup {id},
           peer' = peer, listData' = listData, toCore' = toCore, up' = up,
           \A d \in Core : d # c => core'[d] = core[d] /\ toDb'[d] = toDb[d]
    PROVE  /\ \A x \in Elems(listData') : Unused(Known', x, x.usable)
           /\ \A d \in Core : d # c => IdsOf(d)'
           /\ \A x \in {peer[c].range, peer[c].spare} :
                 x.min # r.min /\ Unused(Known, x, x.usable) => Unused(Known', x, x.usable)
           /\ id >= 1
  <1>1. LentOnce BY DEF IInv
  <1>2. r.min >= 1 /\ r.min \in Nat BY RangeFacts
  <1>3. \A x \in Rng : IsBlock(x) => x.min \in Nat /\ x.usable \in Nat /\ x.min <= x.usable
    BY RangeFacts DEF IsBlock
  <1>4. ASSUME NEW x \in Rng, x = NoRange \/ IsBlock(x), x.min # r.min,
               NEW from \in Nat, x.min <= from, Unused(Known, x, from)
        PROVE  Unused(Known', x, from)
    BY <1>4, StillUnused
  <1>5. ASSUME NEW x \in Rng, x = NoRange \/ IsBlock(x), x.min # r.min,
               Unused(Known, x, x.usable)
        PROVE  Unused(Known', x, x.usable)
    <2>1. x.usable \in Nat /\ x.min <= x.usable BY <1>3, <1>5, RangeFacts
    <2> QED BY <1>4, <1>5, <2>1
  <1>6. \A d \in Core : /\ peer[d].range \in Rng /\ peer[d].spare \in Rng
                        /\ peer[d].range = NoRange \/ IsBlock(peer[d].range)
                        /\ peer[d].spare = NoRange \/ IsBlock(peer[d].spare)
                        /\ core[d].range \in Rng /\ core[d].id \in Nat
    BY DEF TypeOK, Blocks
  <1>7. \A x \in Elems(listData) : x \in Rng /\ IsBlock(x) /\ x.min # r.min
    <2>1. ASSUME NEW i \in 1 .. Len(listData)
          PROVE  listData[i] \in Rng /\ listData[i].min # r.min
      <3>1. listData[i] \in Rng BY DEF TypeOK
      <3>2. listData[i].min # peer[c].range.min /\ listData[i].min # peer[c].spare.min
        BY <1>1 DEF LentOnce
      <3> QED BY <3>1, <3>2
    <2> QED BY <2>1 DEF Elems, Blocks
  <1>8. \A x \in Elems(listData') : Unused(Known', x, x.usable)
    BY <1>5, <1>7 DEF Ids
  <1>9. ASSUME NEW d \in Core, d # c PROVE IdsOf(d)'
    <2>1. peer[d].range.min # r.min /\ peer[d].spare.min # r.min
      <3>1. {peer[c].range.min, peer[c].spare.min} \cap
            {peer[d].range.min, peer[d].spare.min} \subseteq {0}
        BY <1>1, <1>9 DEF LentOnce
      <3>2. r.min \in {peer[c].range.min, peer[c].spare.min} /\ r.min # 0 BY <1>2
      <3> QED BY <3>1, <3>2
    <2>2. /\ Booting(d)' <=> Booting(d)
          /\ Settled(d)' <=> Settled(d)
          /\ Requested(d)' <=> Requested(d)
          /\ Answered(d)' <=> Answered(d)
      BY <1>9 DEF Booting, Settled, Requested, Answered, Runs
    <2>3. IdsOf(d) BY DEF Ids
    <2>4. SpareUnused(d) => SpareUnused(d)' BY <1>5, <1>6, <2>1 DEF SpareUnused
    <2>5. Unused(Known, peer[d].range, peer[d].range.usable) =>
             Unused(Known', peer'[d].range, peer'[d].range.usable)
      BY <1>5, <1>6, <2>1
    <2>6. ASSUME Settled(d) \/ Requested(d) \/ Answered(d), Numbered(d) PROVE Numbered(d)'
      <3>1. core[d].range \in {peer[d].range, peer[d].spare}
        BY <2>6 DEF Settled, Requested, Answered
      <3>2. /\ core[d].range = NoRange \/ IsBlock(core[d].range)
            /\ core[d].range.min # r.min
        BY <1>6, <2>1, <3>1
      <3>3. core[d].range.min <= core[d].id /\ Unused(Known, core[d].range, core[d].id)
        BY <2>6 DEF Numbered
      <3>4. Unused(Known', core[d].range, core[d].id) BY <1>4, <1>6, <3>2, <3>3
      <3> QED BY <1>9, <3>3, <3>4 DEF Numbered
    <2> QED BY <2>2, <2>3, <2>4, <2>5, <2>6 DEF IdsOf
  <1>10. \A x \in {peer[c].range, peer[c].spare} :
            x.min # r.min /\ Unused(Known, x, x.usable) => Unused(Known', x, x.usable)
    BY <1>5, <1>6
  <1>11. id >= 1 BY <1>2
  <1> QED BY <1>8, <1>9, <1>10, <1>11, Zenon

LEMMA CreateIds ==
    ASSUME IInv, IdInv, NEW c \in Core, CreateItem(c)
    PROVE  IdInv'
  <1> DEFINE id == core[c].id
             r == core[c].range
  <1>1. TypeOK /\ Blocks /\ Phases /\ IdsKept BY DEF IdInv
  <1>2. /\ core[c].st = "run" /\ id < r.max
        /\ core' = [core EXCEPT ![c].id = @ + 1]
        /\ clash' = (clash \/ id \in mysql \cup unsaved)
        /\ unsaved' = unsaved \cup {id} /\ mysql' = mysql
        /\ listData' = listData /\ peer' = peer /\ up' = up /\ toDb' = toDb /\ toCore' = toCore
        /\ orphans' = orphans /\ unflushed' = unflushed
    BY DEF CreateItem, GiveId, dbVars, netVars, history
  <1>3. id \in Nat /\ r \in Rng /\ r.max \in Nat /\ r.min \in Nat
    BY <1>1, RangeFacts DEF TypeOK
  <1>4. /\ core'[c].st = core[c].st /\ core'[c].range = r
        /\ core'[c].spare = core[c].spare /\ core'[c].id = id + 1
        /\ \A d \in Core : d # c => core'[d] = core[d]
    BY <1>1, <1>2 DEF TypeOK
  <1>5. TypeOK'
    <2>1. core' \in [Core -> [st : {"off", "boot", "run", "stop"},
                              range : Rng, spare : Rng, id : Nat]]
      <3>1. core' = [core EXCEPT ![c].id = id + 1] /\ id + 1 \in Nat BY <1>2, <1>3
      <3> HIDE DEF id
      <3> QED BY <1>1, <3>1 DEF TypeOK
    <2>2. unsaved' \subseteq Nat BY <1>1, <1>2, <1>3 DEF TypeOK
    <2> QED BY <1>1, <1>2, <2>1, <2>2 DEF TypeOK
  <1>6. Blocks' BY <1>1, <1>2 DEF Blocks
  <1>7. /\ Settled(c)' <=> Settled(c)
        /\ Requested(c)' <=> Requested(c)
        /\ Answered(c)' <=> Answered(c)
        /\ ~Booting(c)'
    BY <1>2, <1>4 DEF Settled, Requested, Answered, Booting, Runs
  <1>8. Phases'
    <2>1. ASSUME NEW d \in Core \ orphans' PROVE Phase(d)'
      <3>1. CASE d = c BY <1>1, <1>2, <1>7, <2>1, <3>1 DEF Phases, Phase, Off, Asking, Booting
      <3>2. CASE d # c BY <1>1, <1>2, <1>4, <2>1, <3>2, PhaseKept DEF Phases
      <3> QED BY <3>1, <3>2
    <2> QED BY <2>1 DEF Phases
  <1> HIDE DEF id, r
  <1>9. IdsKept'
    <2> SUFFICES ASSUME orphans' = {}, ~unflushed' PROVE Ids' BY DEF IdsKept
    <2>1. Ids /\ orphans = {} BY <1>1, <1>2 DEF IdsKept
    <2>2. Settled(c) \/ Requested(c) \/ Answered(c)
      BY <1>1, <1>2, <2>1 DEF Phases, Phase, Off, Asking, Booting
    <2>3. r \in {peer[c].range, peer[c].spare}
      BY <2>2 DEF Settled, Requested, Answered, r
    <2>4. IsBlock(r) BY <1>1, <1>2, <1>3, <2>3, RangeFacts DEF Blocks
    <2>5. r.min <= id /\ Unused(Known, r, id)
      BY <2>1, <2>2 DEF Ids, IdsOf, Numbered, r, id
    <2>6. id \notin Known BY <1>2, <1>3, <2>5 DEF Unused
    <2>7. Known' = Known \cup {id} BY <1>2 DEF Known
    <2>8. id <= r.max BY <1>2, <1>3
    <2>9. /\ \A x \in Elems(listData') : Unused(Known', x, x.usable)
          /\ \A d \in Core : d # c => IdsOf(d)'
          /\ \A x \in {peer[c].range, peer[c].spare} :
                x.min # r.min /\ Unused(Known, x, x.usable) => Unused(Known', x, x.usable)
          /\ id >= 1
      BY <1>1, <1>2, <1>3, <1>4, <2>1, <2>3, <2>4, <2>5, <2>7, <2>8, GivenIds
    <2>10. IdsOf(c)'
      <3>1. Unused(Known', r, id + 1)
        <4>1. \A i \in Known : i \in Nat BY <1>1 DEF TypeOK, Known, ItemID
        <4> QED BY <1>3, <2>5, <2>7, <4>1 DEF Unused
      <3>2. Numbered(c)' BY <1>3, <1>4, <2>5, <3>1 DEF Numbered
      <3>3. ASSUME Settled(c) \/ Answered(c) PROVE SpareUnused(c)'
        <4>1. SpareUnused(c) BY <2>1, <3>3 DEF Ids, IdsOf
        <4>2. r = peer[c].range BY <3>3 DEF Settled, Answered, r
        <4>3. peer[c].spare.min # r.min
          <5>1. r.min >= 1 BY <1>3, <2>4, RangeFacts
          <5>2. peer[c].range.min = peer[c].spare.min => peer[c].range.min = 0
            BY DEF IInv, LentOnce
          <5> QED BY <1>3, <4>2, <5>1, <5>2
        <4> QED BY <1>2, <2>9, <4>1, <4>3 DEF SpareUnused
      <3> QED BY <1>7, <3>2, <3>3 DEF IdsOf
    <2>11. \A d \in Core : IdsOf(d)' BY <2>9, <2>10
    <2>12. ~clash' BY <1>2, <2>1, <2>6 DEF Ids, Known
    <2>13. unsaved' \subseteq Nat \ {0}
      <3>1. id \in Nat \ {0} BY <1>3, <2>9
      <3> QED BY <1>2, <2>1, <3>1 DEF Ids
    <2> QED BY <2>9, <2>11, <2>12, <2>13 DEF Ids
  <1> QED BY <1>5, <1>6, <1>8, <1>9 DEF IdInv

LEMMA CreateOnSpareIds ==
    ASSUME IInv, IdInv, NEW c \in Core, CreateItemOnSpare(c)
    PROVE  IdInv'
  <1> DEFINE r == core[c].spare
             id == r.usable
  <1>1. TypeOK /\ Blocks /\ Phases /\ IdsKept BY DEF IdInv
  <1>2. /\ core[c].st = "run" /\ r # NoRange
        /\ toDb' = [toDb EXCEPT ![c] = IF c \in up THEN Append(@, "spare") ELSE @]
        /\ clash' = (clash \/ id \in mysql \cup unsaved)
        /\ unsaved' = unsaved \cup {id} /\ mysql' = mysql
        /\ listData' = listData /\ peer' = peer /\ up' = up /\ toCore' = toCore
        /\ orphans' = orphans /\ unflushed' = unflushed
    BY DEF CreateItemOnSpare, GiveId, dbVars, history
  <1>3. r \in Rng /\ id \in Nat /\ r.max \in Nat /\ r.min \in Nat
    BY <1>1, RangeFacts DEF TypeOK
  <1>4. /\ core'[c].st = core[c].st /\ core'[c].range = r
        /\ core'[c].spare = NoRange /\ core'[c].id = id + 1
        /\ \A d \in Core : d # c => core'[d] = core[d] /\ toDb'[d] = toDb[d]
        /\ core' \in [Core -> [st : {"off", "boot", "run", "stop"},
                               range : Rng, spare : Rng, id : Nat]]
    <2>1. core' = [core EXCEPT ![c] = [[[core[c] EXCEPT !.range = r] EXCEPT !.spare = NoRange]
                                         EXCEPT !.id = id + 1]]
      BY <1>1 DEF CreateItemOnSpare, TypeOK
    <2>2. core[c] \in [st : {"off", "boot", "run", "stop"}, range : Rng, spare : Rng, id : Nat]
      BY <1>1 DEF TypeOK
    <2> DEFINE new == [[[core[c] EXCEPT !.range = r] EXCEPT !.spare = NoRange]
                         EXCEPT !.id = id + 1]
    <2>3. /\ new \in [st : {"off", "boot", "run", "stop"}, range : Rng, spare : Rng, id : Nat]
          /\ new.st = core[c].st /\ new.range = r /\ new.spare = NoRange /\ new.id = id + 1
      <3>1. id + 1 \in Nat BY <1>3
      <3> HIDE DEF r, id
      <3> QED BY <1>3, <2>2, <3>1, RangeFacts
    <2>4. core' = [core EXCEPT ![c] = new] BY <2>1
    <2> HIDE DEF new
    <2> QED BY <1>1, <1>2, <2>3, <2>4 DEF TypeOK
  <1>5. TypeOK'
    <2>1. toDb' \in [Core -> Seq({"boot", "spare"})]
      <3>1. CASE c \in up
        <4>1. toDb' = [toDb EXCEPT ![c] = Append(@, "spare")] BY <1>2, <3>1
        <4>2. Append(toDb[c], "spare") \in Seq({"boot", "spare"}) BY <1>1 DEF TypeOK
        <4> QED BY <1>1, <4>1, <4>2 DEF TypeOK
      <3>2. CASE c \notin up BY <1>1, <1>2, <3>2 DEF TypeOK
      <3> QED BY <3>1, <3>2
    <2>2. unsaved' \subseteq Nat BY <1>1, <1>2, <1>3 DEF TypeOK
    <2> QED BY <1>1, <1>2, <1>4, <2>1, <2>2 DEF TypeOK
  <1> HIDE DEF id, r
  <1>6. Blocks' BY <1>1, <1>2 DEF Blocks
  <1>7. ASSUME c \notin orphans PROVE Settled(c) /\ Requested(c)'
    <2>1. Settled(c)
      BY <1>1, <1>2, <1>7 DEF Phases, Phase, Off, Asking, Booting, Requested, Answered, r
    <2>2. c \in up /\ toDb[c] = <<>> BY <2>1 DEF Settled, Runs
    <2>3. toDb'[c] = <<"spare">> BY <1>1, <1>2, <2>2 DEF TypeOK
    <2> QED BY <1>2, <1>4, <2>1, <2>3 DEF Settled, Requested, Runs, r
  <1>8. Phases'
    <2>1. ASSUME NEW d \in Core \ orphans' PROVE Phase(d)'
      <3>1. CASE d = c BY <1>2, <1>7, <2>1, <3>1 DEF Phase
      <3>2. CASE d # c BY <1>1, <1>2, <1>4, <2>1, <3>2, PhaseKept DEF Phases
      <3> QED BY <3>1, <3>2
    <2> QED BY <2>1 DEF Phases
  <1>9. IdsKept'
    <2> SUFFICES ASSUME orphans' = {}, ~unflushed' PROVE Ids' BY DEF IdsKept
    <2>1. Ids /\ orphans = {} BY <1>1, <1>2 DEF IdsKept
    <2>2. Settled(c) /\ r = peer[c].spare BY <1>7, <2>1 DEF Settled, r
    <2>3. IsBlock(r) BY <1>1, <1>2, <2>2 DEF Blocks
    <2>4. r.min <= id /\ id <= r.max BY <2>3 DEF IsBlock, id
    <2>5. Unused(Known, r, id) BY <2>1, <2>2 DEF Ids, IdsOf, SpareUnused, id
    <2>6. id \notin Known BY <1>3, <2>4, <2>5 DEF Unused
    <2>7. Known' = Known \cup {id} BY <1>2 DEF Known
    <2>8. /\ \A x \in Elems(listData') : Unused(Known', x, x.usable)
          /\ \A d \in Core : d # c => IdsOf(d)'
          /\ id >= 1
      BY <1>1, <1>2, <1>3, <1>4, <2>1, <2>2, <2>3, <2>4, <2>7, GivenIds
    <2>9. IdsOf(c)'
      <3>1. Unused(Known', r, id + 1)
        <4>1. \A i \in Known : i \in Nat BY <1>1 DEF TypeOK, Known, ItemID
        <4> QED BY <1>3, <2>5, <2>7, <4>1 DEF Unused
      <3>2. Numbered(c)' BY <1>3, <1>4, <2>4, <3>1 DEF Numbered
      <3>3. Requested(c)' BY <1>7, <2>1
      <3>4. toDb'[c] = <<"spare">> /\ <<"spare">> # <<>> BY <3>3 DEF Requested
      <3>5. ~Booting(c)' /\ ~Settled(c)' /\ ~Answered(c)'
        BY <3>4 DEF Booting, Settled, Answered
      <3> QED BY <3>2, <3>5 DEF IdsOf
    <2>10. \A d \in Core : IdsOf(d)' BY <2>8, <2>9
    <2>11. ~clash' BY <1>2, <2>1, <2>6 DEF Ids, Known
    <2>12. unsaved' \subseteq Nat \ {0}
      <3>1. id \in Nat \ {0} BY <1>3, <2>8
      <3> QED BY <1>2, <2>1, <3>1 DEF Ids
    <2> QED BY <2>8, <2>10, <2>11, <2>12 DEF Ids
  <1> QED BY <1>5, <1>6, <1>8, <1>9 DEF IdInv

\* What is saved or destroyed takes no new id.
LEMMA ItemIds ==
    ASSUME IdInv, NEW id \in ItemID, Persist(id) \/ Destroy(id)
    PROVE  IdInv'
  <1>1. TypeOK /\ Blocks /\ Phases /\ IdsKept BY DEF IdInv
  <1>2. /\ listData' = listData /\ peer' = peer /\ core' = core /\ up' = up /\ toDb' = toDb
        /\ toCore' = toCore /\ clash' = clash /\ orphans' = orphans /\ unflushed' = unflushed
        /\ unsaved' \subseteq unsaved /\ mysql' \subseteq mysql \cup {id}
        /\ Known' \subseteq Known
    BY DEF Persist, Destroy, dbVars, netVars, history, Known
  <1>3. TypeOK' BY <1>1, <1>2 DEF TypeOK
  <1>4. Blocks' BY <1>1, <1>2 DEF Blocks
  <1>5. Phases' BY <1>1, <1>2, PhaseKept DEF Phases
  <1>6. IdsKept'
    <2> SUFFICES ASSUME orphans' = {}, ~unflushed' PROVE Ids' BY DEF IdsKept
    <2>1. Ids BY <1>1, <1>2 DEF IdsKept
    <2>2. \A d \in Core : IdsOf(d)' BY <1>2, <2>1, IdsOfKept DEF Ids
    <2>3. \A r \in Elems(listData) : Unused(Known', r, r.usable)
      BY <1>2, <2>1, UnusedSubset DEF Ids
    <2> QED BY <1>2, <2>1, <2>2, <2>3 DEF Ids
  <1> QED BY <1>3, <1>4, <1>5, <1>6 DEF IdInv

LEMMA InitIds ==
    ASSUME Init PROVE IdInv
  <1> DEFINE blk(b) == Range(b, (b - 1) * BlockSize + 1)
  <1>1. NBlock \in Nat /\ BlockSize \in Nat \ {0} BY RangeAssumption
  <1>2. listData = [b \in 1 .. NBlock |-> blk(b)] BY DEF Init
  <1>3. ASSUME NEW b \in 1 .. NBlock PROVE blk(b) \in Rng /\ IsBlock(blk(b))
    <2>1. b - 1 \in Nat /\ b \in Nat /\ b = (b - 1) + 1 BY <1>1
    <2>2. \A x \in Nat : x * BlockSize \in Nat /\ (x + 1) * BlockSize = x * BlockSize + BlockSize
      BY <1>1
    <2>3. /\ (b - 1) * BlockSize \in Nat /\ b * BlockSize \in Nat
          /\ b * BlockSize = (b - 1) * BlockSize + BlockSize
      BY <2>1, <2>2
    <2> DEFINE low == (b - 1) * BlockSize
               high == b * BlockSize
    <2>4. low \in Nat /\ high \in Nat /\ low + 1 <= high BY <1>1, <2>3
    <2>5. blk(b) = [min |-> low + 1, max |-> high, usable |-> low + 1] BY DEF Range
    <2> HIDE DEF low, high, blk
    <2>6. /\ blk(b) \in Rng /\ blk(b).min = low + 1 /\ blk(b).max = high
          /\ blk(b).usable = low + 1
      BY <2>4, <2>5 DEF Rng
    <2>7. blk(b).min <= blk(b).usable /\ blk(b).usable <= blk(b).max BY <2>4, <2>6
    <2>8. \E a \in 1 .. NBlock : /\ blk(b).min = (a - 1) * BlockSize + 1
                                 /\ blk(b).max = a * BlockSize
      BY <2>6 DEF low, high
    <2> QED BY <2>6, <2>7, <2>8 DEF IsBlock
  <1> HIDE DEF blk
  <1>4. listData \in Seq(Rng) /\ Len(listData) = NBlock BY <1>1, <1>2, <1>3
  <1>5. \A r \in Elems(listData) : IsBlock(r) BY <1>2, <1>3, <1>4 DEF Elems
  <1>6. \A c \in Core : /\ peer[c].range = NoRange /\ peer[c].spare = NoRange
                        /\ core[c].st = "off" /\ toDb[c] = <<>> /\ toCore[c] = <<>>
    BY DEF Init
  <1>7. TypeOK
    <2>1. peer \in [Core -> [range : Rng, spare : Rng]] BY RangeFacts DEF Init
    <2>2. core \in [Core -> [st : {"off", "boot", "run", "stop"},
                             range : Rng, spare : Rng, id : Nat]]
      BY RangeFacts DEF Init
    <2>3. <<>> \in Seq(Packet) /\ <<>> \in Seq({"boot", "spare"}) OBVIOUS
    <2>4. toDb \in [Core -> Seq({"boot", "spare"})] /\ toCore \in [Core -> Seq(Packet)]
      BY <2>3 DEF Init
    <2>5. /\ up \subseteq Core /\ orphans \subseteq Core
          /\ mysql \subseteq ItemID /\ unsaved \subseteq Nat
      BY DEF Init
    <2> QED BY <1>4, <2>1, <2>2, <2>4, <2>5 DEF TypeOK
  <1>8. Blocks BY <1>5, <1>6 DEF Blocks
  <1>9. \A c \in Core : Off(c) BY <1>6 DEF Off, Init
  <1>10. Phases BY <1>9 DEF Phases, Phase
  <1>11. Ids
    <2>1. Known = {} BY DEF Known, Init
    <2>2. \A c \in Core : IdsOf(c)
      BY <1>9 DEF IdsOf, Off, Booting, Settled, Requested, Answered, Runs
    <2> QED BY <2>1, <2>2 DEF Ids, Unused, Init
  <1> QED BY <1>7, <1>8, <1>10, <1>11 DEF IdInv, IdsKept

LEMMA NextIds ==
    ASSUME IInv, IdInv, [Next]_vars PROVE IdInv'
  <1>1. ASSUME NEW c \in Core, DbStep(c) PROVE IdInv' BY <1>1, BootIds, SpareIds DEF DbStep
  <1>2. ASSUME NEW c \in Core, CoreRecv(c) PROVE IdInv'
    BY <1>2, CoreBootIds, CoreSpareIds DEF CoreRecv
  <1>3. ASSUME NEW c \in Core, CoreStart(c) PROVE IdInv' BY <1>3, StartIds
  <1>4. ASSUME NEW c \in Core, CreateItem(c) PROVE IdInv' BY <1>4, CreateIds
  <1>5. ASSUME NEW c \in Core, CreateItemOnSpare(c) PROVE IdInv' BY <1>5, CreateOnSpareIds
  <1>6. ASSUME NEW c \in Core, OutOfIds(c) PROVE IdInv' BY <1>6, OutOfIdsIds
  <1>7. ASSUME NEW c \in Core, CoreEnd(c) PROVE IdInv' BY <1>7, EndIds
  <1>8. ASSUME NEW c \in Core, LinkLost(c) PROVE IdInv' BY <1>8, LostIds
  <1>9. ASSUME NEW c \in Core, Reconnect(c) PROVE IdInv' BY <1>9, ReconnectIds
  <1>10. ASSUME NEW id \in ItemID, Persist(id) \/ Destroy(id) PROVE IdInv' BY <1>10, ItemIds
  <1>11. CASE UNCHANGED vars
    <2>1. /\ listData' = listData /\ peer' = peer /\ core' = core /\ up' = up
          /\ toDb' = toDb /\ toCore' = toCore /\ clash' = clash /\ orphans' = orphans
          /\ unflushed' = unflushed /\ mysql' = mysql /\ unsaved' = unsaved
      BY <1>11 DEF vars, dbVars, netVars, itemVars, history
    <2>2. TypeOK' /\ Blocks' BY <2>1 DEF IdInv, TypeOK, Blocks
    <2>3. Known' = Known BY <2>1 DEF Known
    <2>4. Phases' BY <2>1, PhaseKept DEF IdInv, Phases
    <2>5. Ids => Ids' BY <2>1, <2>3, IdsOfKept DEF Ids
    <2> QED BY <2>1, <2>2, <2>4, <2>5 DEF IdInv, IdsKept
  <1>12. CASE Next
    BY <1>1, <1>2, <1>3, <1>4, <1>5, <1>6, <1>7, <1>8, <1>9, <1>10, <1>12 DEF Next
  <1> QED BY <1>11, <1>12

LEMMA IdsInvariant == Spec => [](IInv /\ IdInv)
  <1>1. Init => IInv /\ IdInv BY AtFirst, InitIds
  <1>2. IInv /\ IdInv /\ [Next]_vars => (IInv /\ IdInv)' BY NextInv, NextIds
  <1> QED BY <1>1, <1>2, PTL DEF Spec

\* What the packets, the ranges, the cores and the ids are.
THEOREM TypeCorrect == Spec => []TypeOK
  <1>1. IdInv => TypeOK BY DEF IdInv
  <1> QED BY <1>1, IdsInvariant, PTL

\* When no packet is on the way the daemon and a core that never lost its
\* connection have the same current and spare block, whatever boots, requests,
\* crashes and failures of other connections came before.
THEOREM InStepHolds == Spec => []InStep
  <1>1. ASSUME IdInv PROVE InStep
    <2> SUFFICES ASSUME NEW c \in Core, core[c].st = "run", c \in up, c \notin orphans,
                        toDb[c] = <<>>, toCore[c] = <<>>
                 PROVE  peer[c] = [range |-> core[c].range, spare |-> core[c].spare]
      BY DEF InStep
    <2>0. \A x : <<x>> # <<>> OBVIOUS
    <2>1. Settled(c)
      <3>1. Phase(c) BY <1>1 DEF IdInv, Phases
      <3>2. ~Off(c) BY DEF Off
      <3>3. ~Asking(c) /\ ~Requested(c) BY <2>0 DEF Asking, Requested
      <3>4. ~Booting(c) /\ ~Answered(c) BY <2>0 DEF Booting, Answered
      <3> QED BY <3>1, <3>2, <3>3, <3>4 DEF Phase
    <2>2. peer[c] \in [range : Rng, spare : Rng] BY <1>1 DEF IdInv, TypeOK
    <2> QED BY <2>1, <2>2 DEF Settled
  <1> QED BY <1>1, IdsInvariant, PTL

\* An id is given out a second time only after a core kept its blocks through a
\* failure of its connection, or a block was taken back before its items were
\* in MySQL.
THEOREM DuplicateExplainedHolds == Spec => []DuplicateExplained
  <1>1. IdInv => DuplicateExplained BY DEF IdInv, IdsKept, Ids, DuplicateExplained
  <1> QED BY <1>1, IdsInvariant, PTL
=============================================================================
