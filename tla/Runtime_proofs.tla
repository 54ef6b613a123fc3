--------------------------- MODULE Runtime_proofs ---------------------------
(***************************************************************************)
(* Proofs about what every daemon runs on.                                 *)
(*                                                                         *)
(* First the worker of a threaded MySQL connection, for any number of      *)
(* statements, of retryable errors and any ceiling of the semaphore.       *)
(*                                                                         *)
(* Then the timer events: an event is in the queue once at most, never     *)
(* after it was cancelled, and is not forgotten, for any number of events  *)
(* and memory cells.  The inductive invariant adds to the two properties   *)
(* that the queue holds distinct allocated cells, and what is known of an  *)
(* event whose function is running.  That an event is called at its pulse  *)
(* rests on a second invariant: the queue is sorted and every allocated    *)
(* cell is in it.                                                          *)
(***************************************************************************)
EXTENDS AsyncSQL, EventQueue, FiniteSetTheorems, WellFoundedInduction, TLAPS

-----------------------------------------------------------------------------
(* The threaded connection *)

\* The semaphore stays between 0 and its ceiling, and a release leaves it up.
LEMMA ReleaseType ==
  \A s \in 0..SemMax : Release(s) \in 0..SemMax /\ Release(s) > 0
  BY AsyncSQLAssumption DEF Release

\* A statement is executed with its own number and its own bReturn flag.
LEMMA AnswerType ==
  ASSUME NEW m \in Msg, NEW ok \in BOOLEAN
  PROVE  [id |-> m.id, ret |-> m.ret, ok |-> ok] \in Answer
  BY DEF Msg, Answer

\* Finishing a statement keeps the history and the results well typed.
LEMMA FinishType ==
  ASSUME TypeOK, NEW m \in Msg, NEW ok \in BOOLEAN, Finish(m, ok)
  PROVE  done' \in Seq(Answer) /\ result' \in Seq(Answer)
  <1>1. [id |-> m.id, ret |-> m.ret, ok |-> ok] \in Answer
    BY AnswerType
  <1> QED
    BY <1>1 DEF TypeOK, Finish

\* The state stays within its types.
THEOREM TypeCorrect == Spec => []TypeOK
<1>1. Init => TypeOK
  <2> SUFFICES ASSUME Init PROVE TypeOK
    OBVIOUS
  <2>1. \A S : <<>> \in Seq(S) /\ Len(<<>>) = 0
    OBVIOUS
  <2>2. /\ queue \in Seq(Msg) /\ copy \in Seq(Msg)
        /\ result \in Seq(Answer) /\ done \in Seq(Answer)
        /\ popped \in Seq(Answer) /\ faults \in Seq(1..MaxMsg)
    BY <2>1 DEF Init
  <2>3. /\ iMsgCount \in 0..MaxMsg /\ sem \in 0..SemMax /\ count \in Nat
        /\ Len(faults) <= MaxFault
    BY <2>1, AsyncSQLAssumption DEF Init
  <2> QED
    BY <2>2, <2>3 DEF Init, TypeOK
<1>2. TypeOK /\ [Next]_vars => TypeOK'
  <2> SUFFICES ASSUME TypeOK, [Next]_vars PROVE TypeOK'
    OBVIOUS
  <2> USE AsyncSQLAssumption DEF TypeOK, workerVars, mainVars
  <2>1. ASSUME NEW ret \in BOOLEAN, Query(ret) PROVE TypeOK'
    <3>1. iMsgCount' \in 1..MaxMsg
      BY <2>1 DEF Query, PushQuery
    <3>2. [id |-> iMsgCount', ret |-> ret] \in Msg
      BY <3>1 DEF Msg
    <3>3. queue' \in Seq(Msg)
      BY <2>1, <3>2 DEF Query, PushQuery
    <3> QED
      BY <2>1, <3>1, <3>3, ReleaseType, SMTT(30) DEF Query, PushQuery
  <2>2. CASE PopResult
    BY <2>2 DEF PopResult
  <2>3. CASE Quit
    BY <2>3, ReleaseType DEF Quit, QuitFlag, QuitRelease, QuitJoin
  <2>4. CASE Connect
    BY <2>4 DEF Connect
  <2>5. CASE TestEnd \/ SemWait
    BY <2>5 DEF TestEnd, SemWait
  <2>6. CASE CopyQuery
    BY <2>6 DEF CopyQuery, CopyBatch
  <2>7. CASE BatchDone
    BY <2>7 DEF BatchDone
  <2>8. ASSUME NEW ok \in BOOLEAN, BatchExec(ok) PROVE TypeOK'
    <3>1. Head(copy) \in Msg /\ Tail(copy) \in Seq(Msg)
      BY <2>8 DEF BatchExec
    <3>2. done' \in Seq(Answer) /\ result' \in Seq(Answer)
      BY <2>8, <3>1, FinishType DEF BatchExec
    <3> QED
      BY <2>8, <3>1, <3>2 DEF BatchExec
  <2>9. CASE BatchRetry
    <3>1. Head(copy).id \in 1..MaxMsg
      <4>1. Head(copy) \in Msg
        BY <2>9 DEF BatchRetry
      <4> QED
        BY <4>1 DEF Msg
    <3>2. faults' \in Seq(1..MaxMsg) /\ Len(faults') <= MaxFault
      BY <2>9, <3>1 DEF BatchRetry
    <3> QED
      BY <2>9, <3>2, ReleaseType DEF BatchRetry
  <2>10. ASSUME NEW ok \in BOOLEAN, DrainExec(ok) PROVE TypeOK'
    <3>1. Head(queue) \in Msg /\ Tail(queue) \in Seq(Msg)
      BY <2>10 DEF DrainExec
    <3>2. done' \in Seq(Answer) /\ result' \in Seq(Answer)
      BY <2>10, <3>1, FinishType DEF DrainExec
    <3> QED
      BY <2>10, <3>1, <3>2 DEF DrainExec
  <2>11. CASE DrainRetry
    <3>1. Head(queue).id \in 1..MaxMsg
      <4>1. Head(queue) \in Msg
        BY <2>11 DEF DrainRetry
      <4> QED
        BY <4>1 DEF Msg
    <3>2. faults' \in Seq(1..MaxMsg) /\ Len(faults') <= MaxFault
      BY <2>11, <3>1 DEF DrainRetry
    <3> QED
      BY <2>11, <3>2 DEF DrainRetry
  <2>12. CASE DrainDone
    BY <2>12 DEF DrainDone
  <2>13. CASE UNCHANGED vars
    BY <2>13 DEF vars
  <2> QED
    BY <2>1, <2>2, <2>3, <2>4, <2>5, <2>6, <2>7, <2>8, <2>9, <2>10, <2>11,
       <2>12, <2>13 DEF Next, Main, Worker, Drain
<1> QED
  BY <1>1, <1>2, PTL DEF Spec

-----------------------------------------------------------------------------
\* NoLostWakeup is not inductive.  The semaphore is already up while the worker
\* connects or executes a batch; only CopyQuery, which comes right after the
\* wait and empties the queue, may find it down.  And m_bEnd is up from the
\* moment Quit begins, so no worker enters the wait after the release.
WakeInv ==
  /\ queue # <<>> /\ pc \in {"connect", "loop", "wait", "batch"} => sem > 0
  /\ main = "join" /\ pc = "wait" => sem > 0
  /\ main # "run" => bEnd

\* No statement waits for a worker that sleeps, and Quit is not missed.
THEOREM WakeupSafe == Spec => []NoLostWakeup
<1>1. Init => WakeInv
  BY DEF Init, WakeInv
<1>2. TypeOK /\ WakeInv /\ [Next]_vars => WakeInv'
  <2> SUFFICES ASSUME TypeOK, WakeInv, [Next]_vars PROVE WakeInv'
    OBVIOUS
  <2> USE ReleaseType DEF TypeOK, WakeInv, workerVars, mainVars
  <2>1. ASSUME NEW ret \in BOOLEAN, Query(ret) PROVE WakeInv'
    BY <2>1 DEF Query, PushQuery
  <2>2. CASE PopResult
    BY <2>2 DEF PopResult
  <2>3. CASE Quit
    BY <2>3 DEF Quit, QuitFlag, QuitRelease, QuitJoin
  <2>4. CASE Connect
    BY <2>4 DEF Connect
  <2>5. CASE TestEnd \/ SemWait
    BY <2>5 DEF TestEnd, SemWait
  <2>6. CASE CopyQuery
    BY <2>6 DEF CopyQuery, CopyBatch
  <2>7. CASE BatchDone
    BY <2>7 DEF BatchDone
  <2>8. ASSUME NEW ok \in BOOLEAN, BatchExec(ok) PROVE WakeInv'
    BY <2>8 DEF BatchExec
  <2>9. CASE BatchRetry
    BY <2>9 DEF BatchRetry
  <2>10. ASSUME NEW ok \in BOOLEAN, DrainExec(ok) PROVE WakeInv'
    BY <2>10 DEF DrainExec
  <2>11. CASE DrainRetry \/ DrainDone
    BY <2>11 DEF DrainRetry, DrainDone
  <2>12. CASE UNCHANGED vars
    BY <2>12 DEF vars
  <2> QED
    BY <2>1, <2>2, <2>3, <2>4, <2>5, <2>6, <2>7, <2>8, <2>9, <2>10, <2>11,
       <2>12 DEF Next, Main, Worker, Drain
<1>3. WakeInv => NoLostWakeup
  BY DEF WakeInv, NoLostWakeup
<1> QED
  BY <1>1, <1>2, <1>3, TypeCorrect, PTL DEF Spec

-----------------------------------------------------------------------------
(* Sequences of consecutively numbered statements. *)

LEMMA NumberedAppend ==
  ASSUME NEW S, NEW s \in Seq(S), NEW m \in S, NEW k \in Nat,
         NumberedAfter(s, k), m.id = k + Len(s) + 1
  PROVE  NumberedAfter(Append(s, m), k)
  BY DEF NumberedAfter

LEMMA NumberedTail ==
  ASSUME NEW S, NEW s \in Seq(S), NEW k \in Nat,
         s # <<>>, NumberedAfter(s, k)
  PROVE  /\ Head(s).id = k + 1
         /\ Len(Tail(s)) = Len(s) - 1
         /\ NumberedAfter(Tail(s), k + 1)
  BY DEF NumberedAfter

LEMMA NumberedConcat ==
  ASSUME NEW S, NEW s \in Seq(S), NEW t \in Seq(S), NEW k \in Nat,
         NumberedAfter(s, k), NumberedAfter(t, k + Len(s))
  PROVE  NumberedAfter(s \o t, k) /\ Len(s \o t) = Len(s) + Len(t)
  <1>1. /\ Len(s) \in Nat /\ Len(t) \in Nat /\ Len(s \o t) = Len(s) + Len(t)
        /\ \A i \in 1..Len(s) + Len(t) :
             (s \o t)[i] = IF i <= Len(s) THEN s[i] ELSE t[i - Len(s)]
    OBVIOUS
  <1> SUFFICES ASSUME NEW i \in 1..Len(s) + Len(t)
               PROVE  (s \o t)[i].id = k + i
    BY <1>1 DEF NumberedAfter
  <1>2. CASE i <= Len(s)
    BY <1>1, <1>2 DEF NumberedAfter
  <1>3. CASE i > Len(s)
    <2>1. i - Len(s) \in 1..Len(t)
      BY <1>1, <1>3
    <2> QED
      BY <1>1, <1>3, <2>1 DEF NumberedAfter
  <1> QED
    BY <1>1, <1>2, <1>3

-----------------------------------------------------------------------------
\* What the numbering rests on.  While the worker runs, history, copy and
\* queue hold the numbers 1..iMsgCount in a row; in the drain the copy is left
\* out, and the rest is still in a row if nothing was retried, because then
\* the copy is as long as the batch that is left and empty outside a batch.
\* bEnd keeps the main thread from queueing while the worker drains.
CopyInv ==
  /\ Conservation
  /\ BatchCovered
  /\ bEnd <=> main # "run"
  /\ Stopped /\ connected => bEnd
  /\ faults = <<>> => IF pc = "batch" THEN count = Len(copy) ELSE copy = <<>>
  /\ pc = "ended" /\ connected => queue = <<>>
  /\ Stopped /\ connected /\ faults = <<>> =>
       /\ iMsgCount = Len(done) + Len(queue)
       /\ NumberedAfter(done, 0)
       /\ NumberedAfter(queue, Len(done))

LEMMA LenNat == \A S : \A s \in Seq(S) : Len(s) \in Nat
  OBVIOUS

LEMMA AppendNotEmpty == \A S : \A s \in Seq(S) : \A e : Append(s, e) # <<>>
<1> SUFFICES ASSUME NEW S, NEW s \in Seq(S), NEW e
             PROVE  Append(s, e) # <<>>
  OBVIOUS
<1>1. Len(Append(s, e)) = Len(s) + 1 /\ Len(s) \in Nat /\ Len(<<>>) = 0
  OBVIOUS
<1> QED
  BY <1>1

LEMMA CopyInvInit == Init => CopyInv
  BY DEF Init, CopyInv, Conservation, BatchCovered, Stopped, NumberedAfter

\* Executing the head h of a sequence q moves its number to the history.
LEMMA FinishNumbered ==
  ASSUME TypeOK, NEW q \in Seq(Msg), q # <<>>, NEW ok \in BOOLEAN,
         Finish(Head(q), ok),
         NumberedAfter(done, 0), NumberedAfter(q, Len(done))
  PROVE  /\ Len(done') = Len(done) + 1
         /\ Len(Tail(q)) = Len(q) - 1
         /\ NumberedAfter(done', 0)
         /\ NumberedAfter(Tail(q), Len(done'))
  <1> DEFINE a == [id |-> Head(q).id, ret |-> Head(q).ret, ok |-> ok]
  <1>1. Head(q) \in Msg
    OBVIOUS
  <1>2. a \in Answer /\ a.id = Head(q).id
    BY <1>1, AnswerType
  <1>3. done \in Seq(Answer) /\ done' = Append(done, a)
    BY DEF TypeOK, Finish
  <1>4. Len(done) \in Nat /\ Len(done') = Len(done) + 1
    BY <1>2, <1>3
  <1>5. /\ Head(q).id = Len(done) + 1
        /\ Len(Tail(q)) = Len(q) - 1
        /\ NumberedAfter(Tail(q), Len(done) + 1)
    BY <1>4, NumberedTail
  <1>6. NumberedAfter(Append(done, a), 0)
    <2>1. a.id = 0 + Len(done) + 1
      BY <1>2, <1>4, <1>5
    <2> HIDE DEF a
    <2> QED
      BY <1>2, <1>3, <2>1, NumberedAppend
  <1> QED
    BY <1>3, <1>4, <1>5, <1>6

LEMMA CopyInvStep == TypeOK /\ CopyInv /\ [Next]_vars => CopyInv'
<1> SUFFICES ASSUME TypeOK, CopyInv, [Next]_vars PROVE CopyInv'
  OBVIOUS
<1>0. /\ Len(done) \in Nat /\ Len(copy) \in Nat /\ Len(queue) \in Nat
      /\ iMsgCount \in Nat /\ count \in Nat
  BY LenNat DEF TypeOK
<1> USE DEF CopyInv, Conservation, BatchCovered, Stopped, workerVars, mainVars
<1>1. ASSUME NEW ret \in BOOLEAN, Query(ret) PROVE CopyInv'
  <2> DEFINE m == [id |-> iMsgCount + 1, ret |-> ret]
  <2>0. iMsgCount + 1 \in 1..MaxMsg
    BY <1>1, AsyncSQLAssumption DEF Query, PushQuery, TypeOK
  <2>1. m \in Msg /\ m.id = iMsgCount + 1
    BY <2>0 DEF Msg
  <2>2. queue' = Append(queue, m) /\ iMsgCount' = iMsgCount + 1
    BY <1>1 DEF Query, PushQuery
  <2>3. Len(queue') = Len(queue) + 1
    BY <2>1, <2>2 DEF TypeOK
  <2>4. ASSUME NEW k \in Nat, NumberedAfter(queue, k), iMsgCount = k + Len(queue)
        PROVE  NumberedAfter(queue', k)
    <3>1. m.id = k + Len(queue) + 1
      BY <2>1, <2>4, <1>0
    <3> HIDE DEF m
    <3> QED
      BY <2>1, <2>2, <2>4, <3>1, NumberedAppend DEF TypeOK
  <2>5. /\ UNCHANGED <<copy, done, pc, count, faults, connected, bEnd, main>>
        /\ ~bEnd
    BY <1>1 DEF Query, PushQuery
  <2>6. Conservation'
    <3>1. SUFFICES ASSUME ~Stopped PROVE Conservation'
      BY <2>5
    <3>2. NumberedAfter(queue', Len(done) + Len(copy))
      BY <3>1, <2>4, <1>0
    <3> QED
      BY <3>1, <3>2, <2>2, <2>3, <2>5, <1>0 DEF NumberedAfter
  <2> QED
    BY <2>5, <2>6
<1>2. CASE PopResult
  BY <1>2 DEF PopResult, NumberedAfter
<1>3. CASE Quit
  <2>1. UNCHANGED <<workerVars, iMsgCount, queue>>
    BY <1>3 DEF Quit, QuitFlag, QuitRelease, QuitJoin
  <2>2. bEnd' /\ main' # "run"
    BY <1>3 DEF Quit, QuitFlag, QuitRelease, QuitJoin
  <2> QED
    BY <2>1, <2>2 DEF NumberedAfter
<1>4. CASE Connect
  BY <1>4 DEF Connect, NumberedAfter
<1>5. CASE TestEnd
  <2>1. UNCHANGED <<iMsgCount, queue, copy, done, bEnd, main, connected, faults>>
    BY <1>5 DEF TestEnd
  <2>2. CASE bEnd
    <3>1. pc' = "drain" /\ pc = "loop"
      BY <1>5, <2>2 DEF TestEnd
    <3>2. faults = <<>> =>
            iMsgCount = Len(done) + Len(queue) /\ NumberedAfter(queue, Len(done))
      <4>1. Len(<<>>) = 0
        OBVIOUS
      <4> QED
        BY <3>1, <1>0, <4>1 DEF NumberedAfter
    <3> QED
      BY <2>1, <2>2, <3>1, <3>2 DEF NumberedAfter
  <2>3. CASE ~bEnd
    <3>1. pc' = "wait" /\ pc = "loop"
      BY <1>5, <2>3 DEF TestEnd
    <3> QED
      BY <2>1, <3>1 DEF NumberedAfter
  <2> QED
    BY <2>2, <2>3
<1>6. CASE SemWait
  BY <1>6 DEF SemWait, NumberedAfter
<1>7. CASE CopyQuery
  <2>1. NumberedAfter(copy \o queue, Len(done)) /\
        Len(copy \o queue) = Len(copy) + Len(queue)
    BY <1>7, <1>0, NumberedConcat DEF CopyQuery, CopyBatch, TypeOK
  <2>2. NumberedAfter(<<>>, Len(done) + Len(copy')) /\ Len(<<>>) = 0
    BY DEF NumberedAfter
  <2>3. Conservation' /\ BatchCovered'
    BY <1>7, <2>1, <2>2, <1>0 DEF CopyQuery, CopyBatch, NumberedAfter
  <2>4. queue = <<>> => copy \o queue = copy
    BY DEF TypeOK
  <2> QED
    BY <1>7, <2>3, <2>4 DEF CopyQuery, CopyBatch
<1>8. CASE BatchDone
  BY <1>8, <1>0 DEF BatchDone, NumberedAfter
<1>9. ASSUME NEW ok \in BOOLEAN, BatchExec(ok) PROVE CopyInv'
  <2>1. /\ Len(done') = Len(done) + 1
        /\ Len(Tail(copy)) = Len(copy) - 1
        /\ NumberedAfter(done', 0)
        /\ NumberedAfter(Tail(copy), Len(done'))
    <3>1. NumberedAfter(done, 0) /\ NumberedAfter(copy, Len(done))
      BY <1>9 DEF BatchExec
    <3>2. copy \in Seq(Msg) /\ copy # <<>> /\ Finish(Head(copy), ok)
      BY <1>9 DEF BatchExec, TypeOK
    <3> HIDE DEF CopyInv, Conservation, BatchCovered, Stopped
    <3> QED
      BY <3>1, <3>2, FinishNumbered
  <2>2. /\ UNCHANGED <<iMsgCount, queue, bEnd, main, connected, faults, pc>>
        /\ copy' = Tail(copy) /\ count' = count - 1 /\ pc = "batch" /\ count > 0
    BY <1>9 DEF BatchExec
  <2>3. Len(done') + Len(copy') = Len(done) + Len(copy)
    <3>1. Len(copy') = Len(copy) - 1
      BY <2>1, <2>2
    <3> HIDE DEF CopyInv, Conservation, BatchCovered, Stopped
    <3> QED
      BY <2>1, <3>1, <1>0
  <2>4. NumberedAfter(queue', Len(done') + Len(copy'))
    <3>1. NumberedAfter(queue, Len(done) + Len(copy))
      BY <2>2
    <3> HIDE DEF CopyInv, Conservation, BatchCovered, Stopped
    <3> QED
      BY <2>2, <2>3, <3>1
  <2>5. iMsgCount' = Len(done') + Len(copy') + Len(queue')
    BY <2>2, <2>3
  <2>6. count' <= Len(copy') /\ (faults = <<>> => count' = Len(copy'))
    BY <2>1, <2>2, <1>0
  <2> QED
    BY <2>1, <2>2, <2>4, <2>5, <2>6
<1>10. CASE BatchRetry
  <2>1. faults' # <<>>
    <3>1. faults \in Seq(1..MaxMsg) /\ \E e : faults' = Append(faults, e)
      BY <1>10 DEF BatchRetry, TypeOK
    <3> HIDE DEF CopyInv, Conservation, BatchCovered, Stopped
    <3> QED
      BY <3>1, AppendNotEmpty
  <2> QED
    BY <1>10, <2>1, <1>0 DEF BatchRetry, NumberedAfter
<1>11. ASSUME NEW ok \in BOOLEAN, DrainExec(ok) PROVE CopyInv'
  <2>1. CASE connected /\ faults = <<>>
    <3>1. /\ Len(done') = Len(done) + 1
          /\ Len(Tail(queue)) = Len(queue) - 1
          /\ NumberedAfter(done', 0)
          /\ NumberedAfter(Tail(queue), Len(done'))
      BY <1>11, <2>1, FinishNumbered DEF DrainExec, TypeOK
    <3> QED
      BY <1>11, <2>1, <3>1, <1>0 DEF DrainExec
  <2>2. CASE ~(connected /\ faults = <<>>)
    BY <1>11, <2>2 DEF DrainExec
  <2> QED
    BY <2>1, <2>2
<1>12. CASE DrainRetry
  <2>1. faults' # <<>>
    <3>1. faults \in Seq(1..MaxMsg) /\ \E e : faults' = Append(faults, e)
      BY <1>12 DEF DrainRetry, TypeOK
    <3> HIDE DEF CopyInv, Conservation, BatchCovered, Stopped
    <3> QED
      BY <3>1, AppendNotEmpty
  <2> QED
    BY <1>12, <2>1 DEF DrainRetry
<1>13. CASE DrainDone
  BY <1>13 DEF DrainDone, NumberedAfter
<1>14. CASE UNCHANGED vars
  BY <1>14 DEF vars, NumberedAfter
<1> QED
  BY <1>1, <1>2, <1>3, <1>4, <1>5, <1>6, <1>7, <1>8, <1>9, <1>10, <1>11,
     <1>12, <1>13, <1>14 DEF Next, Main, Worker, Drain

THEOREM CopyInvariant == Spec => []CopyInv
  BY CopyInvInit, CopyInvStep, TypeCorrect, PTL DEF Spec

\* Until the worker leaves its loop no statement is lost, repeated or
\* overtaken, whatever retryable errors MySQL returned.
THEOREM NothingLost == Spec => []Conservation
  BY CopyInvariant, PTL DEF CopyInv

\* The batch loop of ChildLoop always finds a statement in the copy.
THEOREM BatchInBounds == Spec => []BatchCovered
  BY CopyInvariant, PTL DEF CopyInv

\* A connection that never saw a retryable error has executed everything when
\* its worker ends after Quit.
THEOREM CleanEnd == Spec => []CleanShutdown
<1>1. TypeOK /\ CopyInv => CleanShutdown
  BY LenNat DEF TypeOK, CopyInv, CleanShutdown, Stopped
<1> QED
  BY <1>1, CopyInvariant, TypeCorrect, PTL

-----------------------------------------------------------------------------
(* The connection implements the service.  A statement is pending while it is in
   the copy or in the queue; what Quit drops is what the copy still holds. *)

\* Sequences are equal when they agree in every place.
LEMMA SameSequence ==
  ASSUME NEW S, NEW s \in Seq(S), NEW t \in Seq(S), Len(s) = Len(t),
         \A i \in 1..Len(s) : s[i] = t[i]
  PROVE  s = t
  OBVIOUS

\* The numbers of a sequence of statements or answers, ...
LEMMA IdsType ==
  ASSUME NEW S, NEW s \in Seq(S), \A m \in S : m.id \in Nat
  PROVE  Ids(s) \in Seq(Nat) /\ Len(Ids(s)) = Len(s) /\ \A i \in 1..Len(s) : Ids(s)[i] = s[i].id
  <1>1. Len(s) \in Nat /\ \A i \in 1..Len(s) : s[i] \in S
    OBVIOUS
  <1> QED
    BY <1>1 DEF Ids

\* ... of one that has grown, ...
LEMMA IdsAppend ==
  ASSUME NEW S, NEW s \in Seq(S), NEW e \in S, \A m \in S : m.id \in Nat
  PROVE  Ids(Append(s, e)) = Append(Ids(s), e.id)
  <1> DEFINE t == Append(s, e)
             u == Append(Ids(s), e.id)
  <1>1. /\ t \in Seq(S) /\ Len(t) = Len(s) + 1 /\ Len(s) \in Nat
        /\ \A i \in 1..Len(s) + 1 : t[i] = IF i <= Len(s) THEN s[i] ELSE e
    OBVIOUS
  <1>2. Ids(s) \in Seq(Nat) /\ Len(Ids(s)) = Len(s) /\ \A i \in 1..Len(s) : Ids(s)[i] = s[i].id
    BY IdsType
  <1>3. /\ u \in Seq(Nat) /\ Len(u) = Len(s) + 1
        /\ \A i \in 1..Len(s) + 1 : u[i] = IF i <= Len(s) THEN Ids(s)[i] ELSE e.id
    BY <1>1, <1>2
  <1> HIDE DEF t, u
  <1>4. Ids(t) \in Seq(Nat) /\ Len(Ids(t)) = Len(t) /\ \A i \in 1..Len(t) : Ids(t)[i] = t[i].id
    BY <1>1, IdsType
  <1>5. ASSUME NEW i \in 1..Len(s) + 1 PROVE Ids(t)[i] = u[i]
    <2>1. Ids(t)[i] = t[i].id
      BY <1>1, <1>4
    <2>2. CASE i <= Len(s)
      BY <1>1, <1>2, <1>3, <2>1, <2>2
    <2>3. CASE ~(i <= Len(s))
      BY <1>1, <1>3, <2>1, <2>3
    <2> QED
      BY <2>2, <2>3
  <1> QED
    BY <1>1, <1>3, <1>4, <1>5 DEF t, u

\* ... of one that has lost its head, ...
LEMMA IdsTail ==
  ASSUME NEW S, NEW s \in Seq(S), s # <<>>, \A m \in S : m.id \in Nat
  PROVE  Ids(s) # <<>> /\ Head(Ids(s)) = Head(s).id /\ Tail(Ids(s)) = Ids(Tail(s))
  <1> DEFINE t == Tail(s)
             u == Tail(Ids(s))
  <1>1. /\ t \in Seq(S) /\ Len(t) = Len(s) - 1 /\ Len(s) \in Nat \ {0} /\ Head(s) = s[1]
        /\ \A i \in 1..Len(s) - 1 : t[i] = s[i + 1]
    OBVIOUS
  <1>2. Ids(s) \in Seq(Nat) /\ Len(Ids(s)) = Len(s) /\ \A i \in 1..Len(s) : Ids(s)[i] = s[i].id
    BY IdsType
  <1>3. Ids(s) # <<>> /\ Head(Ids(s)) = Ids(s)[1]
    BY <1>1, <1>2
  <1>4. /\ u \in Seq(Nat) /\ Len(u) = Len(s) - 1
        /\ \A i \in 1..Len(s) - 1 : u[i] = Ids(s)[i + 1]
    BY <1>1, <1>2, <1>3
  <1> HIDE DEF t, u
  <1>5. Ids(t) \in Seq(Nat) /\ Len(Ids(t)) = Len(t) /\ \A i \in 1..Len(t) : Ids(t)[i] = t[i].id
    BY <1>1, IdsType
  <1>6. ASSUME NEW i \in 1..Len(s) - 1 PROVE Ids(t)[i] = u[i]
    <2>1. i \in 1..Len(t) /\ i + 1 \in 1..Len(s)
      BY <1>1
    <2>2. Ids(t)[i] = t[i].id /\ t[i] = s[i + 1]
      BY <1>1, <1>5, <2>1
    <2>3. u[i] = Ids(s)[i + 1] /\ Ids(s)[i + 1] = s[i + 1].id
      BY <1>2, <1>4, <2>1
    <2> QED
      BY <2>2, <2>3
  <1>7. Ids(t) = u
    BY <1>1, <1>4, <1>5, <1>6
  <1> QED
    BY <1>1, <1>2, <1>3, <1>7 DEF t, u

\* ... and of the second of two.
LEMMA IdsConcat ==
  ASSUME NEW S, NEW s \in Seq(S), NEW t \in Seq(S), \A m \in S : m.id \in Nat
  PROVE  /\ Len(s) \in 0..Len(Ids(s \o t))
         /\ SubSeq(Ids(s \o t), Len(s) + 1, Len(Ids(s \o t))) = Ids(t)
  <1> DEFINE c == s \o t
             n == Len(s)
             u == SubSeq(Ids(c), n + 1, Len(Ids(c)))
  <1>1. /\ c \in Seq(S) /\ Len(c) = n + Len(t) /\ n \in Nat /\ Len(t) \in Nat
        /\ \A i \in 1..Len(t) : c[n + i] = t[i]
    OBVIOUS
  <1>2. Ids(c) \in Seq(Nat) /\ Len(Ids(c)) = Len(c) /\ \A i \in 1..Len(c) : Ids(c)[i] = c[i].id
    BY <1>1, IdsType
  <1>3. Ids(t) \in Seq(Nat) /\ Len(Ids(t)) = Len(t) /\ \A i \in 1..Len(t) : Ids(t)[i] = t[i].id
    BY IdsType
  <1> HIDE DEF c, n
  <1>4. /\ u \in Seq(Nat) /\ Len(u) = Len(t)
        /\ \A i \in 1..Len(t) : u[i] = Ids(c)[n + i]
    BY <1>1, <1>2
  <1> HIDE DEF u
  <1>5. ASSUME NEW i \in 1..Len(t) PROVE u[i] = Ids(t)[i]
    <2>1. n + i \in 1..Len(c)
      BY <1>1
    <2>2. u[i] = c[n + i].id
      BY <1>2, <1>4, <2>1
    <2>3. c[n + i] = t[i] /\ Ids(t)[i] = t[i].id
      BY <1>1, <1>3
    <2> QED
      BY <2>2, <2>3
  <1>6. u = Ids(t)
    <2>1. Len(u) = Len(Ids(t)) /\ u \in Seq(Nat) /\ Ids(t) \in Seq(Nat)
      BY <1>3, <1>4
    <2>2. \A i \in 1..Len(u) : u[i] = Ids(t)[i]
      BY <1>4, <1>5
    <2> QED
      BY <2>1, <2>2, SameSequence
  <1> QED
    BY <1>1, <1>2, <1>6 DEF u, c, n

\* What is pending.
Pending == IF Stopped THEN queue ELSE copy \o queue

\* What is numbered.
LEMMA IdsOf ==
  ASSUME TypeOK
  PROVE  /\ \A m \in Msg : m.id \in Nat
         /\ \A a \in Answer : a.id \in Nat
         /\ Pending \in Seq(Msg)
  BY AsyncSQLAssumption DEF TypeOK, Msg, Answer, Pending

\* A new connection is a new service.
LEMMA ServiceInit == Init => Service!Init
  BY DEF Init, Service!Init, Ids, Stopped

\* A statement that is executed is the oldest pending one.
LEMMA ServiceServe ==
  ASSUME TypeOK, NEW q \in Seq(Msg), q # <<>>, NEW ok \in BOOLEAN, Finish(Head(q), ok),
         Pending = q, Pending' = Tail(q), iMsgCount' = iMsgCount, Stopped' = Stopped
  PROVE  Service!Serve
  <1> DEFINE a == [id |-> Head(q).id, ret |-> Head(q).ret, ok |-> ok]
  <1>1. Head(q) \in Msg
    OBVIOUS
  <1>2. a \in Answer /\ a.id = Head(q).id /\ done' = Append(done, a) /\ done \in Seq(Answer)
    BY <1>1, AnswerType DEF Finish, TypeOK
  <1> HIDE DEF a
  <1>3. Ids(done') = Append(Ids(done), Head(q).id)
    BY <1>2, IdsAppend, IdsOf
  <1>4. /\ Ids(q) # <<>> /\ Head(Ids(q)) = Head(q).id /\ Tail(Ids(q)) = Ids(Tail(q))
    BY IdsTail, IdsOf
  <1>5. Ids(Pending') = Ids(Tail(q)) /\ Ids(Pending) = Ids(q)
    OBVIOUS
  <1> QED
    BY <1>3, <1>4, <1>5 DEF Service!Serve, Pending

\* Every step of the two threads is one of the service, or none.
LEMMA ServiceNext ==
  TypeOK /\ CopyInv /\ [Next]_vars => [Service!Next]_(Service!vars)
<1> SUFFICES ASSUME TypeOK, CopyInv, [Next]_vars PROVE Service!Next \/ UNCHANGED Service!vars
  OBVIOUS
<1>1. copy \in Seq(Msg) /\ queue \in Seq(Msg) /\ copy \o queue \in Seq(Msg)
  BY DEF TypeOK
<1>2. ASSUME NEW ret \in BOOLEAN, Query(ret) PROVE Service!Submit
  <2> DEFINE m == [id |-> iMsgCount', ret |-> ret]
  <2>1. /\ iMsgCount' = iMsgCount + 1 /\ queue' = Append(queue, m) /\ m.id = iMsgCount'
        /\ UNCHANGED <<copy, done, pc>>
    BY <1>2 DEF Query, PushQuery, workerVars
  <2>2. iMsgCount' \in 1..MaxMsg
    BY <1>2, <2>1, AsyncSQLAssumption DEF Query, TypeOK
  <2>3. m \in Msg
    BY <2>2 DEF Msg
  <2> HIDE DEF m
  <2>4. copy \o Append(queue, m) = Append(copy \o queue, m)
    BY <1>1, <2>3
  <2>5. Pending' = Append(Pending, m)
    BY <2>1, <2>4 DEF Pending, Stopped
  <2>6. Ids(Pending') = Append(Ids(Pending), iMsgCount')
    BY <2>1, <2>3, <2>5, IdsAppend, IdsOf
  <2> QED
    BY <2>1, <2>6 DEF Service!Submit, Pending, Stopped, Ids
<1>3. ASSUME NEW ok \in BOOLEAN, BatchExec(ok) PROVE Service!Serve
  <2>1. /\ copy # <<>> /\ Finish(Head(copy), ok) /\ copy' = Tail(copy) /\ pc = "batch"
        /\ UNCHANGED <<queue, iMsgCount, pc>>
    BY <1>3 DEF BatchExec, mainVars
  <2>2. /\ copy \o queue # <<>> /\ Head(copy \o queue) = Head(copy)
        /\ Tail(copy \o queue) = Tail(copy) \o queue
    BY <1>1, <2>1
  <2> QED
    BY <1>1, <2>1, <2>2, ServiceServe DEF Pending, Stopped
<1>4. ASSUME NEW ok \in BOOLEAN, DrainExec(ok) PROVE Service!Serve
  <2>1. /\ queue # <<>> /\ Finish(Head(queue), ok) /\ queue' = Tail(queue) /\ pc = "drain"
        /\ UNCHANGED <<iMsgCount, pc>>
    BY <1>4 DEF DrainExec, mainVars
  <2> QED
    BY <1>1, <2>1, ServiceServe DEF Pending, Stopped
<1>5. ASSUME ~Stopped, Stopped', UNCHANGED <<iMsgCount, copy, queue, done>>
      PROVE  Service!Close
  <2>1. /\ Len(copy) \in 0..Len(Ids(copy \o queue))
        /\ SubSeq(Ids(copy \o queue), Len(copy) + 1, Len(Ids(copy \o queue))) = Ids(queue)
    BY <1>1, IdsConcat, IdsOf
  <2> QED
    BY <1>5, <2>1 DEF Service!Close, Ids
<1>6. CASE Connect \/ TestEnd
  <2>1. pc \in {"connect", "loop"} /\ UNCHANGED <<iMsgCount, copy, queue, done>>
    BY <1>6 DEF Connect, TestEnd, mainVars
  <2>2. CASE Stopped'
    BY <1>5, <2>1, <2>2 DEF Stopped, Service!Next
  <2>3. CASE ~Stopped'
    BY <2>1, <2>3 DEF Stopped, Service!vars, Ids
  <2> QED
    BY <2>2, <2>3
<1>7. CASE CopyQuery
  <2>1. /\ pc = "copy" /\ pc' \in {"loop", "batch"} /\ copy' = copy \o queue /\ queue' = <<>>
        /\ UNCHANGED <<iMsgCount, done>>
    BY <1>7 DEF CopyQuery, CopyBatch, mainVars
  <2>2. copy' \o queue' = copy \o queue
    BY <1>1, <2>1
  <2> QED
    BY <2>1, <2>2 DEF Stopped, Service!vars, Ids
<1>8. CASE DrainDone \/ SemWait \/ BatchDone
  BY <1>8 DEF DrainDone, SemWait, BatchDone, mainVars, Stopped, Service!vars, Ids
<1>9. CASE PopResult \/ Quit \/ BatchRetry \/ DrainRetry \/ UNCHANGED vars
  <2>1. UNCHANGED <<iMsgCount, copy, queue, done, pc>>
    BY <1>9 DEF PopResult, Quit, QuitFlag, QuitRelease, QuitJoin, BatchRetry, DrainRetry,
       mainVars, workerVars, vars
  <2> QED
    BY <2>1 DEF Stopped, Service!vars, Ids
<1> QED
  BY <1>2, <1>3, <1>4, <1>6, <1>7, <1>8, <1>9 DEF Next, Main, Worker, Drain, Service!Next

\* The connection is a service that takes statements in order, serves each of them once
\* and in that order, and drops a beginning of what is pending when it closes: PushQuery,
\* CopyQuery and both loops of ChildLoop neither overtake nor repeat one.
THEOREM ImplementsServiceHolds == Spec => ImplementsService
<1>1. Spec => [](TypeOK /\ CopyInv)
  BY TypeCorrect, CopyInvariant, PTL
<1> QED
  BY <1>1, ServiceInit, ServiceNext, PTL DEF Spec, ImplementsService, Service!Spec

-----------------------------------------------------------------------------
(* Timer events *)

QueueOK ==
    /\ \A i \in 1 .. Len(pq_queue) : owner[pq_queue[i]] # NoEvent
    /\ \A i, j \in 1 .. Len(pq_queue) : pq_queue[i] = pq_queue[j] => i = j

PointersOK ==
    /\ held \cap called_off = {}
    /\ running # NoEvent => running \in is_processing
    /\ running \in called_off => running \in is_force_to_end

IInv == EventTypeOK /\ QueueOK /\ PointersOK /\ OneCall /\ NotForgotten

-----------------------------------------------------------------------------
(* The sorted queue *)

Splice(q, c, n) == SubSeq(q, 1, n) \o <<c>> \o SubSeq(q, n + 1, Len(q))

LEMMA Spliced ==
    ASSUME NEW q \in Seq(Cell), NEW c \in Cell, NEW n \in 0 .. Len(q)
    PROVE  /\ Splice(q, c, n) \in Seq(Cell)
           /\ Len(Splice(q, c, n)) = Len(q) + 1
           /\ \A i \in 1 .. Len(q) + 1 :
                 Splice(q, c, n)[i] = IF i <= n THEN q[i] ELSE IF i = n + 1 THEN c ELSE q[i - 1]
  <1> DEFINE a == SubSeq(q, 1, n)
             b == SubSeq(q, n + 1, Len(q))
             ac == a \o <<c>>
  <1>1. Len(q) \in Nat /\ n \in Nat /\ n <= Len(q) OBVIOUS
  <1>2. a \in Seq(Cell) /\ Len(a) = n /\ \A i \in 1 .. n : a[i] = q[i]
    BY <1>1
  <1>3. b \in Seq(Cell) /\ Len(b) = Len(q) - n /\ \A i \in 1 .. Len(q) - n : b[i] = q[n + i]
    BY <1>1
  <1> HIDE DEF a, b
  <1>4. /\ ac \in Seq(Cell) /\ Len(ac) = n + 1
        /\ \A i \in 1 .. n : ac[i] = a[i]
        /\ ac[n + 1] = c
    BY <1>1, <1>2
  <1> HIDE DEF ac
  <1>5. /\ ac \o b \in Seq(Cell) /\ Len(ac \o b) = Len(q) + 1
        /\ \A i \in 1 .. n + 1 : (ac \o b)[i] = ac[i]
        /\ \A i \in n + 2 .. Len(q) + 1 : (ac \o b)[i] = b[i - (n + 1)]
    BY <1>1, <1>3, <1>4
  <1>6. Splice(q, c, n) = ac \o b
    BY DEF Splice, ac, a, b
  <1>7. ASSUME NEW i \in 1 .. Len(q) + 1
        PROVE  (ac \o b)[i] = IF i <= n THEN q[i] ELSE IF i = n + 1 THEN c ELSE q[i - 1]
    <2>1. CASE i <= n BY <1>1, <1>2, <1>4, <1>5, <2>1
    <2>2. CASE i = n + 1 BY <1>1, <1>4, <1>5, <2>2
    <2>3. CASE i > n + 1
      <3>1. i \in n + 2 .. Len(q) + 1 /\ i - (n + 1) \in 1 .. Len(q) - n
            /\ n + (i - (n + 1)) = i - 1 /\ i - 1 \in 1 .. Len(q)
        BY <1>1, <2>3
      <3>2. b[i - (n + 1)] = q[i - 1] BY <1>3, <3>1
      <3> QED BY <1>1, <1>5, <2>3, <3>1, <3>2
    <2>4. i <= n \/ i = n + 1 \/ i > n + 1 BY <1>1
    <2> QED BY <2>1, <2>2, <2>3, <2>4
  <1> QED BY <1>5, <1>6, <1>7

LEMMA UpTo ==
    ASSUME NEW n \in Nat
    PROVE  IsFiniteSet(1 .. n) /\ Cardinality(1 .. n) = n
  <1>1. 1 \in Int /\ n \in Int OBVIOUS
  <1>2. /\ IsFiniteSet(1 .. n)
        /\ Cardinality(1 .. n) = IF 1 > n THEN 0 ELSE n - 1 + 1
    BY <1>1, FS_Interval
  <1>3. (IF 1 > n THEN 0 ELSE n - 1 + 1) = n OBVIOUS
  <1> QED BY <1>2, <1>3

LEMMA Inserted ==
    ASSUME EventTypeOK, NEW c \in Cell, NEW due
    PROVE  \E n \in 0 .. Len(pq_queue) :
              Insert(pq_queue, c, due) = Splice(pq_queue, c, n)
  <1> DEFINE N == {i \in 1 .. Len(pq_queue) : key[pq_queue[i]] <= due}
  <1>1. Len(pq_queue) \in Nat BY DEF EventTypeOK
  <1>2. IsFiniteSet(1 .. Len(pq_queue)) /\ Cardinality(1 .. Len(pq_queue)) = Len(pq_queue)
    BY <1>1, UpTo
  <1>3. Cardinality(N) <= Len(pq_queue) /\ IsFiniteSet(N)
    BY <1>2, FS_Subset
  <1>4. Cardinality(N) \in Nat
    BY <1>3, FS_CardinalityType
  <1> HIDE DEF N
  <1>5. Cardinality(N) \in 0 .. Len(pq_queue)
    BY <1>1, <1>3, <1>4
  <1>6. Insert(pq_queue, c, due) = Splice(pq_queue, c, Cardinality(N))
    BY DEF Insert, N, Splice
  <1> QED BY <1>5, <1>6

\* Enqueue puts a free cell into the queue and leaves the others alone.
LEMMA Enqueued ==
    ASSUME EventTypeOK, QueueOK, NEW e \in Event, NEW c \in Free, NEW when \in Delay,
           Enqueue(e, c, when)
    PROVE  /\ pq_queue' \in Seq(Cell)
           /\ owner' \in [Cell -> Event \cup {NoEvent}]
           /\ key' \in [Cell -> Nat]
           /\ owner'[c] = e
           /\ \A d \in Cell : d # c => owner'[d] = owner[d]
           /\ QueueOK'
  <1> USE EventQueueAssumption
  <1>0. c \in Cell /\ owner[c] = NoEvent BY DEF Free
  <1>1. PICK n \in 0 .. Len(pq_queue) : pq_queue' = Splice(pq_queue, c, n)
    BY <1>0, Inserted DEF Enqueue
  <1>2. /\ pq_queue' \in Seq(Cell)
        /\ Len(pq_queue') = Len(pq_queue) + 1
        /\ \A i \in 1 .. Len(pq_queue') :
              pq_queue'[i] = IF i <= n THEN pq_queue[i] ELSE IF i = n + 1 THEN c ELSE pq_queue[i - 1]
    <2>1. pq_queue \in Seq(Cell) BY DEF EventTypeOK
    <2>2. /\ Splice(pq_queue, c, n) \in Seq(Cell)
          /\ Len(Splice(pq_queue, c, n)) = Len(pq_queue) + 1
          /\ \A i \in 1 .. Len(pq_queue) + 1 :
                Splice(pq_queue, c, n)[i] = IF i <= n THEN pq_queue[i]
                                         ELSE IF i = n + 1 THEN c ELSE pq_queue[i - 1]
      BY <1>0, <2>1, Spliced, ZenonT(30)
    <2> QED BY <1>1, <2>2, Zenon
  <1>3. /\ owner' \in [Cell -> Event \cup {NoEvent}]
        /\ owner'[c] = e
        /\ \A d \in Cell : d # c => owner'[d] = owner[d]
    BY <1>0 DEF Enqueue, EventTypeOK
  <1>4. key' \in [Cell -> Nat]
    BY <1>0 DEF Enqueue, EventTypeOK, Delay
  <1>5. QueueOK'
    <2>1. Len(pq_queue) \in Nat /\ \A i \in 1 .. Len(pq_queue) : pq_queue[i] \in Cell /\ pq_queue[i] # c
      BY <1>0 DEF EventTypeOK, QueueOK
    <2>2. ASSUME NEW i \in 1 .. Len(pq_queue') PROVE owner'[pq_queue'[i]] # NoEvent
      <3>1. CASE i <= n
        <4>1. i \in 1 .. Len(pq_queue) /\ pq_queue'[i] = pq_queue[i] BY <1>2, <2>1, <3>1
        <4> QED BY <1>3, <2>1, <4>1 DEF QueueOK
      <3>2. CASE i = n + 1
        <4>1. pq_queue'[i] = c BY <1>2, <2>1, <3>2
        <4> QED BY <1>3, <4>1
      <3>3. CASE i > n + 1
        <4>1. i - 1 \in 1 .. Len(pq_queue) /\ pq_queue'[i] = pq_queue[i - 1] BY <1>2, <2>1, <3>3
        <4> QED BY <1>3, <2>1, <4>1 DEF QueueOK
      <3> QED BY <1>2, <2>1, <3>1, <3>2, <3>3
    <2> DEFINE Before(k) == IF k <= n THEN k ELSE k - 1
    <2>3. ASSUME NEW k \in 1 .. Len(pq_queue'), k # n + 1
          PROVE  Before(k) \in 1 .. Len(pq_queue) /\ pq_queue'[k] = pq_queue[Before(k)]
      <3>1. CASE k <= n BY <1>2, <2>1, <3>1
      <3>2. CASE k > n + 1 BY <1>2, <2>1, <3>2
      <3> QED BY <1>2, <2>1, <2>3, <3>1, <3>2
    <2>4. pq_queue'[n + 1] = c BY <1>2, <2>1
    <2> HIDE DEF Before
    <2>5. ASSUME NEW i \in 1 .. Len(pq_queue'), NEW j \in 1 .. Len(pq_queue'), pq_queue'[i] = pq_queue'[j]
          PROVE  i = j
      <3>1. CASE i = n + 1 BY <2>1, <2>3, <2>4, <2>5, <3>1
      <3>2. CASE j = n + 1 BY <2>1, <2>3, <2>4, <2>5, <3>2
      <3>3. CASE i # n + 1 /\ j # n + 1
        <4>1. Before(i) = Before(j) BY <2>3, <2>5, <3>3 DEF QueueOK
        <4> QED BY <1>2, <2>1, <3>3, <4>1 DEF Before
      <3> QED BY <3>1, <3>2, <3>3
    <2> QED BY <2>2, <2>5 DEF QueueOK
  <1> QED BY <1>2, <1>3, <1>4, <1>5

\* Dequeue frees the first cell.
LEMMA Dequeued ==
    ASSUME EventTypeOK, QueueOK, NEW c \in Cell, Dequeue(c)
    PROVE  /\ pq_queue' \in Seq(Cell)
           /\ owner' \in [Cell -> Event \cup {NoEvent}]
           /\ owner[c] \in Event
           /\ owner'[c] = NoEvent
           /\ \A d \in Cell : d # c => owner'[d] = owner[d]
           /\ QueueOK'
  <1>1. /\ pq_queue \in Seq(Cell) /\ pq_queue # <<>> /\ c = pq_queue[1] /\ pq_queue' = Tail(pq_queue)
        /\ Len(pq_queue) \in Nat /\ Len(pq_queue) >= 1
    BY DEF Dequeue, Due, EventTypeOK
  <1>2. /\ pq_queue' \in Seq(Cell) /\ Len(pq_queue') = Len(pq_queue) - 1
        /\ \A i \in 1 .. Len(pq_queue') : pq_queue'[i] = pq_queue[i + 1]
    BY <1>1
  <1>3. owner[c] \in Event
    BY <1>1 DEF EventTypeOK, QueueOK
  <1>4. /\ owner' \in [Cell -> Event \cup {NoEvent}]
        /\ owner'[c] = NoEvent
        /\ \A d \in Cell : d # c => owner'[d] = owner[d]
    BY DEF Dequeue, EventTypeOK
  <1>5. QueueOK'
    <2>1. ASSUME NEW i \in 1 .. Len(pq_queue') PROVE owner'[pq_queue'[i]] # NoEvent
      <3>1. i + 1 \in 1 .. Len(pq_queue) /\ 1 \in 1 .. Len(pq_queue) /\ i + 1 # 1 BY <1>1, <1>2
      <3>2. pq_queue[i + 1] \in Cell /\ pq_queue[i + 1] # c BY <1>1, <3>1 DEF QueueOK
      <3> QED BY <1>2, <1>4, <3>1, <3>2 DEF QueueOK
    <2>2. ASSUME NEW i \in 1 .. Len(pq_queue'), NEW j \in 1 .. Len(pq_queue'), pq_queue'[i] = pq_queue'[j]
          PROVE  i = j
      <3>1. i + 1 \in 1 .. Len(pq_queue) /\ j + 1 \in 1 .. Len(pq_queue) BY <1>1, <1>2
      <3>2. pq_queue[i + 1] = pq_queue[j + 1] BY <1>2, <2>2
      <3>3. i + 1 = j + 1 BY <3>1, <3>2 DEF QueueOK
      <3> QED BY <3>3
    <2> QED BY <2>1, <2>2 DEF QueueOK
  <1> QED BY <1>2, <1>3, <1>4, <1>5

-----------------------------------------------------------------------------
(* The actions *)

LEMMA CreateInv ==
    ASSUME IInv, NEW e \in Event, NEW when \in Delay, event_create(e, when)
    PROVE  IInv'
  <1> USE EventQueueAssumption DEF IInv
  <1>1. PICK c \in Free : /\ Enqueue(e, c, when)
                          /\ bCancel' = bCancel \ {c}
                          /\ q_el' = [q_el EXCEPT ![e] = c]
    BY DEF event_create
  <1>2. c \in Cell /\ owner[c] = NoEvent /\ \A d \in Cell : owner[d] # e
    BY DEF Free, event_create, Gone
  <1>3. /\ pq_queue' \in Seq(Cell) /\ owner' \in [Cell -> Event \cup {NoEvent}]
        /\ key' \in [Cell -> Nat] /\ owner'[c] = e
        /\ \A d \in Cell : d # c => owner'[d] = owner[d]
        /\ QueueOK'
    BY <1>1, Enqueued
  <1>4. q_el' \in [Event -> Cell \cup {NoCell}] /\ q_el'[e] = c
        /\ \A f \in Event : f # e => q_el'[f] = q_el[f]
    BY <1>1, <1>2 DEF EventTypeOK
  <1>5. EventTypeOK'
    BY <1>1, <1>3, <1>4 DEF EventTypeOK, event_create
  <1>6. PointersOK'
    BY DEF PointersOK, event_create, Gone
  <1>7. OneCall'
    BY <1>1, <1>2, <1>3, <1>4 DEF OneCall, Live, event_create, EventTypeOK
  <1>8. NotForgotten'
    <2>1. c \in Live' BY <1>1, <1>2, <1>3, EventQueueAssumption DEF Live
    <2>2. \A d \in Live : d # c => d \in Live' BY <1>1, <1>3 DEF Live
    <2>3. c \notin Live BY <1>2 DEF Live
    <2>4. /\ held' = held \cup {e} /\ is_processing' = is_processing \ {e}
          /\ struck' = struck \ {e}
      BY DEF event_create
    <2>5. \A d \in Live : d # c /\ d \in Cell /\ d \in Live' /\ owner'[d] = owner[d]
      BY <1>3, <2>2, <2>3 DEF Live
    <2>6. \A f \in held :
             f \in is_processing \/ f \in struck \/ \E d \in Live : owner[d] = f
      BY DEF NotForgotten
    <2>7. ASSUME NEW f \in held'
          PROVE  f \in is_processing' \/ f \in struck' \/ \E d \in Live' : owner'[d] = f
      <3>1. CASE f = e BY <1>3, <2>1, <3>1
      <3>2. CASE f # e BY <2>4, <2>5, <2>6, <3>2, Zenon
      <3> QED BY <3>1, <3>2
    <2> QED BY <2>7 DEF NotForgotten
  <1> QED BY <1>3, <1>5, <1>6, <1>7, <1>8

LEMMA ForgetInv ==
    ASSUME IInv, NEW e \in Event, Forget(e)
    PROVE  IInv'
  BY DEF IInv, EventTypeOK, QueueOK, PointersOK, OneCall, NotForgotten, Live, Forget, elements

LEMMA CancelInv ==
    ASSUME IInv, NEW e \in Event, event_cancel(e)
    PROVE  IInv'
  <1> USE EventQueueAssumption DEF IInv
  <1>1. bCancel' \subseteq Cell /\ bCancel \subseteq bCancel'
        /\ (q_el[e] \in Cell => q_el[e] \in bCancel')
        /\ \A d \in bCancel' : d \in bCancel \/ d = q_el[e]
    BY DEF event_cancel, CancelElement, EventTypeOK
  <1>2. EventTypeOK'
    BY <1>1 DEF EventTypeOK, event_cancel, Strikes
  <1>3. QueueOK'
    BY DEF QueueOK, event_cancel
  <1>4. PointersOK'
    BY DEF PointersOK, event_cancel
  <1>5. OneCall'
    BY <1>1 DEF OneCall, Live, event_cancel, EventTypeOK
  <1>6. ASSUME NEW f \in held'
        PROVE  f \in is_processing' \/ f \in struck' \/ \E d \in Live' : owner'[d] = f
    <2>1. f \in held /\ f # e /\ f \in Event BY <1>6 DEF event_cancel, EventTypeOK
    <2>2. CASE f \in is_processing \/ f \in struck BY <2>2 DEF event_cancel
    <2>3. ASSUME NEW d \in Live, owner[d] = f
          PROVE  f \in struck' \/ \E b \in Live' : owner'[b] = f
      <3>1. CASE d = q_el[e] BY <2>1, <2>3, <3>1 DEF event_cancel, Strikes
      <3>2. CASE d # q_el[e] BY <1>1, <2>3, <3>2 DEF event_cancel, Live
      <3> QED BY <3>1, <3>2
    <2> QED BY <2>1, <2>2, <2>3 DEF NotForgotten
  <1>7. NotForgotten'
    BY <1>6 DEF NotForgotten
  <1> QED BY <1>2, <1>3, <1>4, <1>5, <1>7

LEMMA ResetInv ==
    ASSUME IInv, NEW e \in Event, NEW when \in Delay, event_reset_time(e, when)
    PROVE  IInv'
  <1> USE EventQueueAssumption DEF IInv
  <1>1. PICK c \in Free : /\ Enqueue(e, c, when)
                          /\ bCancel' = OldBeforeNew(e, c)
                          /\ q_el' = [q_el EXCEPT ![e] = c]
    BY DEF event_reset_time
  <1>2. c \in Cell /\ owner[c] = NoEvent
    BY DEF Free
  <1>3. /\ pq_queue' \in Seq(Cell) /\ owner' \in [Cell -> Event \cup {NoEvent}]
        /\ key' \in [Cell -> Nat] /\ owner'[c] = e
        /\ \A d \in Cell : d # c => owner'[d] = owner[d]
        /\ QueueOK'
    BY <1>1, Enqueued
  <1>4. q_el' \in [Event -> Cell \cup {NoCell}] /\ q_el'[e] = c
        /\ \A f \in Event : f # e => q_el'[f] = q_el[f]
    BY <1>1, <1>2 DEF EventTypeOK
  <1>5. bCancel' \subseteq Cell /\ c \notin bCancel'
        /\ \A d \in Cell : d # c => (d \in bCancel' <=> d \in bCancel \/ d = q_el[e])
    BY <1>1, <1>2 DEF OldBeforeNew, CancelElement, EventTypeOK
  <1>6. e \in held /\ e \notin is_processing /\ e \notin called_off
    BY DEF event_reset_time, PointersOK
  <1>7. EventTypeOK'
    BY <1>3, <1>4, <1>5 DEF EventTypeOK, event_reset_time, Strikes
  <1>8. PointersOK'
    BY DEF PointersOK, event_reset_time
  <1>9. ASSUME NEW d \in Live'
        PROVE  /\ q_el'[owner'[d]] = d
               /\ owner'[d] \notin is_processing' /\ owner'[d] \notin called_off'
    <2>1. is_processing' = is_processing /\ called_off' = called_off BY DEF event_reset_time
    <2>2. CASE d = c BY <1>3, <1>4, <1>6, <2>1, <2>2
    <2>3. CASE d # c
      <3>1. /\ d \in Live /\ d # q_el[e] /\ owner'[d] = owner[d] /\ owner[d] \in Event
        BY <1>3, <1>5, <2>3 DEF Live, EventTypeOK
      <3>2. /\ q_el[owner[d]] = d
            /\ owner[d] \notin is_processing /\ owner[d] \notin called_off
        BY <3>1 DEF OneCall
      <3>3. owner[d] # e BY <3>1, <3>2
      <3> QED BY <1>4, <2>1, <3>1, <3>2, <3>3
    <2> QED BY <2>2, <2>3
  <1>12. OneCall'
    BY <1>9 DEF OneCall
  <1>10. ASSUME NEW f \in held'
        PROVE  f \in is_processing' \/ f \in struck' \/ \E d \in Live' : owner'[d] = f
    <2>1. f \in held /\ f \in Event BY <1>10 DEF event_reset_time, EventTypeOK
    <2>2. CASE f = e BY <1>2, <1>3, <1>5, <2>2 DEF Live
    <2>3. CASE f # e /\ (f \in is_processing \/ f \in struck) BY <2>3 DEF event_reset_time
    <2>4. ASSUME f # e, NEW d \in Live, owner[d] = f
          PROVE  f \in struck' \/ \E b \in Live' : owner'[b] = f
      <3>1. d \in Cell /\ d # c BY <1>2, <2>4 DEF Live
      <3>2. CASE d = q_el[e] BY <2>1, <2>4, <3>2 DEF event_reset_time, Strikes
      <3>3. CASE d # q_el[e] BY <1>3, <1>5, <2>4, <3>1, <3>3 DEF Live
      <3> QED BY <3>2, <3>3
    <2> QED BY <2>1, <2>2, <2>3, <2>4 DEF NotForgotten
  <1>11. NotForgotten'
    BY <1>10 DEF NotForgotten
  <1> QED BY <1>3, <1>7, <1>8, <1>11, <1>12

LEMMA SkipInv ==
    ASSUME IInv, NEW c \in Cell, Skip(c)
    PROVE  IInv'
  <1> USE EventQueueAssumption DEF IInv
  <1>1. /\ pq_queue' \in Seq(Cell) /\ owner' \in [Cell -> Event \cup {NoEvent}]
        /\ owner'[c] = NoEvent
        /\ \A d \in Cell : d # c => owner'[d] = owner[d]
        /\ QueueOK'
    BY Dequeued DEF Skip
  <1>2. EventTypeOK'
    BY <1>1 DEF EventTypeOK, Skip, Dequeue
  <1>3. PointersOK'
    BY DEF PointersOK, Skip, Dequeue
  <1>4. Live' = Live /\ \A d \in Live : owner'[d] = owner[d]
    BY <1>1 DEF Live, Skip
  <1>5. OneCall'
    BY <1>4 DEF OneCall, Skip, Dequeue
  <1>6. NotForgotten'
    BY <1>4 DEF NotForgotten, Skip, Dequeue
  <1> QED BY <1>1, <1>2, <1>3, <1>5, <1>6

LEMMA CalledLive ==
    ASSUME IInv, NEW c \in Cell, c \notin bCancel, Dequeue(c), bCancel' = bCancel
    PROVE  /\ pq_queue' \in Seq(Cell) /\ owner' \in [Cell -> Event \cup {NoEvent}]
           /\ owner[c] \in Event /\ QueueOK'
           /\ c \in Live /\ Live' = Live \ {c}
           /\ \A d \in Live' : owner'[d] = owner[d] /\ owner[d] # owner[c]
  <1> USE EventQueueAssumption DEF IInv
  <1>1. /\ pq_queue' \in Seq(Cell) /\ owner' \in [Cell -> Event \cup {NoEvent}]
        /\ owner[c] \in Event /\ owner'[c] = NoEvent
        /\ \A d \in Cell : d # c => owner'[d] = owner[d]
        /\ QueueOK'
    BY Dequeued
  <1>2. c \in Live /\ Live' = Live \ {c}
    BY <1>1 DEF Live
  <1>3. \A d \in Live' : owner'[d] = owner[d] /\ owner[d] # owner[c]
    BY <1>1, <1>2 DEF OneCall, Live
  <1> QED BY <1>1, <1>2, <1>3

LEMMA CallInv ==
    ASSUME IInv, NEW c \in Cell, Call(c) \/ CallWithoutInfo(c)
    PROVE  IInv'
  <1> USE EventQueueAssumption DEF IInv
  <1>0. /\ c \notin bCancel /\ Dequeue(c) /\ bCancel' = bCancel
        /\ is_processing' = is_processing \cup {owner[c]}
        /\ (running' = running /\ owner[c] \in NoInfo) \/ running' = owner[c]
        /\ \A f \in Event : f # owner[c] => q_el'[f] = q_el[f]
        /\ q_el' \in [Event -> Cell \cup {NoCell}]
    BY DEF Call, CallWithoutInfo, EventTypeOK
  <1>1. /\ pq_queue' \in Seq(Cell) /\ owner' \in [Cell -> Event \cup {NoEvent}]
        /\ owner[c] \in Event /\ QueueOK'
        /\ c \in Live /\ Live' = Live \ {c}
        /\ \A d \in Live' : owner'[d] = owner[d] /\ owner[d] # owner[c]
    BY <1>0, CalledLive
  <1>2. EventTypeOK'
    BY <1>0, <1>1 DEF EventTypeOK, Dequeue
  <1>3. PointersOK'
    BY <1>0, <1>1 DEF PointersOK, Dequeue, OneCall
  <1>4. OneCall'
    BY <1>0, <1>1 DEF OneCall, Dequeue, Live, EventTypeOK
  <1>5. NotForgotten'
    BY <1>0, <1>1 DEF NotForgotten, Dequeue
  <1> QED BY <1>1, <1>2, <1>3, <1>4, <1>5

LEMMA ReturnInv ==
    ASSUME IInv, NEW e \in Event, NEW new_time, Return(e, new_time)
    PROVE  IInv'
  <1> USE EventQueueAssumption DEF IInv
  <1>1. e \in is_processing
    BY DEF Return, PointersOK
  <1>2. Live' = Live /\ \A d \in Live : owner'[d] = owner[d]
    BY DEF Live, Return, elements
  <1>3. EventTypeOK'
    BY DEF EventTypeOK, Return, elements
  <1>4. QueueOK'
    BY DEF QueueOK, Return, elements
  <1>5. PointersOK'
    BY DEF PointersOK, Return, EventTypeOK
  <1>6. OneCall'
    BY <1>1, <1>2 DEF OneCall, Return, Live, EventTypeOK
  <1>7. NotForgotten'
    BY <1>2 DEF NotForgotten, Return
  <1> QED BY <1>3, <1>4, <1>5, <1>6, <1>7

LEMMA ReturnAgainInv ==
    ASSUME IInv, NEW e \in Event, NEW new_time \in Delay \cup {0}, ReturnAgain(e, new_time)
    PROVE  IInv'
  <1> USE EventQueueAssumption DEF IInv
  <1>0. new_time \in Delay
    BY DEF ReturnAgain, Ends
  <1>1. PICK c \in Free : /\ Enqueue(e, c, new_time)
                          /\ bCancel' = bCancel \ {c}
                          /\ q_el' = [q_el EXCEPT ![e] = c]
    BY DEF ReturnAgain
  <1>2. c \in Cell /\ owner[c] = NoEvent /\ e \in is_processing /\ e \notin called_off
    BY DEF Free, ReturnAgain, Ends, PointersOK
  <1>3. /\ pq_queue' \in Seq(Cell) /\ owner' \in [Cell -> Event \cup {NoEvent}]
        /\ key' \in [Cell -> Nat] /\ owner'[c] = e
        /\ \A d \in Cell : d # c => owner'[d] = owner[d]
        /\ QueueOK'
    BY <1>0, <1>1, Enqueued
  <1>4. q_el' \in [Event -> Cell \cup {NoCell}] /\ q_el'[e] = c
        /\ \A f \in Event : f # e => q_el'[f] = q_el[f]
    BY <1>1, <1>2 DEF EventTypeOK
  <1>5. EventTypeOK'
    BY <1>1, <1>3, <1>4 DEF EventTypeOK, ReturnAgain
  <1>6. PointersOK'
    BY DEF PointersOK, ReturnAgain, EventTypeOK
  <1>7. OneCall'
    BY <1>1, <1>2, <1>3, <1>4 DEF OneCall, Live, ReturnAgain, EventTypeOK
  <1>8. NotForgotten'
    BY <1>1, <1>2, <1>3 DEF NotForgotten, Live, ReturnAgain, EventTypeOK
  <1> QED BY <1>3, <1>5, <1>6, <1>7, <1>8

\* The steps of the clock and of the loop touch no event.
LEMMA IdleInv ==
    ASSUME IInv, Heartbeat \/ ProcessReturns \/ UNCHANGED eventVars
    PROVE  IInv'
  <1> USE EventQueueAssumption DEF IInv
  <1>1. UNCHANGED <<running, elements, events, called_off, struck>>
    BY DEF Heartbeat, ProcessReturns, eventVars
  <1>2. EventTypeOK'
    <2>1. pulse' \in 0 .. MaxPulse
      BY DEF EventTypeOK, Heartbeat, ProcessReturns, eventVars
    <2>2. draining' \in BOOLEAN
      BY DEF EventTypeOK, Heartbeat, ProcessReturns, eventVars
    <2> QED BY <1>1, <2>1, <2>2 DEF EventTypeOK, elements, events
  <1>3. QueueOK' /\ PointersOK' /\ OneCall' /\ NotForgotten'
    BY <1>1 DEF QueueOK, PointersOK, OneCall, NotForgotten, Live, elements, events
  <1> QED BY <1>2, <1>3

-----------------------------------------------------------------------------
(* Theorems *)

LEMMA InitInv == EventInit => IInv
  <1> SUFFICES ASSUME EventInit PROVE IInv OBVIOUS
  <1> USE EventQueueAssumption DEF EventInit
  <1>1. EventTypeOK
    <2>1. pulse \in 0 .. MaxPulse OBVIOUS
    <2>6. draining \in BOOLEAN BY Zenon
    <2>2. pq_queue \in Seq(Cell) OBVIOUS
    <2>3. key \in [Cell -> Nat] OBVIOUS
    <2>4. owner \in [Cell -> Event \cup {NoEvent}] OBVIOUS
    <2>5. q_el \in [Event -> Cell \cup {NoCell}] OBVIOUS
    <2> QED BY <2>1, <2>2, <2>3, <2>4, <2>5, <2>6 DEF EventTypeOK
  <1>2. QueueOK BY DEF QueueOK
  <1>3. PointersOK BY DEF PointersOK
  <1>4. OneCall BY DEF OneCall, Live
  <1>5. NotForgotten BY DEF NotForgotten
  <1> QED BY <1>1, <1>2, <1>3, <1>4, <1>5 DEF IInv

LEMMA NextInv == IInv /\ [EventNext]_eventVars => IInv'
  <1> SUFFICES ASSUME IInv, [EventNext]_eventVars PROVE IInv' OBVIOUS
  <1>1. CASE Heartbeat \/ ProcessReturns \/ UNCHANGED eventVars BY <1>1, IdleInv
  <1>2. ASSUME NEW c \in Cell, Skip(c) PROVE IInv' BY <1>2, SkipInv
  <1>3. ASSUME NEW c \in Cell, Call(c) \/ CallWithoutInfo(c) PROVE IInv' BY <1>3, CallInv
  <1>4. ASSUME NEW e \in Event, event_cancel(e) PROVE IInv' BY <1>4, CancelInv
  <1>5. ASSUME NEW e \in Event, Forget(e) PROVE IInv' BY <1>5, ForgetInv
  <1>6. ASSUME NEW e \in Event, NEW when \in Delay, event_create(e, when) PROVE IInv'
    BY <1>6, CreateInv
  <1>7. ASSUME NEW e \in Event, NEW when \in Delay, event_reset_time(e, when) PROVE IInv'
    BY <1>7, ResetInv
  <1>8. ASSUME NEW e \in Event, NEW new_time \in Delay \cup {0}, Return(e, new_time) PROVE IInv'
    BY <1>8, ReturnInv
  <1>9. ASSUME NEW e \in Event, NEW new_time \in Delay \cup {0}, ReturnAgain(e, new_time)
        PROVE  IInv'
    BY <1>9, ReturnAgainInv
  <1> QED BY <1>1, <1>2, <1>3, <1>4, <1>5, <1>6, <1>7, <1>8, <1>9 DEF EventNext

THEOREM Invariant == EventSpec => []IInv
  BY InitInv, NextInv, PTL DEF EventSpec

\* The queue, the cells and the pointers of events have their types.
THEOREM EventTypeCorrect == EventSpec => []EventTypeOK
  <1>1. IInv => EventTypeOK BY DEF IInv
  <1> QED BY <1>1, Invariant, PTL

\* An event has one live queue element at most, the one its q_el names, and none
\* while its function runs, after it ended and after event_cancel.
THEOREM OneCallHolds == EventSpec => []OneCall
  <1>1. IInv => OneCall BY DEF IInv
  <1> QED BY <1>1, Invariant, PTL

\* Only a cancel through the stale q_el of another event makes event_process
\* forget an event that is held.
THEOREM NotForgottenHolds == EventSpec => []NotForgotten
  <1>1. IInv => NotForgotten BY DEF IInv
  <1> QED BY <1>1, Invariant, PTL

-----------------------------------------------------------------------------
(* In time *)

\* A set of naturals has a least element.
LEMMA LeastOf ==
    ASSUME NEW T \in SUBSET Nat, T # {}
    PROVE  \E m \in T : \A k \in T : m <= k
  <1> DEFINE R == {p \in Nat \X Nat : p[1] < p[2]}
  <1>1. IsWellFoundedOn(R, Nat) BY NatLessThanWellFounded, Zenon DEF OpToRel
  <1>2. T \subseteq Nat OBVIOUS
  <1> HIDE DEF R
  <1>3. PICK x \in T : \A y \in T : ~ (<<y, x>> \in R) BY <1>1, <1>2, WFMin
  <1>4. ASSUME NEW k \in T PROVE x <= k
    <2>1. ~ (<<k, x>> \in R) BY <1>3
    <2>2. k \in Nat /\ x \in Nat OBVIOUS
    <2>3. ~ (k < x) BY <2>1, <2>2 DEF R
    <2> QED BY <2>2, <2>3
  <1> QED BY <1>4

\* A set of the first numbers is as long as its cardinality.
LEMMA FirstOf ==
    ASSUME NEW n \in Nat, NEW N \in SUBSET (1 .. n),
           \A i \in N : \A j \in 1 .. i : j \in N
    PROVE  Cardinality(N) \in 0 .. n /\ N = 1 .. Cardinality(N)
  <1> DEFINE T == {k \in 1 .. n + 1 : k \notin N}
  <1>1. T \in SUBSET Nat /\ T # {}
    <2>1. n + 1 \in T OBVIOUS
    <2> QED BY <2>1
  <1>2. PICK m \in T : \A k \in T : m <= k
    <2> HIDE DEF T
    <2> QED BY <1>1, LeastOf
  <1>3. m \in 1 .. n + 1 /\ m \notin N /\ m - 1 \in Nat OBVIOUS
  <1>4. N = 1 .. m - 1
    <2>1. ASSUME NEW i \in N PROVE i \in 1 .. m - 1
      <3>1. i \in 1 .. n OBVIOUS
      <3>2. m \notin 1 .. i BY <1>3
      <3> QED BY <1>3, <3>1, <3>2
    <2>2. ASSUME NEW i \in 1 .. m - 1 PROVE i \in N
      <3>1. i \in 1 .. n + 1 /\ ~(m <= i) BY <1>3
      <3>2. i \notin T BY <1>2, <3>1
      <3> QED BY <3>1, <3>2
    <2> QED BY <2>1, <2>2
  <1>5. Cardinality(1 .. m - 1) = m - 1 BY <1>3, UpTo
  <1> QED BY <1>3, <1>4, <1>5

\* Every element is in the queue.
Complete == \A c \in Cell : owner[c] # NoEvent => \E i \in 1 .. Len(pq_queue) : pq_queue[i] = c

Sorted == \A i, j \in 1 .. Len(pq_queue) : i < j => key[pq_queue[i]] <= key[pq_queue[j]]

InTime == \A c \in Live : key[c] > pulse \/ (draining /\ key[c] = pulse)

TimeInv == Complete /\ Sorted /\ InTime

\* Enqueue finds the place in a sorted queue where what is due no later ends.
LEMMA Placed ==
    ASSUME EventTypeOK, QueueOK, Sorted, NEW e \in Event, NEW c \in Free, NEW when \in Delay,
           Enqueue(e, c, when)
    PROVE  \E n \in 0 .. Len(pq_queue) :
              /\ pq_queue' = Splice(pq_queue, c, n)
              /\ \A i \in 1 .. Len(pq_queue) :
                    (i <= n => key[pq_queue[i]] <= pulse + when)
                    /\ (i > n => key[pq_queue[i]] > pulse + when)
  <1> DEFINE due == pulse + when
             N == {i \in 1 .. Len(pq_queue) : key[pq_queue[i]] <= due}
  <1>1. /\ Len(pq_queue) \in Nat /\ due \in Nat
        /\ \A i \in 1 .. Len(pq_queue) : pq_queue[i] \in Cell /\ key[pq_queue[i]] \in Nat
    BY EventQueueAssumption DEF EventTypeOK, Delay
  <1>2. N \in SUBSET (1 .. Len(pq_queue)) OBVIOUS
  <1>3. ASSUME NEW i \in N, NEW j \in 1 .. i PROVE j \in N
    <2>1. i \in 1 .. Len(pq_queue) /\ j \in 1 .. Len(pq_queue) /\ j <= i /\ key[pq_queue[i]] <= due
      BY <1>1
    <2>2. key[pq_queue[j]] <= key[pq_queue[i]]
      <3>1. CASE j = i BY <1>1, <2>1, <3>1
      <3>2. CASE j < i BY <2>1, <3>2 DEF Sorted
      <3> QED BY <2>1, <3>1, <3>2
    <2>3. key[pq_queue[j]] <= due BY <1>1, <2>1, <2>2
    <2> QED BY <2>1, <2>3
  <1> DEFINE n == Cardinality(N)
  <1>4. n \in 0 .. Len(pq_queue) /\ N = 1 .. n
    <2> HIDE DEF N
    <2> QED BY <1>1, <1>2, <1>3, FirstOf
  <1>5. pq_queue' = Splice(pq_queue, c, n)
    BY DEF Enqueue, Insert, Splice
  <1>6. ASSUME NEW i \in 1 .. Len(pq_queue)
        PROVE  (i <= n => key[pq_queue[i]] <= due) /\ (i > n => key[pq_queue[i]] > due)
    <2>1. i \in N <=> key[pq_queue[i]] <= due OBVIOUS
    <2>2. i \in 1 .. n <=> i <= n BY <1>1, <1>4
    <2> HIDE DEF N
    <2> QED BY <1>1, <1>4, <2>1, <2>2
  <1> HIDE DEF n
  <1> QED BY <1>4, <1>5, <1>6

\* So the queue stays sorted, and the new element is due later.
LEMMA EnqueueInTime ==
    ASSUME EventTypeOK, QueueOK, TimeInv, NEW e \in Event, NEW c \in Free, NEW when \in Delay,
           Enqueue(e, c, when), Live' \subseteq Live \cup {c},
           pulse' = pulse, draining' = draining
    PROVE  TimeInv'
  <1> USE EventQueueAssumption DEF TimeInv
  <1>1. /\ c \in Cell /\ owner[c] = NoEvent
        /\ Len(pq_queue) \in Nat /\ pulse + when \in Nat /\ pulse + when > pulse
        /\ \A i \in 1 .. Len(pq_queue) : pq_queue[i] \in Cell /\ pq_queue[i] # c
                                      /\ key[pq_queue[i]] \in Nat
    BY DEF Free, EventTypeOK, QueueOK, Delay
  <1>2. PICK n \in 0 .. Len(pq_queue) :
              /\ pq_queue' = Splice(pq_queue, c, n)
              /\ \A i \in 1 .. Len(pq_queue) :
                    (i <= n => key[pq_queue[i]] <= pulse + when)
                    /\ (i > n => key[pq_queue[i]] > pulse + when)
    BY Placed
  <1>3. /\ Len(pq_queue') = Len(pq_queue) + 1
        /\ \A i \in 1 .. Len(pq_queue) + 1 :
              pq_queue'[i] = IF i <= n THEN pq_queue[i] ELSE IF i = n + 1 THEN c ELSE pq_queue[i - 1]
    <2>1. pq_queue \in Seq(Cell) BY DEF EventTypeOK
    <2>2. /\ Len(Splice(pq_queue, c, n)) = Len(pq_queue) + 1
          /\ \A i \in 1 .. Len(pq_queue) + 1 :
                Splice(pq_queue, c, n)[i] = IF i <= n THEN pq_queue[i]
                                         ELSE IF i = n + 1 THEN c ELSE pq_queue[i - 1]
      BY <1>1, <2>1, Spliced, ZenonT(30)
    <2> QED BY <1>2, <2>2, Zenon
  <1>4. key'[c] = pulse + when /\ \A d \in Cell : d # c => key'[d] = key[d]
    BY <1>1 DEF Enqueue, EventTypeOK
  <1>5. \A d \in Cell : d # c => owner'[d] = owner[d]
    BY DEF Enqueue, EventTypeOK
  <1>6. /\ \A i \in 1 .. n : i \in 1 .. Len(pq_queue) /\ pq_queue'[i] = pq_queue[i]
        /\ pq_queue'[n + 1] = c
        /\ \A i \in n + 2 .. Len(pq_queue) + 1 :
              i - 1 \in 1 .. Len(pq_queue) /\ i - 1 > n /\ pq_queue'[i] = pq_queue[i - 1]
    BY <1>1, <1>3
  <1>7. Complete'
    <2>1. ASSUME NEW d \in Cell, owner'[d] # NoEvent
          PROVE  \E i \in 1 .. Len(pq_queue') : pq_queue'[i] = d
      <3>1. CASE d = c
        <4>1. n + 1 \in 1 .. Len(pq_queue') BY <1>1, <1>3
        <4> QED BY <1>6, <3>1, <4>1
      <3>2. CASE d # c
        <4>1. PICK i \in 1 .. Len(pq_queue) : pq_queue[i] = d BY <1>5, <2>1, <3>2 DEF Complete
        <4>2. CASE i <= n
          <5>1. i \in 1 .. Len(pq_queue') /\ pq_queue'[i] = d BY <1>1, <1>3, <4>1, <4>2
          <5> QED BY <5>1
        <4>3. CASE i > n
          <5>1. i + 1 \in 1 .. Len(pq_queue') /\ i + 1 \in n + 2 .. Len(pq_queue) + 1
                /\ (i + 1) - 1 = i
            BY <1>1, <1>3, <4>1, <4>3
          <5>2. pq_queue'[i + 1] = d BY <1>6, <4>1, <5>1
          <5> QED BY <5>1, <5>2
        <4> QED BY <1>1, <4>2, <4>3
      <3> QED BY <3>1, <3>2
    <2> QED BY <2>1 DEF Complete
  <1>8. ASSUME NEW i \in 1 .. Len(pq_queue'), NEW j \in 1 .. Len(pq_queue'), i < j
        PROVE  key'[pq_queue'[i]] <= key'[pq_queue'[j]]
    <2>1. CASE j <= n
      <3>1. i \in 1 .. n /\ j \in 1 .. n BY <1>1, <1>3, <1>8, <2>1
      <3>2. key[pq_queue[i]] <= key[pq_queue[j]] BY <1>6, <1>8, <3>1 DEF Sorted
      <3> QED BY <1>1, <1>4, <1>6, <3>1, <3>2
    <2>2. CASE j = n + 1
      <3>1. i \in 1 .. n BY <1>1, <1>3, <1>8, <2>2
      <3>2. key[pq_queue[i]] <= pulse + when BY <1>2, <1>6, <3>1
      <3> QED BY <1>1, <1>4, <1>6, <2>2, <3>1, <3>2
    <2>3. CASE j > n + 1
      <3>1. j \in n + 2 .. Len(pq_queue) + 1 BY <1>1, <1>3, <2>3
      <3>2. key'[pq_queue'[j]] = key[pq_queue[j - 1]] /\ j - 1 \in 1 .. Len(pq_queue) /\ j - 1 > n
        BY <1>1, <1>4, <1>6, <3>1
      <3>3. CASE i <= n
        <4>1. i \in 1 .. n BY <1>3, <3>3
        <4>2. key'[pq_queue'[i]] = key[pq_queue[i]] /\ i \in 1 .. Len(pq_queue) /\ i < j - 1
          BY <1>1, <1>4, <1>6, <3>2, <3>3, <4>1
        <4> QED BY <3>2, <4>2 DEF Sorted
      <3>4. CASE i = n + 1
        <4>1. key[pq_queue[j - 1]] > pulse + when BY <1>2, <3>2
        <4>2. key[pq_queue[j - 1]] \in Nat BY <1>1, <3>2
        <4> QED BY <1>1, <1>4, <1>6, <3>2, <3>4, <4>1, <4>2
      <3>5. CASE i > n + 1
        <4>1. i \in n + 2 .. Len(pq_queue) + 1 BY <1>1, <1>3, <3>5
        <4>2. key'[pq_queue'[i]] = key[pq_queue[i - 1]] /\ i - 1 \in 1 .. Len(pq_queue) /\ i - 1 < j - 1
          BY <1>1, <1>3, <1>4, <1>6, <1>8, <4>1
        <4> QED BY <3>2, <4>2 DEF Sorted
      <3> QED BY <1>1, <3>3, <3>4, <3>5
    <2> QED BY <1>1, <1>3, <2>1, <2>2, <2>3
  <1>9. Sorted' BY <1>8 DEF Sorted
  <1>10. InTime' BY <1>1, <1>4 DEF InTime, Live
  <1> QED BY <1>7, <1>9, <1>10

\* What is taken from the queue is its first element.
LEMMA DequeueInTime ==
    ASSUME EventTypeOK, QueueOK, TimeInv, NEW c \in Cell, Dequeue(c),
           bCancel' = bCancel \/ bCancel' = bCancel \ {c}
    PROVE  TimeInv'
  <1> USE DEF TimeInv
  <1>1. /\ pq_queue \in Seq(Cell) /\ pq_queue # <<>> /\ c = pq_queue[1] /\ pq_queue' = Tail(pq_queue)
        /\ Len(pq_queue) \in Nat /\ Len(pq_queue) >= 1
        /\ key' = key /\ pulse' = pulse /\ draining' = draining
    BY DEF Dequeue, Due, EventTypeOK
  <1>2. Len(pq_queue') = Len(pq_queue) - 1
        /\ \A i \in 1 .. Len(pq_queue') : i + 1 \in 1 .. Len(pq_queue) /\ pq_queue'[i] = pq_queue[i + 1]
    BY <1>1
  <1>3. owner'[c] = NoEvent /\ \A d \in Cell : d # c => owner'[d] = owner[d]
    BY DEF Dequeue, EventTypeOK
  <1>4. Complete'
    <2>1. ASSUME NEW d \in Cell, owner'[d] # NoEvent
          PROVE  \E i \in 1 .. Len(pq_queue') : pq_queue'[i] = d
      <3>1. PICK i \in 1 .. Len(pq_queue) : pq_queue[i] = d BY <1>3, <2>1 DEF Complete
      <3>2. i - 1 \in 1 .. Len(pq_queue') /\ (i - 1) + 1 = i BY <1>1, <1>2, <1>3, <2>1, <3>1
      <3> QED BY <1>2, <3>1, <3>2
    <2> QED BY <2>1 DEF Complete
  <1>5. Sorted'
    <2>1. ASSUME NEW i \in 1 .. Len(pq_queue'), NEW j \in 1 .. Len(pq_queue'), i < j
          PROVE  key'[pq_queue'[i]] <= key'[pq_queue'[j]]
      <3>1. i + 1 \in 1 .. Len(pq_queue) /\ j + 1 \in 1 .. Len(pq_queue) /\ i + 1 < j + 1
        BY <1>2, <2>1
      <3> QED BY <1>1, <1>2, <3>1 DEF Sorted
    <2> QED BY <2>1 DEF Sorted
  <1>6. InTime' BY <1>1, <1>3 DEF InTime, Live
  <1> QED BY <1>4, <1>5, <1>6

\* When nothing is due at the head, nothing is due at all.
LEMMA ReturnsInTime ==
    ASSUME EventTypeOK, QueueOK, TimeInv, ProcessReturns
    PROVE  TimeInv'
  <1> USE DEF TimeInv
  <1>1. UNCHANGED <<pulse, elements>> /\ ~Due BY DEF ProcessReturns
  <1>2. Complete' /\ Sorted' BY <1>1 DEF Complete, Sorted, elements
  <1>3. ASSUME NEW c \in Live PROVE key[c] > pulse
    <2>1. PICK i \in 1 .. Len(pq_queue) : pq_queue[i] = c BY DEF Complete, Live
    <2>2. pq_queue \in Seq(Cell) /\ Len(pq_queue) \in Nat /\ pq_queue # <<>>
      <3>1. pq_queue \in Seq(Cell) /\ Len(pq_queue) \in Nat BY DEF EventTypeOK
      <3>2. Len(pq_queue) # 0 BY <2>1, <3>1
      <3> QED BY <3>1, <3>2
    <2>3. 1 \in 1 .. Len(pq_queue) /\ pq_queue[1] \in Cell /\ key[pq_queue[1]] > pulse
      <3>1. 1 \in 1 .. Len(pq_queue) BY <2>1, <2>2
      <3>2. pq_queue[1] \in Cell BY <2>2, <3>1
      <3>3. ~(key[pq_queue[1]] <= pulse) BY <1>1, <2>2 DEF Due
      <3>4. key[pq_queue[1]] \in Nat /\ pulse \in Nat BY <3>2, EventQueueAssumption DEF EventTypeOK
      <3> QED BY <3>1, <3>2, <3>3, <3>4
    <2>4. key[pq_queue[1]] <= key[c]
      <3>1. CASE i = 1 BY <2>1, <2>3, <3>1 DEF EventTypeOK
      <3>2. CASE 1 < i BY <2>1, <2>3, <3>2 DEF Sorted
      <3> QED BY <2>1, <2>2, <3>1, <3>2
    <2> QED BY <2>3, <2>4, EventQueueAssumption DEF EventTypeOK, Live
  <1>4. Live' = Live BY <1>1 DEF Live, elements
  <1>5. InTime' BY <1>1, <1>3, <1>4 DEF InTime, elements
  <1> QED BY <1>2, <1>5

LEMMA NextInTime == IInv /\ TimeInv /\ [EventNext]_eventVars => TimeInv'
  <1> SUFFICES ASSUME IInv, TimeInv, [EventNext]_eventVars PROVE TimeInv' OBVIOUS
  <1> USE DEF IInv
  <1>1. CASE Heartbeat
    <2>1. UNCHANGED <<elements>> /\ ~draining /\ pulse' = pulse + 1 /\ draining'
      BY <1>1 DEF Heartbeat
    <2>2. Complete' /\ Sorted' BY <2>1 DEF TimeInv, Complete, Sorted, elements
    <2>3. Live' = Live /\ key' = key BY <2>1 DEF Live, elements
    <2>4. \A c \in Live : key[c] \in Nat /\ pulse \in Nat /\ key[c] > pulse
      BY <2>1, EventQueueAssumption DEF TimeInv, InTime, EventTypeOK, Live
    <2>5. InTime' BY <2>1, <2>3, <2>4 DEF InTime
    <2> QED BY <2>2, <2>5 DEF TimeInv
  <1>2. CASE ProcessReturns BY <1>2, ReturnsInTime
  <1>3. ASSUME NEW c \in Cell, Skip(c) \/ Call(c) \/ CallWithoutInfo(c) PROVE TimeInv'
    <2>1. Dequeue(c) /\ (bCancel' = bCancel \/ bCancel' = bCancel \ {c})
      BY <1>3 DEF Skip, Call, CallWithoutInfo
    <2> QED BY <2>1, DequeueInTime
  <1>4. ASSUME NEW e \in Event, event_cancel(e) PROVE TimeInv'
    <2>1. UNCHANGED <<pulse, draining, pq_queue, owner, key>> /\ bCancel \subseteq bCancel'
      BY <1>4 DEF event_cancel, CancelElement
    <2> QED BY <2>1 DEF TimeInv, Complete, Sorted, InTime, Live
  <1>5. ASSUME NEW e \in Event, Forget(e) PROVE TimeInv'
    BY <1>5 DEF Forget, elements, TimeInv, Complete, Sorted, InTime, Live
  <1>6. ASSUME NEW e \in Event, NEW when \in Delay, event_create(e, when) PROVE TimeInv'
    <2>1. PICK c \in Free : Enqueue(e, c, when) /\ bCancel' = bCancel \ {c}
      BY <1>6 DEF event_create
    <2>2. Live' \subseteq Live \cup {c} BY <2>1 DEF Live, Enqueue, EventTypeOK
    <2>3. pulse' = pulse /\ draining' = draining BY <1>6 DEF event_create
    <2> QED BY <2>1, <2>2, <2>3, EnqueueInTime
  <1>7. ASSUME NEW e \in Event, NEW when \in Delay, event_reset_time(e, when) PROVE TimeInv'
    <2>1. PICK c \in Free : Enqueue(e, c, when) /\ bCancel' = OldBeforeNew(e, c)
      BY <1>7 DEF event_reset_time
    <2>2. Live' \subseteq Live \cup {c}
      BY <2>1 DEF Live, Enqueue, EventTypeOK, OldBeforeNew, CancelElement
    <2>3. pulse' = pulse /\ draining' = draining BY <1>7 DEF event_reset_time
    <2> QED BY <2>1, <2>2, <2>3, EnqueueInTime
  <1>8. ASSUME NEW e \in Event, NEW new_time, Return(e, new_time) PROVE TimeInv'
    BY <1>8 DEF Return, elements, TimeInv, Complete, Sorted, InTime, Live
  <1>9. ASSUME NEW e \in Event, NEW new_time \in Delay \cup {0}, ReturnAgain(e, new_time)
        PROVE  TimeInv'
    <2>0. new_time \in Delay BY <1>9 DEF ReturnAgain, Ends
    <2>1. PICK c \in Free : Enqueue(e, c, new_time) /\ bCancel' = bCancel \ {c}
      BY <1>9 DEF ReturnAgain
    <2>2. Live' \subseteq Live \cup {c} BY <2>1 DEF Live, Enqueue, EventTypeOK
    <2>3. pulse' = pulse /\ draining' = draining BY <1>9 DEF ReturnAgain
    <2> QED BY <2>0, <2>1, <2>2, <2>3, EnqueueInTime
  <1>10. CASE UNCHANGED eventVars
    BY <1>10 DEF eventVars, elements, TimeInv, Complete, Sorted, InTime, Live
  <1> QED BY <1>1, <1>2, <1>3, <1>4, <1>5, <1>6, <1>7, <1>8, <1>9, <1>10 DEF EventNext

\* Every event is called at the pulse it was set to, neither missed by a return
\* of event_process nor kept behind elements that are due later.
THEOREM OnTimeHolds == EventSpec => []OnTime
  <1>1. EventInit => TimeInv BY EventQueueAssumption DEF EventInit, TimeInv, Complete, Sorted, InTime, Live
  <1>2. EventSpec => []TimeInv BY <1>1, Invariant, NextInTime, PTL DEF EventSpec
  <1>3. TimeInv => OnTime BY DEF TimeInv, Sorted, InTime, OnTime
  <1> QED BY <1>2, <1>3, PTL
=============================================================================
