------------------------------ MODULE AsyncSQL ------------------------------
(***************************************************************************)
(* One threaded connection of libsql (class CAsyncSQL).  The main thread   *)
(* of a daemon queues statements and collects results; a worker thread     *)
(* moves the queue to a private copy, executes it statement by statement   *)
(* and pushes the answers of the ReturnQuery statements.                   *)
(*                                                                         *)
(* A statement is reduced to its serial number and its bReturn flag.       *)
(* MySQL answers a statement with "ok", "error" (an errno the worker gives *)
(* up on) or "retry" (one of the errnos of the two switch statements).     *)
(***************************************************************************)
EXTENDS Naturals, Sequences

CONSTANTS MaxMsg,      \* bound: statements the main thread queues
          MaxFault,    \* bound: "retry" answers MySQL gives
          SemMax       \* ceiling of the semaphore: 32 in the Windows build

ASSUME AsyncSQLAssumption ==
  /\ MaxMsg \in Nat /\ MaxFault \in Nat
  /\ SemMax \in Nat \ {0}

VARIABLES
  iMsgCount,  \* last serial number given out
  queue,      \* m_queue_query, guarded by m_mtxQuery
  copy,       \* m_queue_query_copy, private to the worker
  result,     \* m_queue_result, guarded by m_mtxResult
  sem,        \* m_sem
  bEnd,       \* m_bEnd
  connected,  \* m_bConnected
  count,      \* ChildLoop's local: iterations left in this batch
  pc,         \* where the worker is
  main,       \* main thread: "run", "quit", "join", "gone"
  done,       \* history: statements MySQL has taken, in order
  popped,     \* history: results the main thread has collected
  faults      \* history: the statements answered "retry", in order

vars == <<iMsgCount, queue, copy, result, sem, bEnd, connected, count,
          pc, main, done, popped, faults>>

workerVars == <<copy, connected, count, pc, done, faults>>
mainVars   == <<iMsgCount, main, popped>>

Msg    == [id : 1..MaxMsg, ret : BOOLEAN]
Answer == [id : 1..MaxMsg, ret : BOOLEAN, ok : BOOLEAN]

\* CSemaphore::Release(1); the Windows build ignores a release at the ceiling.
Release(s) == IF s < SemMax THEN s + 1 ELSE s

Init ==
  /\ iMsgCount = 0 /\ queue = <<>> /\ copy = <<>> /\ result = <<>>
  /\ sem = 0 /\ bEnd = FALSE /\ connected = FALSE /\ count = 0
  /\ pc = "connect" /\ main = "run"
  /\ done = <<>> /\ popped = <<>> /\ faults = <<>>

-----------------------------------------------------------------------------
(* The main thread. *)

PushQueryUnsignalled(m) ==   \* mutant
  /\ queue' = Append(queue, m)
  /\ sem' = sem

PushQuery(m) ==
  /\ queue' = Append(queue, m)
  /\ sem' = Release(sem)

\* AsyncQuery (ret = FALSE) and ReturnQuery (ret = TRUE).
Query(ret) ==
  /\ main = "run"
  /\ iMsgCount < MaxMsg
  /\ iMsgCount' = iMsgCount + 1
  /\ PushQuery([id |-> iMsgCount', ret |-> ret])
  /\ UNCHANGED <<workerVars, result, bEnd, main, popped>>

PopResult ==
  /\ main = "run"
  /\ result # <<>>
  /\ popped' = Append(popped, Head(result))
  /\ result' = Tail(result)
  /\ UNCHANGED <<workerVars, iMsgCount, queue, sem, bEnd, main>>

\* Quit raises m_bEnd, releases the semaphore and joins the worker.
QuitFlag ==
  /\ main = "run"
  /\ main' = "quit"
  /\ bEnd' = TRUE
  /\ UNCHANGED <<workerVars, iMsgCount, queue, result, sem, popped>>

QuitUnsignalled ==   \* mutant
  /\ main = "quit"
  /\ main' = "join"
  /\ UNCHANGED <<workerVars, iMsgCount, queue, result, sem, bEnd, popped>>

QuitRelease ==
  /\ main = "quit"
  /\ main' = "join"
  /\ sem' = Release(sem)
  /\ UNCHANGED <<workerVars, iMsgCount, queue, result, bEnd, popped>>

QuitJoin ==
  /\ main = "join"
  /\ pc = "ended"
  /\ main' = "gone"
  /\ UNCHANGED <<workerVars, iMsgCount, queue, result, sem, bEnd, popped>>

-----------------------------------------------------------------------------
(* The worker thread: AsyncSQLThread and ChildLoop. *)

\* A connection that fails ends the thread; Setup has already returned true.
Connect ==
  /\ pc = "connect"
  /\ connected' \in BOOLEAN
  /\ pc' = IF connected' THEN "loop" ELSE "ended"
  /\ UNCHANGED <<mainVars, queue, copy, result, sem, bEnd, count, done, faults>>

TestEndNoDrain ==   \* mutant
  /\ pc = "loop"
  /\ pc' = IF bEnd THEN "ended" ELSE "wait"
  /\ UNCHANGED <<mainVars, connected, queue, copy, result, sem, bEnd, count, done, faults>>

\* while (!m_bEnd)
TestEnd ==
  /\ pc = "loop"
  /\ pc' = IF bEnd THEN "drain" ELSE "wait"
  /\ UNCHANGED <<mainVars, connected, queue, copy, result, sem, bEnd, count, done, faults>>

SemWait ==
  /\ pc = "wait"
  /\ sem > 0
  /\ sem' = sem - 1
  /\ pc' = "copy"
  /\ UNCHANGED <<mainVars, connected, queue, copy, result, bEnd, count, done, faults>>

CopyBatch(n) ==
  /\ pc = "copy"
  /\ copy' = copy \o queue
  /\ queue' = <<>>
  /\ IF queue = <<>> THEN pc' = "loop" /\ count' = count
                     ELSE pc' = "batch" /\ count' = n
  /\ UNCHANGED <<mainVars, connected, result, sem, bEnd, done, faults>>

CopyQueryShort == CopyBatch(Len(copy \o queue) - 1)   \* mutant

\* CopyQuery answers -1 on an empty queue, whatever the copy still holds;
\* otherwise the batch is all of the copy.
CopyQuery == CopyBatch(Len(copy \o queue))

\* The statement m was executed: the answer of a ReturnQuery is pushed.
Finish(m, ok) ==
  LET a == [id |-> m.id, ret |-> m.ret, ok |-> ok]
  IN  /\ done' = Append(done, a)
      /\ result' = IF m.ret THEN Append(result, a) ELSE result

BatchDone ==
  /\ pc = "batch"
  /\ count = 0
  /\ pc' = "loop"
  /\ UNCHANGED <<mainVars, connected, queue, copy, result, sem, bEnd, count, done, faults>>

BatchExec(ok) ==
  /\ pc = "batch"
  /\ count > 0
  /\ copy # <<>>
  /\ count' = count - 1
  /\ Finish(Head(copy), ok)
  /\ copy' = Tail(copy)
  /\ UNCHANGED <<mainVars, connected, queue, sem, bEnd, pc, faults>>

BatchRequeue ==   \* mutant
  /\ pc = "batch"
  /\ count > 0
  /\ copy # <<>>
  /\ Len(faults) < MaxFault
  /\ faults' = Append(faults, Head(copy).id)
  /\ copy' = Append(Tail(copy), Head(copy))
  /\ UNCHANGED <<mainVars, connected, queue, result, sem, bEnd, count, pc, done>>

\* `continue' after a retryable errno: the iteration is spent, the head stays.
BatchRetry ==
  /\ pc = "batch"
  /\ count > 0
  /\ copy # <<>>
  /\ Len(faults) < MaxFault
  /\ faults' = Append(faults, Head(copy).id)
  /\ count' = count - 1
  /\ sem' = Release(sem)
  /\ UNCHANGED <<mainVars, connected, queue, copy, result, bEnd, pc, done>>

DrainExec(ok) ==
  /\ pc = "drain"
  /\ queue # <<>>
  /\ Finish(Head(queue), ok)
  /\ queue' = Tail(queue)
  /\ UNCHANGED <<mainVars, connected, copy, sem, bEnd, count, pc, faults>>

DrainRetry ==
  /\ pc = "drain"
  /\ queue # <<>>
  /\ Len(faults) < MaxFault
  /\ faults' = Append(faults, Head(queue).id)
  /\ UNCHANGED <<mainVars, connected, queue, copy, result, sem, bEnd, count, pc, done>>

DrainDone ==
  /\ pc = "drain"
  /\ queue = <<>>
  /\ pc' = "ended"
  /\ UNCHANGED <<mainVars, connected, queue, copy, result, sem, bEnd, count, done, faults>>

-----------------------------------------------------------------------------
Quit == QuitFlag \/ QuitRelease \/ QuitJoin

Main == (\E ret \in BOOLEAN : Query(ret)) \/ PopResult \/ Quit

Drain == (\E ok \in BOOLEAN : DrainExec(ok)) \/ DrainRetry \/ DrainDone

Worker ==
  \/ Connect \/ TestEnd \/ SemWait \/ CopyQuery
  \/ BatchDone \/ (\E ok \in BOOLEAN : BatchExec(ok)) \/ BatchRetry
  \/ Drain

Next == Main \/ Worker

Spec == Init /\ [][Next]_vars

\* The scheduler runs a thread that can run, and a Quit that was begun goes on.
FairSpec == Spec /\ WF_vars(Worker) /\ WF_vars(QuitRelease \/ QuitJoin)

-----------------------------------------------------------------------------
Ids(s) == [i \in 1..Len(s) |-> s[i].id]

\* The statements of s carry the numbers that follow k, in order.
NumberedAfter(s, k) == \A i \in 1..Len(s) : s[i].id = k + i

Stopped == pc \in {"drain", "ended"}

TypeOK ==
  /\ iMsgCount \in 0..MaxMsg
  /\ queue \in Seq(Msg) /\ copy \in Seq(Msg)
  /\ result \in Seq(Answer) /\ done \in Seq(Answer) /\ popped \in Seq(Answer)
  /\ sem \in 0..SemMax
  /\ bEnd \in BOOLEAN /\ connected \in BOOLEAN
  /\ count \in Nat
  /\ pc \in {"connect", "loop", "wait", "copy", "batch", "drain", "ended"}
  /\ main \in {"run", "quit", "join", "gone"}
  /\ faults \in Seq(1..MaxMsg) /\ Len(faults) <= MaxFault

\* Until the worker leaves its loop, every statement ever queued is executed,
\* in the copy or in the queue, once and in the order it was queued: a retried
\* statement is neither overtaken, repeated nor dropped.
Conservation ==
  ~Stopped =>
    /\ iMsgCount = Len(done) + Len(copy) + Len(queue)
    /\ NumberedAfter(done, 0)
    /\ NumberedAfter(copy, Len(done))
    /\ NumberedAfter(queue, Len(done) + Len(copy))

\* No lost wake-up: a worker about to sleep on m_sem finds it raised while
\* statements are queued, even where the semaphore saturates at SemMax, and
\* so does a worker asleep when the main thread joins it.
NoLostWakeup ==
  /\ queue # <<>> /\ pc \in {"loop", "wait"} => sem > 0
  /\ main = "join" /\ pc = "wait" => sem > 0

\* The loop counter never runs past the copy: PeekQueryFromCopyQueue in the
\* batch loop always finds a statement, whatever mix of retries came before.
BatchCovered == pc = "batch" => count <= Len(copy)

\* A shutdown after an undisturbed life of the connection loses nothing: what
\* was queued when Quit was called has been executed when the thread is joined.
CleanShutdown ==
  pc = "ended" /\ bEnd /\ connected /\ faults = <<>>
    => Len(done) = iMsgCount /\ NumberedAfter(done, 0)

\* Quit comes back: the join succeeds.
QuitReturns == main = "quit" ~> main = "gone"

\* With no retryable error and a connection, each statement is executed.  After such an
\* error the log says "AsyncSQL: retrying", but the statement waits for another one to be
\* queued, and Quit drops it.
Served ==
  \A n \in 1..MaxMsg :
    iMsgCount = n ~> \/ Len(done) >= n
                     \/ faults # <<>>
                     \/ pc = "ended" /\ ~connected

\* The connection implements the service it promises.
Service == INSTANCE SQLService WITH
  issued  <- iMsgCount,
  pending <- Ids(IF Stopped THEN queue ELSE copy \o queue),
  served  <- Ids(done),
  closed  <- Stopped

ImplementsService == Service!Spec
=============================================================================
