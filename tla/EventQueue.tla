----------------------------- MODULE EventQueue -----------------------------
(***************************************************************************)
(* Timer events of the game core (game/src/event.cpp, event_queue.cpp): an *)
(* event is created with a delay, called when its pulse has come, called   *)
(* again as long as its function returns a delay, and meanwhile cancelled  *)
(* or reset by whoever holds a pointer to it, its own function included.   *)
(*                                                                         *)
(* A queue element is named by the memory cell it is allocated in, because *)
(* an event keeps the address of an element that has been deleted: what is *)
(* written through it reaches whatever lives in the cell then.  An event   *)
(* has one holder, the member variable it was assigned to.                 *)
(***************************************************************************)
EXTENDS Integers, FiniteSets, Sequences, SequencesExt

CONSTANTS
    Event, NoEvent,
    Cell, NoCell,       \* memory for TQueueElement, NULL
    NoInfo,             \* events created without an info
    MaxDelay, MaxPulse  \* bounds

ASSUME EventQueueAssumption ==
    /\ NoEvent \notin Event /\ NoCell \notin Cell
    /\ NoInfo \subseteq Event
    /\ IsFiniteSet(Event) /\ IsFiniteSet(Cell)
    /\ MaxDelay \in Nat \ {0} /\ MaxPulse \in Nat

VARIABLES
    pulse,
    draining,           \* event_process has not returned
    running,            \* the event whose function is running
    \* the queue and its elements
    pq_queue,           \* cells, the next to be called first
    owner,              \* pvData; NoEvent in a cell that is free
    key,                \* iKey
    bCancel,            \* cells
    \* the events
    q_el,
    is_processing, is_force_to_end,
    held,               \* events whose holder has the pointer
    \* history
    called_off,         \* events that were cancelled
    struck              \* events whose element was cancelled through a stale q_el

elements == <<pq_queue, owner, key, bCancel>>
events == <<q_el, is_processing, is_force_to_end, held>>
eventVars == <<pulse, draining, running, elements, events, called_off, struck>>

Delay == 1 .. MaxDelay

EventTypeOK ==
    /\ pulse \in 0 .. MaxPulse
    /\ draining \in BOOLEAN
    /\ running \in Event \cup {NoEvent}
    /\ pq_queue \in Seq(Cell)
    /\ owner \in [Cell -> Event \cup {NoEvent}]
    /\ key \in [Cell -> Nat]
    /\ bCancel \subseteq Cell
    /\ q_el \in [Event -> Cell \cup {NoCell}]
    /\ is_processing \subseteq Event /\ is_force_to_end \subseteq Event
    /\ held \subseteq Event
    /\ called_off \subseteq Event /\ struck \subseteq Event

EventInit ==
    /\ pulse = 0 /\ draining = FALSE /\ running = NoEvent
    /\ pq_queue = <<>> /\ owner = [c \in Cell |-> NoEvent] /\ key = [c \in Cell |-> 0]
    /\ bCancel = {}
    /\ q_el = [e \in Event |-> NoCell] /\ is_processing = {} /\ is_force_to_end = {}
    /\ held = {} /\ called_off = {} /\ struck = {}

-----------------------------------------------------------------------------
Free == {c \in Cell : owner[c] = NoEvent}

\* Elements that will call their event.
Live == {c \in Cell : owner[c] # NoEvent /\ c \notin bCancel}

\* Nobody points at the event: it is deleted.
Gone(e) == e \notin held /\ e # running /\ \A c \in Cell : owner[c] # e

\* Code outside event_process runs between two pulses, or it is called by the
\* function of an event.
MayAct == draining => running # NoEvent

\* stable_priority_queue::push: behind the elements that are due no later.
Insert(q, c, due) ==
    LET n == Cardinality({i \in 1 .. Len(q) : key[q[i]] <= due})
    IN  SubSeq(q, 1, n) \o <<c>> \o SubSeq(q, n + 1, Len(q))

\* mutant: at the end of the queue
AppendElement(e, c, when) ==
    /\ owner' = [owner EXCEPT ![c] = e]
    /\ key' = [key EXCEPT ![c] = pulse + when]
    /\ pq_queue' = Append(pq_queue, c)

\* CEventQueue::Enqueue, in any free cell c.
Enqueue(e, c, when) ==
    /\ owner' = [owner EXCEPT ![c] = e]
    /\ key' = [key EXCEPT ![c] = pulse + when]
    /\ pq_queue' = Insert(pq_queue, c, pulse + when)

event_create(e, when) ==
    /\ MayAct /\ Gone(e)
    /\ \E c \in Free :
          /\ Enqueue(e, c, when)
          /\ bCancel' = bCancel \ {c}
          /\ q_el' = [q_el EXCEPT ![e] = c]
    /\ is_processing' = is_processing \ {e}
    /\ is_force_to_end' = is_force_to_end \ {e}
    /\ held' = held \cup {e}
    /\ called_off' = called_off \ {e} /\ struck' = struck \ {e}
    /\ UNCHANGED <<pulse, draining, running>>

\* The holder goes away or is given another event, without a cancel.
Forget(e) ==
    /\ MayAct /\ e \in held
    /\ held' = held \ {e}
    /\ UNCHANGED <<pulse, draining, running, elements, q_el, is_processing,
                   is_force_to_end, called_off, struck>>

\* bCancel is set through q_el, if there is one.
CancelElement(e) ==
    bCancel \cup (IF q_el[e] = NoCell THEN {} ELSE {q_el[e]})

\* The other events that this cancels: their element is now in the cell.
Strikes(e) == {f \in Event \ {e} : \E c \in Live : c = q_el[e] /\ owner[c] = f}

\* An event that is being called, or was called for the last time, is forced to
\* end; its element is deleted already.
event_cancel(e) ==
    /\ MayAct /\ e \in held
    /\ bCancel' = CancelElement(e)
    /\ is_force_to_end' = IF e \in is_processing THEN is_force_to_end \cup {e} ELSE is_force_to_end
    /\ held' = held \ {e}
    /\ called_off' = called_off \cup {e} /\ struck' = struck \cup Strikes(e)
    /\ UNCHANGED <<pulse, draining, running, pq_queue, owner, key, q_el, is_processing>>

\* mutant: the new element is taken for the old one
OldAfterNew(e, c) == bCancel \cup {c}

\* The old element is cancelled; the flag of the new one is clear.
OldBeforeNew(e, c) == CancelElement(e) \ {c}

\* Ignored for an event that is being called or was called for the last time.
event_reset_time(e, when) ==
    /\ MayAct /\ e \in held /\ e \notin is_processing
    /\ \E c \in Free :
          /\ Enqueue(e, c, when)
          /\ bCancel' = OldBeforeNew(e, c)
          /\ q_el' = [q_el EXCEPT ![e] = c]
    /\ struck' = (struck \cup Strikes(e)) \ {e}
    /\ UNCHANGED <<pulse, draining, running, is_processing, is_force_to_end, held, called_off>>

-----------------------------------------------------------------------------
(* event_process *)

Heartbeat ==
    /\ ~draining /\ pulse < MaxPulse
    /\ pulse' = pulse + 1 /\ draining' = TRUE
    /\ UNCHANGED <<running, elements, events, called_off, struck>>

Due == pq_queue # <<>> /\ key[Head(pq_queue)] <= pulse

\* The first element leaves the queue and is deleted.
Dequeue(c) ==
    /\ draining /\ running = NoEvent
    /\ Due /\ c = Head(pq_queue)
    /\ pq_queue' = Tail(pq_queue)
    /\ owner' = [owner EXCEPT ![c] = NoEvent]
    /\ UNCHANGED <<pulse, draining, key, is_force_to_end, held, called_off, struck>>

Skip(c) ==
    /\ c \in bCancel /\ Dequeue(c)
    /\ bCancel' = bCancel \ {c}
    /\ UNCHANGED <<running, q_el, is_processing>>

\* The event keeps the address of the element while its function runs.
Call(c) ==
    /\ c \notin bCancel /\ owner[c] \notin NoInfo /\ Dequeue(c)
    /\ running' = owner[c]
    /\ is_processing' = is_processing \cup {owner[c]}
    /\ UNCHANGED <<bCancel, q_el>>

CallWithoutInfo(c) ==
    /\ c \notin bCancel /\ owner[c] \in NoInfo /\ Dequeue(c)
    /\ q_el' = [q_el EXCEPT ![owner[c]] = NoCell]
    /\ is_processing' = is_processing \cup {owner[c]}
    /\ UNCHANGED <<running, bCancel>>

\* mutant: what the function returns decides alone
EndsUnforced(e, new_time) == new_time = 0

Ends(e, new_time) == new_time = 0 \/ e \in is_force_to_end

\* is_processing stays set, so that a reset is ignored.
Return(e, new_time) ==
    /\ running = e /\ running' = NoEvent
    /\ Ends(e, new_time)
    /\ q_el' = [q_el EXCEPT ![e] = NoCell]
    /\ UNCHANGED <<pulse, draining, elements, is_processing, is_force_to_end, held,
                   called_off, struck>>

ReturnAgain(e, new_time) ==
    /\ running = e /\ running' = NoEvent
    /\ ~Ends(e, new_time)
    /\ \E c \in Free :
          /\ Enqueue(e, c, new_time)
          /\ bCancel' = bCancel \ {c}
          /\ q_el' = [q_el EXCEPT ![e] = c]
    /\ is_processing' = is_processing \ {e}
    /\ struck' = struck \ {e}
    /\ UNCHANGED <<pulse, draining, is_force_to_end, held, called_off>>

ProcessReturns ==
    /\ draining /\ running = NoEvent /\ ~Due
    /\ draining' = FALSE
    /\ UNCHANGED <<pulse, running, elements, events, called_off, struck>>

EventNext ==
    \/ Heartbeat \/ ProcessReturns
    \/ \E c \in Cell : Skip(c) \/ Call(c) \/ CallWithoutInfo(c)
    \/ \E e \in Event :
          \/ event_cancel(e) \/ Forget(e)
          \/ \E when \in Delay : event_create(e, when) \/ event_reset_time(e, when)
          \/ \E new_time \in Delay \cup {0} : Return(e, new_time) \/ ReturnAgain(e, new_time)

EventSpec == EventInit /\ [][EventNext]_eventVars

-----------------------------------------------------------------------------
(* Properties *)

\* An event is in the queue once at most, and only while it is neither being
\* called nor over nor cancelled: whatever its own function and those of other
\* events do to it meanwhile, no call is left behind.
OneCall ==
    \A c \in Live :
        /\ q_el[owner[c]] = c
        /\ owner[c] \notin is_processing /\ owner[c] \notin called_off

\* An event that somebody still holds and that is not over will be called,
\* unless its element was cancelled through the stale pointer of another event.
NotForgotten ==
    \A e \in held :
        e \in is_processing \/ e \in struck \/ \E c \in Live : owner[c] = e

\* An event is called at its pulse: nothing that is due is left when
\* event_process returns, and nothing waits behind what is due later.
OnTime ==
    /\ \A c \in Live : key[c] > pulse \/ (draining /\ key[c] = pulse)
    /\ \A i, j \in 1 .. Len(pq_queue) : i < j => key[pq_queue[i]] <= key[pq_queue[j]]
=============================================================================
