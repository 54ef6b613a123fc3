----------------------------- MODULE SQLService -----------------------------
(***************************************************************************)
(* What a threaded CAsyncSQL connection promises its daemon: statements    *)
(* are served one at a time in the order they were submitted, each once.   *)
(* The connection closes once; what the closing drops is a prefix of what  *)
(* was pending, and nothing already served is served again.                *)
(***************************************************************************)
EXTENDS Naturals, Sequences

VARIABLES issued,   \* statements submitted so far; they are numbered from 1
          pending,  \* submitted and not yet served, oldest first
          served,   \* the service history
          closed

vars == <<issued, pending, served, closed>>

Init == issued = 0 /\ pending = <<>> /\ served = <<>> /\ closed = FALSE

Submit ==
  /\ issued' = issued + 1
  /\ pending' = Append(pending, issued')
  /\ UNCHANGED <<served, closed>>

Serve ==
  /\ pending # <<>>
  /\ served' = Append(served, Head(pending))
  /\ pending' = Tail(pending)
  /\ UNCHANGED <<issued, closed>>

Close ==
  /\ ~closed
  /\ closed' = TRUE
  /\ \E k \in 0..Len(pending) : pending' = SubSeq(pending, k + 1, Len(pending))
  /\ UNCHANGED <<issued, served>>

Next == Submit \/ Serve \/ Close

Spec == Init /\ [][Next]_vars
=============================================================================
