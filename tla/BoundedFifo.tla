---------------------------- MODULE BoundedFifo ----------------------------
(***************************************************************************)
(* What a ThreadSafeQueue promises its users (include/thread_safe_queue.h), *)
(* with no mutex, condition variable or thread in sight: a channel that     *)
(* accepts items until it is closed, holds at most Capacity of them, hands  *)
(* every accepted item over exactly once and in the order of acceptance,    *)
(* and still hands over what it holds after it was closed.                  *)
(***************************************************************************)
EXTENDS Naturals, Sequences

CONSTANTS Item,       \* what may be sent
          Capacity    \* how many accepted items may wait to be received

VARIABLES accepted,   \* the items accepted so far, in order
          received,   \* the items handed over so far, in order
          closed      \* no further item is accepted

vars == <<accepted, received, closed>>

Init == /\ accepted = <<>>
        /\ received = <<>>
        /\ closed = FALSE

\* An item is accepted: only while open and below capacity.
Send(x) == /\ ~closed
           /\ Len(accepted) < Len(received) + Capacity
           /\ accepted' = Append(accepted, x)
           /\ UNCHANGED <<received, closed>>

\* The oldest item not yet handed over is handed over.
Receive == /\ Len(received) < Len(accepted)
           /\ received' = Append(received, accepted[Len(received) + 1])
           /\ UNCHANGED <<accepted, closed>>

Close == /\ closed' = TRUE
         /\ UNCHANGED <<accepted, received>>

Next == \/ \E x \in Item : Send(x)
        \/ Receive
        \/ Close

Spec == Init /\ [][Next]_vars
=============================================================================
