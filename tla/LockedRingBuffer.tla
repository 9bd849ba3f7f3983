-------------------------- MODULE LockedRingBuffer --------------------------
(* The bounded FIFO of ksync that every component of the repository puts    *)
(* between its callers, its client library and its own goroutines.  The     *)
(* queue is not part of the repository: these operators say what its users  *)
(* rely on.  Each operation of the queue runs under the queue's lock, so a  *)
(* component calls it in one step.  The state of a queue is a sequence of   *)
(* at most cap elements and a flag telling that Close was called.           *)
EXTENDS Naturals, Sequences, Functions

\* What the queue holds, in no order.
Elements(q) == Range(q)

\* TryEnqueue succeeds, and Enqueue does not block or fail: an open queue
\* with a free slot.
Accepts(q, closed, cap) == ~closed /\ Len(q) < cap

\* DequeueTo, TryDequeueTo and DequeueToWait fill a buffer of n slots with the
\* oldest elements...
Taken(q, n) == SubSeq(q, 1, IF n < Len(q) THEN n ELSE Len(q))

\* ...and leave the others, in order.
Left(q, n) == SubSeq(q, (IF n < Len(q) THEN n ELSE Len(q)) + 1, Len(q))

\* The isValid result of the Try operations is FALSE: nothing is left and
\* nothing will come.
Drained(q, closed) == closed /\ q = << >>
=============================================================================
