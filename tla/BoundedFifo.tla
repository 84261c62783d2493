------------------------------ MODULE BoundedFifo ------------------------------
(***************************************************************************)
(* What the rings of the shared memory promise their two ends: a queue of  *)
(* bounded length, first in, first out, nothing twice, nothing invented.   *)
(***************************************************************************)
EXTENDS Naturals, Sequences

CONSTANTS Values, Capacity, Zero

VARIABLES
  queue,   \* what was pushed and not popped
  out      \* what the last successful pop returned

Init == queue = <<>> /\ out = Zero

Put(v) == Len(queue) < Capacity /\ queue' = Append(queue, v) /\ UNCHANGED out

Take == queue # <<>> /\ out' = Head(queue) /\ queue' = Tail(queue)

Next == Take \/ \E v \in Values : Put(v)

Spec == Init /\ [][Next]_<<queue, out>>

=============================================================================
