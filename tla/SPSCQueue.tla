------------------------------- MODULE SPSCQueue -------------------------------
(***************************************************************************)
(* The ring of one producer and one consumer                               *)
(* (src/SHMServer/SPSCQueue.hpp): each direction of a shared memory        *)
(* channel, and the queues between a process and its channel thread.       *)
(*                                                                         *)
(* Each end stores its own index with release and loads the other's with   *)
(* acquire.  Such a load may return any value the other end has stored     *)
(* since the one it returned last (seenHead, seenTail), and makes visible  *)
(* what was copied before that store.  A memcpy is not atomic: while it    *)
(* runs, the slot it writes is Torn.                                       *)
(***************************************************************************)
EXTENDS Integers, Sequences

CONSTANTS
  Values,   \* messages
  N,        \* the number of slots; one of them is always free
  Zero,     \* the content of a slot after Reset
  Torn      \* the content of a slot that is being written

ASSUME SizeAssumption == N \in Nat \ {0} /\ Torn \notin Values

VARIABLES
  data,        \* m_Data
  head,        \* m_Head
  tail,        \* m_Tail
  seenHead,    \* the head the producer loaded last
  seenTail,    \* the tail the consumer loaded last
  push, pop,   \* where the producer and the consumer are
  out          \* what the last successful Pop returned

vars == <<data, head, tail, seenHead, seenTail, push, pop, out>>

Indices == 0 .. N - 1

\* Mutant: the index is not masked.
Unmasked(i) == i

\* i & (N - 1), for the sums of two indices.
Wrap(i) == IF i < N THEN i ELSE i - N

\* How many steps lead from index i to index j.
Distance(i, j) == IF i <= j THEN j - i ELSE j - i + N

\* What a load may return: the last value seen, or one stored since.
Loads(seen, stored) == {i \in Indices : Distance(seen, i) <= Distance(seen, stored)}

Idle            == [pc |-> "idle"]
Copying(v)      == [pc |-> "copy", value |-> v]
Storing(v)      == [pc |-> "store", value |-> v]

\* What is between the two indices, oldest first.
Contents == [n \in 1 .. Distance(head, tail) |-> data[Wrap(head + n - 1)]]

Reset ==
  /\ data = [i \in Indices |-> Zero]
  /\ head = 0 /\ tail = 0

Init ==
  /\ Reset
  /\ seenHead = 0 /\ seenTail = 0
  /\ push = Idle /\ pop = Idle
  /\ out = Zero

-----------------------------------------------------------------------------
(* The producer.                                                           *)

\* Mutant: the last slot is used too.
NeverFull(next, h) == FALSE

Full(next, h) == next = h

\* Push returns false when it finds the queue full, else it begins to copy.
PushBegin(v) ==
  /\ push = Idle
  /\ seenHead' \in Loads(seenHead, head)
  /\ IF Full(Wrap(tail + 1), seenHead')
     THEN UNCHANGED <<push, data>>
     ELSE push' = Copying(v) /\ data' = [data EXCEPT ![tail] = Torn]
  /\ UNCHANGED <<head, tail, seenTail, pop, out>>

PushCopied ==
  /\ push.pc = "copy"
  /\ data' = [data EXCEPT ![tail] = push.value]
  /\ push' = Storing(push.value)
  /\ UNCHANGED <<head, tail, seenHead, seenTail, pop, out>>

PushStores ==
  /\ push.pc = "store"
  /\ tail' = Wrap(tail + 1)
  /\ push' = Idle
  /\ UNCHANGED <<data, head, seenHead, seenTail, pop, out>>

-----------------------------------------------------------------------------
(* The consumer.                                                           *)

\* Mutant: the consumer does not look whether there is a message.
NeverEmpty(h, t) == FALSE

Empty(h, t) == h = t

\* Pop returns false when it finds the queue empty.
PopBegin ==
  /\ pop = Idle
  /\ seenTail' \in Loads(seenTail, tail)
  /\ pop' = IF Empty(head, seenTail') THEN Idle ELSE Copying(Zero)
  /\ UNCHANGED <<data, head, tail, seenHead, push, out>>

PopCopied ==
  /\ pop.pc = "copy"
  /\ pop' = Storing(data[head])
  /\ UNCHANGED <<data, head, tail, seenHead, seenTail, push, out>>

PopStores ==
  /\ pop.pc = "store"
  /\ head' = Wrap(head + 1)
  /\ out' = pop.value
  /\ pop' = Idle
  /\ UNCHANGED <<data, tail, seenHead, seenTail, push>>

Next ==
  \/ \E v \in Values : PushBegin(v)
  \/ PushCopied \/ PushStores
  \/ PopBegin \/ PopCopied \/ PopStores

Spec == Init /\ [][Next]_vars

-----------------------------------------------------------------------------
(* Properties.                                                             *)

\* Every variable keeps its type.
TypeOK ==
  /\ data \in [Indices -> Values \cup {Zero, Torn}]
  /\ {head, tail, seenHead, seenTail} \subseteq Indices
  /\ push \in {Idle} \cup {Copying(v) : v \in Values} \cup {Storing(v) : v \in Values}
  /\ pop \in {Idle, Copying(Zero)} \cup {Storing(v) : v \in Values}
  /\ out \in Values \cup {Zero}

\* The two ends never copy from and to the same slot, however stale the
\* indices they loaded (the memory orders of Push and Pop).
NoRace == push.pc = "copy" /\ pop.pc = "copy" => head # tail

\* The ring is a bounded FIFO: a push takes effect when the tail is stored, a
\* pop when the head is.
Fifo == INSTANCE BoundedFifo WITH queue <- Contents, Capacity <- N - 1
ImplementsFifo == Fifo!Spec

=============================================================================
