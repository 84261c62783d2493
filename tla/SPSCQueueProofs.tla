---------------------------- MODULE SPSCQueueProofs ----------------------------
(***************************************************************************)
(* Theorems about SPSCQueue, for every number of slots: its types, that    *)
(* the two ends never touch the same slot, and that it is a bounded FIFO.  *)
(***************************************************************************)
EXTENDS SPSCQueue, SequenceTheorems, TLAPS

-----------------------------------------------------------------------------
(* Arithmetic of the indices.                                              *)

LEMMA WrapType ==
  ASSUME NEW i \in Indices
  PROVE  Wrap(i + 1) \in Indices
BY SizeAssumption DEF Wrap, Indices

LEMMA DistanceType ==
  ASSUME NEW i \in Indices, NEW j \in Indices
  PROVE  Distance(i, j) \in Indices /\ (Distance(i, j) = 0 <=> i = j)
BY SizeAssumption DEF Distance, Indices

\* An index that is not full may advance: one more step from the other.
LEMMA DistanceNext ==
  ASSUME NEW i \in Indices, NEW j \in Indices, Wrap(j + 1) # i
  PROVE  Distance(i, Wrap(j + 1)) = Distance(i, j) + 1
BY SizeAssumption DEF Distance, Indices, Wrap

LEMMA DistanceShrinks ==
  ASSUME NEW i \in Indices, NEW j \in Indices, i # j
  PROVE  Distance(Wrap(i + 1), j) = Distance(i, j) - 1
BY SizeAssumption DEF Distance, Indices, Wrap

\* i, j, k lie in this order on the ring.
InOrder(i, j, k) == Distance(i, j) + Distance(j, k) = Distance(i, k)

LEMMA OrderTypes ==
  ASSUME NEW i \in Indices, NEW j \in Indices, NEW k \in Indices
  PROVE  InOrder(i, j, k) <=> Distance(i, j) <= Distance(i, k)
BY SizeAssumption DEF InOrder, Distance, Indices

LEMMA OrderMiddle ==
  ASSUME NEW i \in Indices, NEW j \in Indices, NEW m \in Indices, NEW k \in Indices,
         InOrder(i, j, k), InOrder(i, m, j)
  PROVE  InOrder(m, j, k)
BY SizeAssumption DEF InOrder, Distance, Indices

LEMMA OrderRefine ==
  ASSUME NEW i \in Indices, NEW j \in Indices, NEW m \in Indices, NEW k \in Indices,
         InOrder(i, j, k), Distance(j, m) <= Distance(j, k)
  PROVE  InOrder(i, m, k)
BY SizeAssumption DEF InOrder, Distance, Indices

-----------------------------------------------------------------------------
(* The invariant.                                                          *)
(*                                                                         *)
(* What an end loaded last lies behind what is stored, and not behind its  *)
(* own index; an end that found room (a message) still has it; the slots   *)
(* between the indices hold whole messages.                                *)

Filled == Distance(head, tail)

IndexInv ==
  /\ InOrder(seenHead, head, tail)
  /\ InOrder(head, seenTail, tail)
  /\ push.pc # "idle" => Wrap(tail + 1) # seenHead
  /\ pop.pc # "idle" => head # seenTail

DataInv ==
  /\ \A n \in 1 .. Filled : data[Wrap(head + n - 1)] \in Values
  /\ push.pc = "store" => data[tail] = push.value
  /\ pop.pc = "store" => pop.value = data[head]

RingInv == TypeOK /\ IndexInv /\ DataInv

\* The states of the two ends, field by field.
LEMMA EndTypes ==
  ASSUME TypeOK
  PROVE  /\ push.pc \in {"idle", "copy", "store"} /\ pop.pc \in {"idle", "copy", "store"}
         /\ push.pc # "idle" => push.value \in Values
         /\ pop.pc = "store" => pop.value \in Values
<1>1. push = Idle \/ (\E v \in Values : push = Copying(v)) \/ (\E v \in Values : push = Storing(v))
  BY DEF TypeOK
<1>2. pop = Idle \/ pop = Copying(Zero) \/ (\E v \in Values : pop = Storing(v))
  BY DEF TypeOK
<1>3. push.pc \in {"idle", "copy", "store"} /\ (push.pc # "idle" => push.value \in Values)
  BY <1>1 DEF Idle, Copying, Storing
<1>4. pop.pc \in {"idle", "copy", "store"} /\ (pop.pc = "store" => pop.value \in Values)
  BY <1>2 DEF Idle, Copying, Storing
<1> QED
  BY <1>3, <1>4

LEMMA IndexTypes ==
  ASSUME TypeOK
  PROVE  head \in Indices /\ tail \in Indices /\ seenHead \in Indices /\ seenTail \in Indices
BY DEF TypeOK

LEMMA RingInit == Init => RingInv
<1> SUFFICES ASSUME Init PROVE RingInv
  OBVIOUS
<1>1. 0 \in Indices /\ Distance(0, 0) = 0
  BY SizeAssumption DEF Indices, Distance
<1>2. TypeOK
  BY <1>1 DEF Init, Reset, TypeOK
<1>3. IndexInv
  BY <1>1 DEF Init, Reset, IndexInv, InOrder, Idle
<1>4. DataInv
  BY <1>1 DEF Init, Reset, DataInv, Filled, Idle
<1> QED
  BY <1>2, <1>3, <1>4 DEF RingInv

-----------------------------------------------------------------------------
(* Every step preserves it.                                                *)

LEMMA TypeStep ==
  ASSUME RingInv, [Next]_vars
  PROVE  TypeOK'
<1> USE DEF RingInv
<1>1. ASSUME NEW v \in Values, PushBegin(v) PROVE TypeOK'
  BY <1>1 DEF PushBegin, TypeOK, Loads
<1>2. CASE PushCopied
  BY <1>2, EndTypes DEF PushCopied, TypeOK
<1>3. CASE PushStores
  BY <1>3, WrapType DEF PushStores, TypeOK
<1>4. CASE PopBegin
  BY <1>4 DEF PopBegin, TypeOK, Loads
<1>5. CASE PopCopied
  <2>1. data[head] \in Values
    <3>1. head # seenTail /\ head \in Indices /\ tail \in Indices /\ seenTail \in Indices
      BY <1>5 DEF PopCopied, IndexInv, TypeOK
    <3>2. 1 \in 1 .. Filled
      BY <3>1, DistanceType, SizeAssumption DEF IndexInv, InOrder, Filled, Indices
    <3>3. Wrap(head + 1 - 1) = head
      BY <3>1, SizeAssumption DEF Wrap, Indices
    <3> QED
      BY <3>2, <3>3 DEF DataInv
  <2> QED
    BY <1>5, <2>1 DEF PopCopied, TypeOK
<1>6. CASE PopStores
  BY <1>6, EndTypes, WrapType DEF PopStores, TypeOK
<1>7. CASE UNCHANGED vars
  BY <1>7 DEF vars, TypeOK
<1> QED
  BY <1>1, <1>2, <1>3, <1>4, <1>5, <1>6, <1>7 DEF Next

\* The slots between the indices, by their distance from the head.
Slot(h, n) == Wrap(h + n - 1)

LEMMA SlotTypes ==
  ASSUME NEW h \in Indices, NEW t \in Indices, NEW n \in 1 .. Distance(h, t)
  PROVE  Slot(h, n) \in Indices /\ Slot(h, n) # t
BY SizeAssumption DEF Slot, Wrap, Indices, Distance

LEMMA SlotNext ==
  ASSUME NEW h \in Indices, NEW t \in Indices, h # t
  PROVE  /\ Slot(h, 1) = h
         /\ \A n \in 1 .. Distance(h, t) - 1 : Slot(Wrap(h + 1), n) = Slot(h, n + 1)
BY SizeAssumption DEF Slot, Wrap, Indices, Distance

LEMMA SlotLast ==
  ASSUME NEW h \in Indices, NEW t \in Indices
  PROVE  Slot(h, Distance(h, t) + 1) = t
BY SizeAssumption DEF Slot, Wrap, Indices, Distance

\* An end that found room still has it, whatever the other end did since.
LEMMA RoomStays ==
  ASSUME RingInv
  PROVE  /\ push.pc # "idle" => Wrap(tail + 1) # head /\ Wrap(tail + 1) # seenTail
         /\ pop.pc # "idle" => head # tail
<1>1. /\ head \in Indices /\ tail \in Indices /\ seenHead \in Indices /\ seenTail \in Indices
      /\ InOrder(seenHead, head, tail) /\ InOrder(head, seenTail, tail)
  BY IndexTypes DEF RingInv, IndexInv
<1>2. ASSUME Wrap(tail + 1) # seenHead
      PROVE  Wrap(tail + 1) # head
  BY <1>1, <1>2, SizeAssumption DEF InOrder, Distance, Indices, Wrap
<1>3. ASSUME Wrap(tail + 1) # head
      PROVE  Wrap(tail + 1) # seenTail
  BY <1>1, <1>3, SizeAssumption DEF InOrder, Distance, Indices, Wrap
<1>4. ASSUME head # seenTail
      PROVE  head # tail
  BY <1>1, <1>4, SizeAssumption DEF InOrder, Distance, Indices
<1> QED
  BY <1>2, <1>3, <1>4 DEF RingInv, IndexInv

LEMMA IndexStep ==
  ASSUME RingInv, [Next]_vars
  PROVE  IndexInv'
<1>1. /\ head \in Indices /\ tail \in Indices /\ seenHead \in Indices /\ seenTail \in Indices
      /\ InOrder(seenHead, head, tail) /\ InOrder(head, seenTail, tail)
      /\ push.pc # "idle" => Wrap(tail + 1) # seenHead
      /\ pop.pc # "idle" => head # seenTail
  BY IndexTypes DEF RingInv, IndexInv
<1>2. ASSUME NEW v \in Values, PushBegin(v) PROVE IndexInv'
  <2>1. seenHead' \in Indices /\ Distance(seenHead, seenHead') <= Distance(seenHead, head)
    BY <1>2 DEF PushBegin, Loads
  <2>2. InOrder(seenHead', head, tail)
    BY <1>1, <2>1, OrderTypes, OrderMiddle
  <2>3. push'.pc # "idle" => Wrap(tail + 1) # seenHead'
    BY <1>2 DEF PushBegin, Full, Idle
  <2> QED
    BY <1>1, <1>2, <2>2, <2>3 DEF PushBegin, IndexInv
<1>3. CASE PushCopied
  BY <1>1, <1>3 DEF PushCopied, IndexInv
<1>4. CASE PushStores
  <2>1. Wrap(tail + 1) # head /\ Wrap(tail + 1) # seenTail /\ Wrap(tail + 1) # seenHead
    BY <1>1, <1>4, RoomStays DEF PushStores
  <2>2. tail' = Wrap(tail + 1) /\ push' = Idle /\ UNCHANGED <<head, seenHead, seenTail, pop>>
    BY <1>4 DEF PushStores
  <2>3. /\ Distance(seenHead, tail') = Distance(seenHead, tail) + 1
        /\ Distance(head, tail') = Distance(head, tail) + 1
        /\ Distance(seenTail, tail') = Distance(seenTail, tail) + 1
    BY <1>1, <2>1, <2>2, DistanceNext
  <2>4. \A i \in Indices, j \in Indices : Distance(i, j) \in Int
    BY DistanceType DEF Indices
  <2>5. InOrder(seenHead, head, tail') /\ InOrder(head, seenTail, tail')
    BY <1>1, <2>3, <2>4 DEF InOrder
  <2> QED
    BY <1>1, <2>2, <2>5 DEF IndexInv, Idle
<1>5. CASE PopBegin
  <2>1. seenTail' \in Indices /\ Distance(seenTail, seenTail') <= Distance(seenTail, tail)
    BY <1>5 DEF PopBegin, Loads
  <2>2. InOrder(head, seenTail', tail)
    BY <1>1, <2>1, OrderRefine
  <2>3. pop'.pc # "idle" => head # seenTail'
    BY <1>5 DEF PopBegin, Empty, Idle
  <2> QED
    BY <1>1, <1>5, <2>2, <2>3 DEF PopBegin, IndexInv
<1>6. CASE PopCopied
  BY <1>1, <1>6 DEF PopCopied, IndexInv
<1>7. CASE PopStores
  <2>1. head # seenTail /\ head # tail
    BY <1>1, <1>7, RoomStays DEF PopStores
  <2>2. head' = Wrap(head + 1) /\ pop' = Idle /\ UNCHANGED <<tail, seenHead, seenTail, push>>
    BY <1>7 DEF PopStores
  <2>3. InOrder(seenHead, head', tail)
    BY <1>1, <2>1, <2>2, SizeAssumption DEF InOrder, Distance, Indices, Wrap
  <2>4. InOrder(head', seenTail, tail)
    BY <1>1, <2>1, <2>2, SizeAssumption DEF InOrder, Distance, Indices, Wrap
  <2> QED
    BY <1>1, <2>2, <2>3, <2>4 DEF IndexInv, Idle
<1>8. CASE UNCHANGED vars
  BY <1>1, <1>8 DEF vars, IndexInv
<1> QED
  BY <1>2, <1>3, <1>4, <1>5, <1>6, <1>7, <1>8 DEF Next

\* Where the contents of the ring change.
LEMMA DataStep ==
  ASSUME RingInv, [Next]_vars
  PROVE  DataInv'
<1>1. /\ head \in Indices /\ tail \in Indices /\ Filled = Distance(head, tail)
      /\ data \in [Indices -> Values \cup {Zero, Torn}]
      /\ \A n \in 1 .. Filled : data[Slot(head, n)] \in Values
      /\ push.pc = "store" => data[tail] = push.value
      /\ pop.pc = "store" => pop.value = data[head]
      /\ pop.pc # "idle" => head # tail
  BY IndexTypes, RoomStays DEF RingInv, TypeOK, DataInv, Filled, Slot
<1>2. ASSUME UNCHANGED <<head, tail>>, NEW x, data' = [data EXCEPT ![tail] = x],
             push'.pc = "store" => x = push'.value, UNCHANGED pop
      PROVE  DataInv'
  <2>1. \A n \in 1 .. Filled : data'[Slot(head, n)] = data[Slot(head, n)]
    BY <1>1, <1>2, SlotTypes
  <2>2. pop.pc = "store" => data'[head] = data[head]
    BY <1>1, <1>2
  <2>3. push'.pc = "store" => data'[tail] = push'.value
    BY <1>1, <1>2
  <2> QED
    BY <1>1, <1>2, <2>1, <2>2, <2>3 DEF DataInv, Filled, Slot
<1>3. ASSUME NEW v \in Values, PushBegin(v) PROVE DataInv'
  <2>1. CASE UNCHANGED <<push, data>>
    BY <1>1, <1>3, <2>1 DEF PushBegin, DataInv, Filled, Slot
  <2>2. CASE push' = Copying(v) /\ data' = [data EXCEPT ![tail] = Torn]
    <3>1. push'.pc # "store" /\ UNCHANGED <<head, tail, pop>>
      BY <1>3, <2>2 DEF PushBegin, Copying
    <3> QED
      BY <1>2, <2>2, <3>1
  <2> QED
    BY <1>3, <2>1, <2>2 DEF PushBegin
<1>4. CASE PushCopied
  <2>1. /\ data' = [data EXCEPT ![tail] = push.value] /\ push' = Storing(push.value)
        /\ UNCHANGED <<head, tail, pop>>
    BY <1>4 DEF PushCopied
  <2>2. push'.value = push.value
    BY <2>1 DEF Storing
  <2> QED
    BY <1>2, <2>1, <2>2
<1>5. CASE PushStores
  <2>1. Wrap(tail + 1) # head /\ data[tail] = push.value /\ push.value \in Values
    BY <1>1, <1>5, RoomStays, EndTypes DEF PushStores, RingInv
  <2>2. tail' = Wrap(tail + 1) /\ push' = Idle /\ UNCHANGED <<data, head, pop>>
    BY <1>5 DEF PushStores
  <2>3. Filled' = Filled + 1 /\ Filled \in Nat
    BY <1>1, <2>1, <2>2, DistanceNext, DistanceType DEF Filled, Indices
  <2>4. Slot(head, Filled + 1) = tail
    BY <1>1, SlotLast
  <2>5. \A n \in 1 .. Filled + 1 : data[Slot(head, n)] \in Values
    <3> TAKE n \in 1 .. Filled + 1
    <3>1. n \in 1 .. Filled \/ n = Filled + 1
      BY <2>3
    <3> QED
      BY <1>1, <2>1, <2>4, <3>1
  <2> QED
    BY <1>1, <2>2, <2>3, <2>5 DEF DataInv, Idle, Slot
<1>6. CASE PopBegin
  <2>1. pop'.pc # "store" /\ UNCHANGED <<data, head, tail, push>>
    BY <1>6 DEF PopBegin, Idle, Copying
  <2> QED
    BY <1>1, <2>1 DEF DataInv, Filled, Slot
<1>7. CASE PopCopied
  <2>1. pop'.value = data[head] /\ UNCHANGED <<data, head, tail, push>>
    BY <1>7 DEF PopCopied, Storing
  <2> QED
    BY <1>1, <2>1 DEF DataInv, Filled, Slot
<1>8. CASE PopStores
  <2>1. head # tail
    BY <1>1, <1>8 DEF PopStores
  <2>2. head' = Wrap(head + 1) /\ pop' = Idle /\ UNCHANGED <<data, tail, push>>
    BY <1>8 DEF PopStores
  <2>3. Filled' = Filled - 1 /\ Filled \in Nat
    BY <1>1, <2>1, <2>2, DistanceShrinks, DistanceType DEF Filled, Indices
  <2>4. \A n \in 1 .. Filled - 1 : Slot(head', n) = Slot(head, n + 1) /\ n + 1 \in 1 .. Filled
    BY <1>1, <2>1, <2>2, <2>3, SlotNext
  <2> QED
    BY <1>1, <2>2, <2>3, <2>4 DEF DataInv, Idle, Slot
<1>9. CASE UNCHANGED vars
  BY <1>1, <1>9 DEF vars, DataInv, Filled, Slot
<1> QED
  BY <1>3, <1>4, <1>5, <1>6, <1>7, <1>8, <1>9 DEF Next

LEMMA RingStep ==
  ASSUME RingInv, [Next]_vars
  PROVE  RingInv'
BY TypeStep, IndexStep, DataStep DEF RingInv

\* Every variable keeps its type.
THEOREM TypeCorrect == Spec => []TypeOK
<1>1. RingInv => TypeOK
  BY DEF RingInv
<1> QED
  BY <1>1, RingInit, RingStep, PTL DEF Spec

\* The producer and the consumer never copy at the same slot, for any number
\* of slots and however late they see each other's index.
THEOREM NoDataRace == Spec => []NoRace
<1>1. RingInv => NoRace
  BY RoomStays DEF NoRace
<1> QED
  BY <1>1, RingInit, RingStep, PTL DEF Spec

-----------------------------------------------------------------------------
(* The ring implements a bounded FIFO.                                     *)

LEMMA ContentsType ==
  ASSUME RingInv
  PROVE  /\ Contents = [n \in 1 .. Filled |-> data[Slot(head, n)]]
         /\ Contents \in Seq(Values) /\ Len(Contents) = Filled /\ Filled \in Nat
<1>1. Filled \in Nat
  BY IndexTypes, DistanceType, SizeAssumption DEF RingInv, Filled, Indices
<1>2. Contents = [n \in 1 .. Filled |-> data[Slot(head, n)]]
  BY DEF Contents, Filled, Slot
<1>3. \A n \in 1 .. Filled : data[Slot(head, n)] \in Values
  BY DEF RingInv, DataInv, Slot
<1>4. Contents \in [1 .. Filled -> Values]
  BY <1>2, <1>3
<1>5. Contents \in Seq(Values) /\ Len(Contents) = Filled
  BY <1>1, <1>4
<1> QED
  BY <1>1, <1>2, <1>5

\* A step that leaves the indices and the slots between them leaves the
\* contents.
LEMMA ContentsSame ==
  ASSUME RingInv, UNCHANGED <<head, tail>>, NEW x,
         UNCHANGED data \/ data' = [data EXCEPT ![tail] = x]
  PROVE  UNCHANGED Contents
<1>1. \A n \in 1 .. Filled : Slot(head, n) \in Indices /\ Slot(head, n) # tail
  BY IndexTypes, SlotTypes DEF RingInv, Filled
<1>2. data \in [Indices -> Values \cup {Zero, Torn}]
  BY DEF RingInv, TypeOK
<1>3. \A n \in 1 .. Filled : data'[Slot(head, n)] = data[Slot(head, n)]
  BY <1>1, <1>2
<1> QED
  BY <1>3 DEF Contents, Filled, Slot

LEMMA FifoInit == Init => Fifo!Init
<1> SUFFICES ASSUME Init PROVE Fifo!Init
  OBVIOUS
<1>1. head = 0 /\ tail = 0 /\ out = Zero
  BY DEF Init, Reset
<1>2. Distance(head, tail) = 0
  BY <1>1 DEF Distance
<1>3. RingInv
  BY RingInit
<1>4. Contents \in Seq(Values) /\ Len(Contents) = 0
  BY <1>2, <1>3, ContentsType DEF Filled
<1> QED
  BY <1>1, <1>4, EmptySeq DEF Fifo!Init

LEMMA FifoStep ==
  ASSUME RingInv, [Next]_vars
  PROVE  [Fifo!Next]_<<Contents, out>>
<1>1. ASSUME NEW v \in Values, PushBegin(v) PROVE UNCHANGED <<Contents, out>>
  BY <1>1, ContentsSame DEF PushBegin
<1>2. CASE PushCopied
  BY <1>2, ContentsSame DEF PushCopied
<1>3. CASE PushStores
  <2>1. Wrap(tail + 1) # head /\ data[tail] = push.value /\ push.value \in Values
    BY <1>3, RoomStays, EndTypes DEF PushStores, RingInv, DataInv
  <2>2. tail' = Wrap(tail + 1) /\ UNCHANGED <<data, head, out>>
    BY <1>3 DEF PushStores
  <2>3. head \in Indices /\ tail \in Indices
    BY IndexTypes DEF RingInv
  <2>4. Filled' = Filled + 1
    BY <2>1, <2>2, <2>3, DistanceNext DEF Filled
  <2>5. Slot(head, Filled + 1) = tail
    BY <2>3, SlotLast DEF Filled
  <2>6. Contents' = [n \in 1 .. Filled + 1 |-> data[Slot(head, n)]]
    BY <2>2, <2>4 DEF Contents, Filled, Slot
  <2>7. Contents' = Append(Contents, push.value)
    BY <2>1, <2>5, <2>6, ContentsType
  <2>8. Filled + 1 < N
    <3>1. Wrap(tail + 1) \in Indices
      BY <2>3, WrapType
    <3> QED
      BY <2>1, <2>3, <3>1, DistanceNext, DistanceType, SizeAssumption DEF Filled, Indices
  <2>9. Len(Contents) < N - 1
    BY <2>8, ContentsType, SizeAssumption
  <2> QED
    BY <2>1, <2>2, <2>7, <2>9 DEF Fifo!Next, Fifo!Put
<1>4. CASE PopBegin
  BY <1>4, ContentsSame DEF PopBegin
<1>5. CASE PopCopied
  BY <1>5, ContentsSame DEF PopCopied
<1>6. CASE PopStores
  <2>1. head # tail /\ pop.value = data[head]
    BY <1>6, RoomStays DEF PopStores, RingInv, DataInv
  <2>2. head' = Wrap(head + 1) /\ out' = pop.value /\ UNCHANGED <<data, tail>>
    BY <1>6 DEF PopStores
  <2>3. head \in Indices /\ tail \in Indices
    BY IndexTypes DEF RingInv
  <2>4. Filled' = Filled - 1 /\ Filled # 0
    BY <2>1, <2>2, <2>3, DistanceShrinks, DistanceType DEF Filled
  <2>5. Slot(head, 1) = head /\ \A n \in 1 .. Filled - 1 : Slot(head', n) = Slot(head, n + 1)
    BY <2>1, <2>2, <2>3, SlotNext DEF Filled
  <2>6. Contents' = [n \in 1 .. Filled - 1 |-> data[Slot(head', n)]]
    BY <2>2, <2>4 DEF Contents, Filled, Slot
  <2>7. Contents # <<>> /\ Head(Contents) = data[head]
    BY <2>4, <2>5, ContentsType
  <2>8. Contents' = Tail(Contents)
    <3>1. /\ Contents = [n \in 1 .. Filled |-> data[Slot(head, n)]] /\ Filled \in Nat
          /\ Contents \in Seq(Values) /\ Len(Contents) = Filled
      BY ContentsType
    <3>2. /\ Tail(Contents) \in Seq(Values) /\ Len(Tail(Contents)) = Filled - 1
          /\ \A n \in 1 .. Filled - 1 : Tail(Contents)[n] = Contents[n + 1]
      BY <2>7, <3>1, HeadTailProperties
    <3>3. \A n \in 1 .. Filled - 1 : data[Slot(head', n)] = Contents[n + 1]
      BY <2>5, <3>1
    <3>4. /\ Contents' \in Seq(Values) /\ Len(Contents') = Filled - 1
          /\ \A n \in 1 .. Filled - 1 : Contents'[n] = Contents[n + 1]
      <4>1. Filled - 1 \in Nat
        BY <2>4, <3>1
      <4>2. \A n \in 1 .. Filled - 1 : Contents[n + 1] \in Values
        BY <3>1
      <4> QED
        BY <2>6, <3>3, <4>1, <4>2
    <3> HIDE DEF Contents
    <3> QED
      BY <3>2, <3>4, SeqEqual
  <2> QED
    BY <2>1, <2>2, <2>7, <2>8 DEF Fifo!Next, Fifo!Take
<1>7. CASE UNCHANGED vars
  BY <1>7 DEF vars, Contents
<1> QED
  BY <1>1, <1>2, <1>3, <1>4, <1>5, <1>6, <1>7 DEF Next

\* What is pushed is popped once, in order and whole, and at most N - 1
\* messages wait: the ring is a bounded FIFO, for any number of slots.
THEOREM RingImplementsFifo == Spec => ImplementsFifo
BY RingInit, RingStep, FifoInit, FifoStep, PTL DEF Spec, ImplementsFifo, Fifo!Spec

=============================================================================
