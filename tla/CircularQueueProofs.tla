------------------------ MODULE CircularQueueProofs ------------------------
(***************************************************************************)
(* The circular queue of common/Queue.c keeps its indices consistent and   *)
(* is a bounded first-in first-out queue, for every size and every set of  *)
(* pointers.                                                               *)
(***************************************************************************)
EXTENDS CircularQueue, SequenceTheorems, TLAPS

(* The k-th slot after a slot is a slot.                                   *)
LEMMA SlotInIndex ==
  ASSUME NEW f \in Index, NEW k \in Index
  PROVE  SlotFrom(f, k) \in Index
BY QueueAssumption DEF SlotFrom, Index

(* Different distances lead to different slots.                            *)
LEMMA SlotInjective ==
  ASSUME NEW f \in Index, NEW k \in Index, NEW l \in Index,
         SlotFrom(f, k) = SlotFrom(f, l)
  PROVE  k = l
BY QueueAssumption DEF SlotFrom, Index

(* Moving an index down leads to the next slot, also across a wrap.        *)
LEMMA DownIsNextSlot ==
  ASSUME NEW f \in Index, NEW k \in Index, k + 1 \in Index
  PROVE  Down(SlotFrom(f, k)) = SlotFrom(f, k + 1)
BY QueueAssumption DEF Down, SlotFrom, Index

(* Seen from the next slot every distance is one less, and the slot left   *)
(* behind is the last one.                                                 *)
LEMMA SlotFromNext ==
  ASSUME NEW f \in Index
  PROVE  /\ Down(f) \in Index
         /\ SlotFrom(f, 0) = f
         /\ \A k \in Index : k + 1 \in Index => SlotFrom(Down(f), k) = SlotFrom(f, k + 1)
         /\ SlotFrom(Down(f), Size - 1) = f
BY QueueAssumption DEF Down, SlotFrom, Index

LEMMA InitInv == Init => QueueInv
<1> SUFFICES ASSUME Init PROVE QueueInv
  OBVIOUS
<1>1. Size - 1 \in Index
  BY QueueAssumption DEF Index
<1>2. TypeOK
  BY <1>1, QueueAssumption DEF TypeOK, Init
<1>3. WindowInv
  BY <1>1, QueueAssumption, SlotInIndex DEF WindowInv, Init, Index, Slot
<1> QED
  BY <1>2, <1>3 DEF QueueInv

LEMMA EnqueueInv ==
  ASSUME QueueInv, NEW p \in Elems \cup {Null}, enqueue(p)
  PROVE  QueueInv'
<1> USE QueueAssumption
<1>1. CASE EnqueueRefused(p)
  BY <1>1 DEF EnqueueRefused, QueueInv, TypeOK, WindowInv, Slot, SlotFrom
<1>2. CASE EnqueueFirst(p)
  <2>1. rear = front /\ count = 0 /\ SlotFrom(front, 0) = front
    BY <1>2, SlotFromNext DEF EnqueueFirst, is_queue_empty, QueueInv, WindowInv, TypeOK
  <2>2. TypeOK'
    BY <1>2, <2>1 DEF EnqueueFirst, QueueInv, TypeOK
  <2>3. elem' = [elem EXCEPT ![front] = p] /\ p # Null /\ count' = 1
        /\ front' = front /\ rear' = rear /\ 0 \in Index /\ front \in Index
    BY <1>2, <2>1 DEF EnqueueFirst, QueueInv, TypeOK, Index
  <2>4. \A k \in Index : elem'[SlotFrom(front, k)] # Null <=> k < 1
    <3> TAKE k \in Index
    <3>1. SlotFrom(front, k) \in Index /\ (SlotFrom(front, k) = front => k = 0)
      BY <2>1, <2>3, SlotInIndex, SlotInjective
    <3>2. elem[SlotFrom(front, k)] = Null
      BY <2>1 DEF QueueInv, WindowInv, Slot, Index
    <3> QED
      BY <2>1, <2>3, <3>1, <3>2 DEF QueueInv, TypeOK, Index
  <2> QED
    BY <2>1, <2>2, <2>3, <2>4 DEF QueueInv, WindowInv, Slot, Index
<1>3. CASE EnqueueNext(p)
  <2>1. /\ count \in 1 .. Size - 1 /\ rear = SlotFrom(front, count - 1)
        /\ front \in Index /\ elem \in [Index -> Elems \cup {Null}]
    BY <1>3 DEF EnqueueNext, is_queue_empty, is_queue_full, QueueInv, TypeOK, WindowInv, Slot
  <2>2. /\ count - 1 \in Index /\ count \in Index
        /\ (count - 1) + 1 = count
    BY <2>1 DEF Index
  <2>3. Down(rear) = SlotFrom(front, count) /\ SlotFrom(front, count) \in Index
    BY <2>1, <2>2, DownIsNextSlot, SlotInIndex
  <2>4. TypeOK'
    BY <1>3, <2>1, <2>3 DEF EnqueueNext, QueueInv, TypeOK
  <2>5. \A k \in Index : elem'[SlotFrom(front, k)] # Null <=> k < count + 1
    <3> TAKE k \in Index
    <3>1. SlotFrom(front, k) \in Index /\ (SlotFrom(front, k) = Down(rear) => k = count)
      BY <2>1, <2>2, <2>3, SlotInIndex, SlotInjective
    <3>2. elem[SlotFrom(front, k)] # Null <=> k < count
      BY DEF QueueInv, WindowInv, Slot, Index
    <3>3. elem' = [elem EXCEPT ![Down(rear)] = p] /\ p # Null
      BY <1>3 DEF EnqueueNext
    <3>4. CASE k = count
      BY <2>1, <2>3, <3>3, <3>4
    <3>5. CASE k # count
      BY <2>1, <3>1, <3>2, <3>3, <3>5 DEF Index
    <3> QED
      BY <3>4, <3>5
  <2>6. front' = front /\ rear' = Down(rear) /\ count' = count + 1
    BY <1>3 DEF EnqueueNext
  <2> QED
    BY <2>1, <2>3, <2>4, <2>5, <2>6 DEF QueueInv, WindowInv, Slot, Index
<1> QED
  BY <1>1, <1>2, <1>3 DEF enqueue

LEMMA DequeInv ==
  ASSUME QueueInv, deque
  PROVE  QueueInv'
<1> USE QueueAssumption
<1>1. CASE DequeNothing
  BY <1>1 DEF DequeNothing, QueueInv, TypeOK, WindowInv, Slot, SlotFrom
<1>2. CASE DequeElement
  <2>1. /\ count \in 1 .. Size /\ rear = SlotFrom(front, count - 1)
        /\ front \in Index /\ elem \in [Index -> Elems \cup {Null}]
        /\ 0 \in Index /\ count - 1 \in Index
    BY <1>2 DEF DequeElement, is_queue_empty, QueueInv, TypeOK, WindowInv, Slot, Index
  <2>2. elem' = [elem EXCEPT ![front] = Null] /\ rear' = rear /\ count' = count - 1
    BY <1>2 DEF DequeElement
  <2>3. front = rear <=> count = 1
    BY <2>1, SlotFromNext, SlotInjective
  <2>4. SlotFrom(front, 0) = front /\ Down(front) \in Index
    BY <2>1, SlotFromNext
  <2>5. \A k \in Index : elem[SlotFrom(front, k)] # Null <=> k < count
    BY DEF QueueInv, WindowInv, Slot, Index
  <2>6. \A k \in Index : k # 0 => SlotFrom(front, k) \in Index /\ SlotFrom(front, k) # front
    BY <2>1, <2>4, SlotInIndex, SlotInjective
  <2>7. CASE count = 1
    <3>1. front' = front
      BY <1>2, <2>3, <2>7 DEF DequeElement
    <3>2. TypeOK'
      BY <1>2, <2>1, <2>2, <3>1 DEF DequeElement, QueueInv, TypeOK
    <3>3. \A k \in Index : elem'[SlotFrom(front, k)] = Null
      BY <2>1, <2>2, <2>4, <2>5, <2>6, <2>7 DEF Index
    <3> QED
      BY <2>2, <2>3, <2>7, <3>1, <3>2, <3>3 DEF QueueInv, WindowInv, Slot, Index
  <2>8. CASE count # 1
    <3>1. front' = Down(front)
      BY <1>2, <2>3, <2>8 DEF DequeElement
    <3>2. TypeOK'
      BY <1>2, <2>1, <2>2, <2>4, <3>1 DEF DequeElement, QueueInv, TypeOK
    <3>3. SlotFrom(Down(front), count - 2) = SlotFrom(front, count - 1)
      <4>1. count - 2 \in Index /\ (count - 2) + 1 = count - 1
        BY <2>1, <2>8 DEF Index
      <4> QED
        BY <4>1, <2>1, SlotFromNext
    <3>4. \A k \in Index : elem'[SlotFrom(Down(front), k)] # Null <=> k < count - 1
      <4> TAKE k \in Index
      <4>1. CASE k = Size - 1
        <5>1. elem'[SlotFrom(Down(front), k)] = Null
          BY <4>1, <2>1, <2>2, SlotFromNext
        <5> QED
          BY <4>1, <5>1, <2>1
      <4>2. CASE k # Size - 1
        <5>1. k + 1 \in Index /\ k + 1 # 0
          BY <4>2 DEF Index
        <5>2. SlotFrom(Down(front), k) = SlotFrom(front, k + 1)
          BY <5>1, <2>1, SlotFromNext
        <5>3. elem'[SlotFrom(front, k + 1)] = elem[SlotFrom(front, k + 1)]
          BY <5>1, <2>1, <2>2, <2>6
        <5>4. elem[SlotFrom(front, k + 1)] # Null <=> k + 1 < count
          BY <5>1, <2>5
        <5> QED
          BY <5>2, <5>3, <5>4, <2>1 DEF Index
      <4> QED
        BY <4>1, <4>2
    <3>5. rear' = IF count' = 0 THEN front' ELSE SlotFrom(front', count' - 1)
      BY <2>1, <2>2, <2>8, <3>1, <3>3
    <3> QED
      BY <2>2, <3>1, <3>2, <3>4, <3>5 DEF QueueInv, WindowInv, Slot, Index
  <2> QED
    BY <2>7, <2>8
<1> QED
  BY <1>1, <1>2 DEF deque

(* The indices and the count agree in every state, for every queue size.   *)
THEOREM QueueInvariance == Spec => []QueueInv
<1>1. QueueInv /\ [Next]_vars => QueueInv'
  <2> SUFFICES ASSUME QueueInv, [Next]_vars PROVE QueueInv'
    OBVIOUS
  <2>1. CASE UNCHANGED vars
    BY <2>1 DEF vars, QueueInv, TypeOK, WindowInv, Slot, SlotFrom
  <2> QED
    BY <2>1, EnqueueInv, DequeInv DEF Next
<1> QED
  BY <1>1, InitInv, PTL DEF Spec
-----------------------------------------------------------------------------
(* The stored pointers form a sequence of pointers, the oldest at front.   *)
LEMMA StoredElems ==
  ASSUME QueueInv
  PROVE  /\ count \in Nat /\ front \in Index
         /\ \A i \in 1 .. count : elem[SlotFrom(front, i - 1)] \in Elems
<1>1. count \in 0 .. Size /\ front \in Index
  BY DEF QueueInv, TypeOK
<1>2. ASSUME NEW i \in 1 .. count PROVE elem[SlotFrom(front, i - 1)] \in Elems
  <2>1. i - 1 \in Index /\ i - 1 < count
    BY QueueAssumption, <1>1 DEF Index
  <2>2. SlotFrom(front, i - 1) \in Index
    BY <2>1, <1>1, SlotInIndex
  <2>3. elem[SlotFrom(front, i - 1)] # Null
    BY <2>1 DEF QueueInv, WindowInv, Slot, Index
  <2> QED
    BY <2>2, <2>3 DEF QueueInv, TypeOK
<1> QED
  BY QueueAssumption, <1>1, <1>2

(* What enqueue answers and stores is what a bounded queue promises.       *)
LEMMA EnqueueRefines ==
  ASSUME QueueInv, NEW p \in Elems \cup {Null}, enqueue(p)
  PROVE  Fifo!Enqueue(p)
<1> USE QueueAssumption
<1>1. count \in 0 .. Size /\ front \in Index /\ elem \in [Index -> Elems \cup {Null}]
  BY DEF QueueInv, TypeOK
<1>2. /\ contents \in Seq(Elems) /\ Len(contents) = count
      /\ \A i \in 1 .. count : contents[i] = elem[SlotFrom(front, i - 1)]
  BY StoredElems DEF contents, Window
<1>3. CASE EnqueueRefused(p)
  <2>1. contents' = contents
    BY <1>3 DEF EnqueueRefused, contents
  <2> QED
    BY <1>2, <1>3, <2>1 DEF EnqueueRefused, is_queue_full, Fifo!Enqueue
<1>4. CASE EnqueueFirst(p) \/ EnqueueNext(p)
  <2>1. /\ p # Null /\ result' = 1 /\ count' = count + 1 /\ front' = front
        /\ count < Size /\ count \in Index
    BY <1>1, <1>4 DEF EnqueueFirst, EnqueueNext, is_queue_full, Index
  <2>2. elem' = [elem EXCEPT ![SlotFrom(front, count)] = p]
    <3>1. CASE EnqueueFirst(p)
      BY <1>1, <3>1, SlotFromNext DEF EnqueueFirst, is_queue_empty, QueueInv, WindowInv
    <3>2. CASE EnqueueNext(p)
      <4>1. /\ count - 1 \in Index /\ (count - 1) + 1 = count
            /\ rear = SlotFrom(front, count - 1)
        BY <1>1, <2>1, <3>2 DEF EnqueueNext, is_queue_empty, QueueInv, WindowInv, Slot, Index
      <4>2. Down(rear) = SlotFrom(front, count)
        BY <1>1, <2>1, <4>1, DownIsNextSlot
      <4> QED
        BY <3>2, <4>2 DEF EnqueueNext
    <3> QED
      BY <1>4, <3>1, <3>2
  <2>3. \A i \in 1 .. count + 1 :
           elem'[SlotFrom(front, i - 1)] = IF i = count + 1 THEN p ELSE contents[i]
    <3> TAKE i \in 1 .. count + 1
    <3>1. i - 1 \in Index /\ (i = count + 1 <=> i - 1 = count)
      BY <2>1 DEF Index
    <3>2. /\ SlotFrom(front, i - 1) \in Index /\ SlotFrom(front, count) \in Index
          /\ SlotFrom(front, i - 1) = SlotFrom(front, count) => i - 1 = count
      BY <1>1, <2>1, <3>1, SlotInIndex, SlotInjective
    <3>3. CASE i = count + 1
      BY <1>1, <2>1, <2>2, <3>1, <3>2, <3>3
    <3>4. CASE i # count + 1
      BY <1>1, <1>2, <2>1, <2>2, <3>1, <3>2, <3>4
    <3> QED
      BY <3>3, <3>4
  <2>4. /\ contents' \in Seq(Elems) /\ Len(contents') = count + 1
        /\ \A i \in 1 .. count + 1 :
              contents'[i] = IF i = count + 1 THEN p ELSE contents[i]
    <3>1. contents' = Window(elem', front, count + 1)
      BY <2>1 DEF contents
    <3>2. \A i \in 1 .. count + 1 : elem'[SlotFrom(front, i - 1)] \in Elems
      <4> TAKE i \in 1 .. count + 1
      <4>1. CASE i = count + 1
        BY <2>1, <2>3, <4>1
      <4>2. CASE i # count + 1
        <5>1. i \in 1 .. count /\ contents[i] \in Elems
          BY <1>1, <1>2, <4>2
        <5> QED
          BY <2>3, <4>2, <5>1
      <4> QED
        BY <4>1, <4>2
    <3>3. count + 1 \in Nat
      BY <1>1
    <3>4. /\ Window(elem', front, count + 1) \in Seq(Elems)
          /\ Len(Window(elem', front, count + 1)) = count + 1
          /\ \A i \in 1 .. count + 1 :
                Window(elem', front, count + 1)[i] = elem'[SlotFrom(front, i - 1)]
      BY <3>2, <3>3 DEF Window
    <3> QED
      BY <2>3, <3>1, <3>4
  <2>5. contents' = Append(contents, p)
    <3>1. p \in Elems
      BY <2>1
    <3>2. /\ Append(contents, p) \in Seq(Elems) /\ Len(Append(contents, p)) = count + 1
          /\ \A i \in 1 .. count + 1 :
                Append(contents, p)[i] = IF i = count + 1 THEN p ELSE contents[i]
      BY <1>1, <1>2, <3>1, AppendProperties
    <3>3. \A i \in 1 .. Len(contents') : contents'[i] = Append(contents, p)[i]
      BY <2>4, <3>2
    <3> QED
      BY <2>4, <3>2, <3>3, SeqEqual
  <2> QED
    BY <1>2, <2>1, <2>5 DEF Fifo!Enqueue
<1> QED
  BY <1>3, <1>4 DEF enqueue

(* What deque answers is the oldest pointer, and the others stay in order. *)
LEMMA DequeRefines ==
  ASSUME QueueInv, deque
  PROVE  Fifo!Deque
<1> USE QueueAssumption
<1>1. count \in 0 .. Size /\ front \in Index /\ elem \in [Index -> Elems \cup {Null}]
  BY DEF QueueInv, TypeOK
<1>2. /\ contents \in Seq(Elems) /\ Len(contents) = count
      /\ \A i \in 1 .. count : contents[i] = elem[SlotFrom(front, i - 1)]
  BY StoredElems DEF contents, Window
<1>3. CASE DequeNothing
  <2>1. contents' = contents /\ contents = <<>>
    BY <1>2, <1>3 DEF DequeNothing, is_queue_empty, contents
  <2> QED
    BY <1>3, <2>1 DEF DequeNothing, Fifo!Deque
<1>4. CASE DequeElement
  <2>1. /\ count > 0 /\ result' = elem[front] /\ count' = count - 1
        /\ elem' = [elem EXCEPT ![front] = Null]
        /\ front' = IF front = rear THEN front ELSE Down(front)
    BY <1>1, <1>4 DEF DequeElement, is_queue_empty
  <2>2. contents # <<>> /\ Head(contents) = contents[1] /\ Head(contents) = elem[front]
    BY <1>1, <1>2, <2>1, SlotFromNext
  <2>3. /\ Tail(contents) \in Seq(Elems) /\ Len(Tail(contents)) = count - 1
        /\ \A i \in 1 .. count - 1 : Tail(contents)[i] = contents[i + 1]
    BY <1>1, <1>2, <2>2, HeadTailProperties
  <2>4. \A i \in 1 .. count - 1 : elem'[SlotFrom(front', i - 1)] = contents[i + 1]
    <3> TAKE i \in 1 .. count - 1
    <3>1. i - 1 \in Index /\ i \in Index /\ (i - 1) + 1 = i /\ 0 \in Index
          /\ i + 1 \in 1 .. count /\ (i + 1) - 1 = i /\ count - 1 \in Index
      BY <1>1 DEF Index
    <3>2. front # rear
      <4>1. rear = SlotFrom(front, count - 1) /\ count - 1 # 0
        BY <1>1, <2>1, <3>1 DEF QueueInv, WindowInv, Slot
      <4> QED
        BY <1>1, <3>1, <4>1, SlotFromNext, SlotInjective
    <3>3. SlotFrom(front', i - 1) = SlotFrom(front, i)
      BY <1>1, <2>1, <3>1, <3>2, SlotFromNext
    <3>4. SlotFrom(front, i) \in Index /\ SlotFrom(front, i) # front
      BY <1>1, <3>1, SlotInIndex, SlotInjective, SlotFromNext
    <3>5. contents[i + 1] = elem[SlotFrom(front, i)]
      BY <1>2, <3>1
    <3> QED
      BY <1>1, <2>1, <3>3, <3>4, <3>5
  <2>5. /\ contents' \in Seq(Elems) /\ Len(contents') = count - 1
        /\ \A i \in 1 .. count - 1 : contents'[i] = contents[i + 1]
    <3>1. contents' = Window(elem', front', count - 1)
      BY <2>1 DEF contents
    <3>2. \A i \in 1 .. count - 1 : elem'[SlotFrom(front', i - 1)] \in Elems
      BY <1>1, <1>2, <2>4, StoredElems
    <3>3. count - 1 \in Nat
      BY <1>1, <2>1
    <3>4. /\ Window(elem', front', count - 1) \in Seq(Elems)
          /\ Len(Window(elem', front', count - 1)) = count - 1
          /\ \A i \in 1 .. count - 1 :
                Window(elem', front', count - 1)[i] = elem'[SlotFrom(front', i - 1)]
      BY <3>2, <3>3 DEF Window
    <3> QED
      BY <2>4, <3>1, <3>4
  <2>6. contents' = Tail(contents)
    <3>1. \A i \in 1 .. Len(contents') : contents'[i] = Tail(contents)[i]
      BY <2>3, <2>5
    <3> QED
      BY <2>3, <2>5, <3>1, SeqEqual
  <2> QED
    BY <2>1, <2>2, <2>6 DEF Fifo!Deque
<1> QED
  BY <1>3, <1>4 DEF deque

(* The circular array implements the bounded first-in first-out queue.     *)
THEOREM QueueRefinement == Spec => FifoSpec
<1>1. Init => Fifo!Init
  <2> SUFFICES ASSUME Init PROVE Fifo!Init
    OBVIOUS
  <2>1. contents = <<>>
    BY DEF Init, contents, Window
  <2> QED
    BY <2>1 DEF Init, Fifo!Init
<1>2. QueueInv /\ [Next]_vars => [Fifo!Next]_(Fifo!vars)
  <2> SUFFICES ASSUME QueueInv, [Next]_vars PROVE [Fifo!Next]_(Fifo!vars)
    OBVIOUS
  <2>1. CASE UNCHANGED vars
    BY <2>1 DEF vars, Fifo!vars, contents
  <2>2. CASE deque
    BY <2>2, DequeRefines DEF Fifo!Next
  <2>3. ASSUME NEW p \in Elems \cup {Null}, enqueue(p) PROVE Fifo!Next
    BY <2>3, EnqueueRefines DEF Fifo!Next
  <2> QED
    BY <2>1, <2>2, <2>3 DEF Next
<1> QED
  BY <1>1, <1>2, QueueInvariance, PTL DEF Spec, QueueInv, FifoSpec, Fifo!Spec
=============================================================================
