--------------------------- MODULE CircularQueue ---------------------------
(***************************************************************************)
(* common/Queue.c: the circular array behind rt->reader_Q and rt->writer_Q.*)
(* Indices run downwards: the oldest pointer is at front, the newest at    *)
(* rear, and both wrap from 0 to Q_DEFAULT_SIZE - 1.  Callers hold q->sem  *)
(* around every call, so a call is one step.                               *)
(***************************************************************************)
EXTENDS Naturals, Sequences

CONSTANTS Elems,    \* the pointers callers may store
          Null,     \* the NULL pointer
          Size      \* Q_DEFAULT_SIZE

ASSUME QueueAssumption == /\ Size \in Nat \ {0}
                          /\ Null \notin Elems

VARIABLES elem,     \* q->elem
          front, rear, count,
          result    \* what the last call returned

vars == <<elem, front, rear, count, result>>

Index == 0 .. Size - 1

(* Fault: the index wraps to 0.                                            *)
DownNoWrap(i) == IF i = 0 THEN 0 ELSE i - 1

(* Where an index moves next: one down, from 0 to the last slot.           *)
Down(i) == IF i = 0 THEN Size - 1 ELSE i - 1

(* initQ: kzalloc, both indices at the last slot.                          *)
Init == /\ elem = [i \in Index |-> Null]
        /\ rear = Size - 1
        /\ front = rear
        /\ count = 0
        /\ result = 0

is_queue_empty == count = 0
is_queue_full == count = Size

(* enqueue refuses NULL and a full queue.                                  *)
EnqueueRefused(p) ==
    /\ p = Null \/ is_queue_full
    /\ result' = 0
    /\ UNCHANGED <<elem, front, rear, count>>

(* An empty queue is filled at rear, where front already is.               *)
EnqueueFirst(p) ==
    /\ p # Null /\ ~is_queue_full /\ is_queue_empty
    /\ elem' = [elem EXCEPT ![rear] = p]
    /\ count' = count + 1
    /\ result' = 1
    /\ UNCHANGED <<front, rear>>

(* Otherwise rear moves on first, and the pointer is stored there.         *)
EnqueueNext(p) ==
    /\ p # Null /\ ~is_queue_full /\ ~is_queue_empty
    /\ rear' = Down(rear)
    /\ elem' = [elem EXCEPT ![Down(rear)] = p]
    /\ count' = count + 1
    /\ result' = 1
    /\ UNCHANGED front

enqueue(p) == EnqueueRefused(p) \/ EnqueueFirst(p) \/ EnqueueNext(p)

DequeNothing ==
    /\ is_queue_empty
    /\ result' = Null
    /\ UNCHANGED <<elem, front, rear, count>>

(* Fault: front moves when the last pointer leaves.                        *)
DequeElementAlwaysMoves ==
    /\ ~is_queue_empty
    /\ result' = elem[front]
    /\ elem' = [elem EXCEPT ![front] = Null]
    /\ front' = Down(front)
    /\ count' = count - 1
    /\ UNCHANGED rear

(* The last pointer leaves front where it is: the next enqueue reuses it.  *)
DequeElement ==
    /\ ~is_queue_empty
    /\ result' = elem[front]
    /\ elem' = [elem EXCEPT ![front] = Null]
    /\ front' = IF front = rear THEN front ELSE Down(front)
    /\ count' = count - 1
    /\ UNCHANGED rear

deque == DequeNothing \/ DequeElement

Next == deque \/ \E p \in Elems \cup {Null} : enqueue(p)

Spec == Init /\ [][Next]_vars
-----------------------------------------------------------------------------
TypeOK == /\ elem \in [Index -> Elems \cup {Null}]
          /\ front \in Index
          /\ rear \in Index
          /\ count \in 0 .. Size
          /\ result \in Elems \cup {Null, 0, 1}

(* The slot k places after slot f, and that of the k-th oldest pointer,    *)
(* counting from 0.                                                        *)
SlotFrom(f, k) == IF k <= f THEN f - k ELSE (f + Size) - k
Slot(k) == SlotFrom(front, k)

(* The window of slots between front and rear.                             *)
WindowInv ==
    /\ rear = IF count = 0 THEN front ELSE Slot(count - 1)
    /\ \A k \in 0 .. Size - 1 : elem[Slot(k)] # Null <=> k < count

(* The indices and the count, kept in three separate fields, always agree, *)
(* also after any number of wraps: rear is the slot of the newest pointer, *)
(* an empty queue has both indices at one slot, and exactly the slots      *)
(* between front and rear hold a pointer (print_Queue takes a NULL slot to *)
(* be vacant).                                                             *)
QueueInv == TypeOK /\ WindowInv

(* The c pointers array e holds from slot f on, and those stored now,      *)
(* oldest first.                                                           *)
Window(e, f, c) == [k \in 1 .. c |-> e[SlotFrom(f, k - 1)]]
contents == Window(elem, front, count)

Fifo == INSTANCE FifoQueue WITH Capacity <- Size, queue <- contents

(* The circular array is a first-in first-out queue of capacity            *)
(* Q_DEFAULT_SIZE: no pointer is lost, duplicated or reordered by a wrap,  *)
(* an enqueue that answers 1 stored its pointer, one that answers 0 changed*)
(* nothing.                                                                *)
FifoSpec == Fifo!Spec
=============================================================================
