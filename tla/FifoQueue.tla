----------------------------- MODULE FifoQueue -----------------------------
(***************************************************************************)
(* What common/Queue.c promises its callers: a first-in first-out queue of *)
(* at most Capacity pointers, where enqueue answers 1 when it stored the   *)
(* pointer and 0 when it did not, and deque answers the oldest pointer or  *)
(* NULL.  CircularQueue implements it.                                     *)
(***************************************************************************)
EXTENDS Naturals, Sequences

CONSTANTS Elems,     \* the pointers callers may store
          Null,      \* the NULL pointer
          Capacity   \* Q_DEFAULT_SIZE

VARIABLES queue,     \* the stored pointers, oldest first
          result     \* what the last call returned

vars == <<queue, result>>

Init == queue = <<>> /\ result = 0

(* Storing p: refused when p is NULL or the queue is full.                 *)
Enqueue(p) ==
    \/ /\ p # Null
       /\ Len(queue) < Capacity
       /\ queue' = Append(queue, p)
       /\ result' = 1
    \/ /\ p = Null \/ Len(queue) = Capacity
       /\ result' = 0
       /\ UNCHANGED queue

Deque ==
    \/ /\ queue # <<>>
       /\ result' = Head(queue)
       /\ queue' = Tail(queue)
    \/ /\ queue = <<>>
       /\ result' = Null
       /\ UNCHANGED queue

Next == Deque \/ \E p \in Elems \cup {Null} : Enqueue(p)

Spec == Init /\ [][Next]_vars
=============================================================================
