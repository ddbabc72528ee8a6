------------------------------ MODULE ValueList ------------------------------
(***************************************************************************)
(* What common/LinkedListApi.c promises its callers: a list of values,     *)
(* newest first, with no bound but the memory.  LinkedList implements it   *)
(* with nodes on the heap.                                                 *)
(***************************************************************************)
EXTENDS Naturals, SequencesExt

CONSTANTS Values     \* what the callers store

VARIABLES list,      \* the values, newest first
          result     \* what the last search or removal answered

vars == <<list, result>>

Init == list = <<>> /\ result = 0

Add(v) == list' = <<v>> \o list /\ UNCHANGED result

(* Taking out the newest of the values that equal v: one or none goes.     *)
TakeOut(v) == /\ list' = RemoveFirst(list, v)
              /\ result' = IF Contains(list, v) THEN 1 ELSE 0

Find(v) == /\ result' = IF Contains(list, v) THEN 1 ELSE 0
           /\ UNCHANGED list

Turn == list' = Reverse(list) /\ UNCHANGED result

Clear == list' = <<>> /\ UNCHANGED result

Next == Turn \/ Clear \/ \E v \in Values : Add(v) \/ TakeOut(v) \/ Find(v)

Spec == Init /\ [][Next]_vars
=============================================================================
