---------------------------- MODULE MCLinkedList ----------------------------
(* LinkedList in a memory for three nodes and four cells: first, inner and *)
(* last node differ, and a cell may be lost.                               *)
EXTENDS LinkedList

ThreeNodes == 1 .. 3
FourCells == 11 .. 14
=============================================================================
