-------------------------- MODULE MCCircularQueue --------------------------
(* CircularQueue on a small array: every wrap position of both indices.    *)
EXTENDS CircularQueue
=============================================================================
