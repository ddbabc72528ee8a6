---------------------------- MODULE MCThreadPool ----------------------------
(* ThreadPool with ids 0, 1, 1 and 2 for a pool of two: one id is shared,  *)
(* and one does not fit.                                                   *)
EXTENDS ThreadPool

CONSTANTS t0, t1, u1, t2

MCThreads == {t0, t1, u1, t2}
MCSelfId == [t \in MCThreads |-> CASE t = t0 -> 0 [] t = t2 -> 2 [] OTHER -> 1]
=============================================================================
