--------------------------- MODULE ReadersWriters ---------------------------
(***************************************************************************)
(* The schedule rt_worker_fn imposes on a RIB, without its machinery.  One *)
(* writer at a time has the table.  When it is done, the readers waiting   *)
(* at that moment are admitted together, and nobody else gets the table    *)
(* until each of them has finished.                                        *)
(***************************************************************************)
CONSTANT Readers

VARIABLES writing,    \* a writer has the table
          waiting,    \* readers that asked for it
          admitted    \* readers that have it

vars == <<writing, waiting, admitted>>

Init == writing = FALSE /\ waiting = {} /\ admitted = {}

Arrive(r) == /\ r \notin waiting \cup admitted
             /\ waiting' = waiting \cup {r}
             /\ UNCHANGED <<writing, admitted>>

StartWrite == /\ ~writing /\ admitted = {}
              /\ writing' = TRUE
              /\ UNCHANGED <<waiting, admitted>>

FinishWrite == /\ writing
               /\ writing' = FALSE
               /\ admitted' = waiting
               /\ waiting' = {}

Finish(r) == /\ r \in admitted
             /\ admitted' = admitted \ {r}
             /\ UNCHANGED <<writing, waiting>>

Next == StartWrite \/ FinishWrite \/ \E r \in Readers : Arrive(r) \/ Finish(r)

Spec == Init /\ [][Next]_vars
=============================================================================
