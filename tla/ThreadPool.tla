----------------------------- MODULE ThreadPool -----------------------------
(***************************************************************************)
(* The pool of blocked threads of userspace/threadApi.c, and its wait_t and*)
(* signal_t.                                                               *)
(*                                                                         *)
(* Adding and removing hold pool_mutex throughout, so each is one step; the*)
(* calls that refuse change nothing and are not steps.  wait_t and signal_t*)
(* are taken apart: wait_t locks the mutex it is given, signal_t locks     *)
(* none, and whether its caller does is up to the caller (Disciplined).    *)
(* resume_thread_id is written and only printed.                           *)
(***************************************************************************)
EXTENDS Integers

CONSTANTS
    Threads,        \* the threads (_pthread_t)
    SelfId,         \* SelfId[t]: the id pthread_init gave t; two may have the same
    PoolSize,       \* pool_size, at most MAX_POOL_SIZE
    Disciplined,    \* callers of signal_t hold the mutex that waiters give wait_t
    NULL

ASSUME PoolAssumption ==
    /\ PoolSize \in 1 .. 100
    /\ SelfId \in [Threads -> Nat]
    /\ Disciplined \in BOOLEAN
    /\ NULL \notin Threads

VARIABLES
    pool,           \* blocked_thread_collection
    mutex,          \* who holds the mutex of wait_t, or NULL
    pc,             \* where in wait_t or signal_t a thread is
    isWaiting,
    signalled       \* the thread that a thread in signal_t signals, or NULL

vars == <<pool, mutex, pc, isWaiting, signalled>>
waitVars == <<mutex, pc, isWaiting, signalled>>

Slots == 0 .. PoolSize - 1

Init == /\ pool = [i \in Slots |-> NULL]
        /\ mutex = NULL
        /\ pc = [t \in Threads |-> "runs"]
        /\ isWaiting = [t \in Threads |-> FALSE]
        /\ signalled = [t \in Threads |-> NULL]
-----------------------------------------------------------------------------
(* The pool.                                                               *)

(* Where is_thread_in_block_pool finds the thread's id, and the slots      *)
(* get_empty_slot_from_pool chooses from, the last first.                  *)
Found(t) == {i \in Slots : pool[i] # NULL /\ SelfId[pool[i]] = SelfId[t]}
Empty == {i \in Slots : pool[i] = NULL}

Fits(t) == SelfId[t] <= PoolSize - 1

(* Fault: a thread that is in the pool is added again.                     *)
AddAgain(t) == /\ Fits(t)
               /\ \E i \in Empty : /\ \A j \in Empty : j <= i
                                   /\ pool' = [pool EXCEPT ![i] = t]
               /\ UNCHANGED waitVars

Add(t) == /\ Found(t) = {}
          /\ Fits(t)
          /\ \E i \in Empty : /\ \A j \in Empty : j <= i
                              /\ pool' = [pool EXCEPT ![i] = t]
          /\ UNCHANGED waitVars

Remove(t) == /\ Fits(t)
             /\ \E i \in Found(t) : /\ \A j \in Found(t) : i <= j
                                    /\ pool' = [pool EXCEPT ![i] = NULL]
             /\ UNCHANGED waitVars
-----------------------------------------------------------------------------
(* wait_t and signal_t.                                                    *)

Goto(t, to) == pc' = [pc EXCEPT ![t] = to]

(* Fault: wait_t does not lock the mutex.                                  *)
WaitLocksNot(t) == /\ pc[t] = "runs"
                   /\ isWaiting' = [isWaiting EXCEPT ![t] = TRUE]
                   /\ Goto(t, "locked")
                   /\ UNCHANGED <<pool, mutex, signalled>>

WaitLocks(t) == /\ pc[t] = "runs" /\ mutex = NULL
                /\ mutex' = t
                /\ isWaiting' = [isWaiting EXCEPT ![t] = TRUE]
                /\ Goto(t, "locked")
                /\ UNCHANGED <<pool, signalled>>

WaitSleeps(t) == /\ pc[t] = "locked"
                 /\ mutex' = NULL
                 /\ Goto(t, "blocked")
                 /\ UNCHANGED <<pool, isWaiting, signalled>>

(* pthread_cond_wait may return although nobody signalled.                 *)
WakesUnasked(t) == /\ pc[t] = "blocked"
                   /\ Goto(t, "woken")
                   /\ UNCHANGED <<pool, mutex, isWaiting, signalled>>

(* It locks the mutex again, and wait_t unlocks it and returns.            *)
WaitReturns(t) == /\ pc[t] = "woken" /\ mutex = NULL
                  /\ Goto(t, "runs")
                  /\ UNCHANGED <<pool, mutex, isWaiting, signalled>>

SignalBegins(s, t) == /\ pc[s] = "runs" /\ s # t
                      /\ IF Disciplined THEN mutex = NULL /\ mutex' = s
                                        ELSE UNCHANGED mutex
                      /\ signalled' = [signalled EXCEPT ![s] = t]
                      /\ Goto(s, "signals")
                      /\ UNCHANGED <<pool, isWaiting>>

(* A signal to a condition variable nobody waits on is lost.               *)
SignalSends(s) ==
    /\ pc[s] = "signals"
    /\ pc' = [pc EXCEPT ![s] = "marks",
                        ![signalled[s]] = IF @ = "blocked" THEN "woken" ELSE @]
    /\ UNCHANGED <<pool, mutex, isWaiting, signalled>>

SignalMarks(s) == /\ pc[s] = "marks"
                  /\ isWaiting' = [isWaiting EXCEPT ![signalled[s]] = FALSE]
                  /\ mutex' = IF Disciplined THEN NULL ELSE mutex
                  /\ signalled' = [signalled EXCEPT ![s] = NULL]
                  /\ Goto(s, "runs")
                  /\ UNCHANGED pool

Next == \E t \in Threads :
            \/ Add(t) \/ Remove(t)
            \/ WaitLocks(t) \/ WaitSleeps(t) \/ WakesUnasked(t) \/ WaitReturns(t)
            \/ SignalSends(t) \/ SignalMarks(t)
            \/ \E s \in Threads : SignalBegins(s, t)

Spec == Init /\ [][Next]_vars

-----------------------------------------------------------------------------
TypeOK == /\ pool \in [Slots -> Threads \cup {NULL}]
          /\ mutex \in Threads \cup {NULL}
          /\ pc \in [Threads -> {"runs", "locked", "blocked", "woken", "signals", "marks"}]
          /\ isWaiting \in [Threads -> BOOLEAN]
          /\ signalled \in [Threads -> Threads \cup {NULL}]

(* No id is in the pool twice, and every id in it is less than its size.   *)
PoolSound == \A i \in Slots : pool[i] # NULL =>
                 /\ Fits(pool[i])
                 /\ \A j \in Slots : pool[j] # NULL /\ SelfId[pool[i]] = SelfId[pool[j]]
                                         => i = j

(* A thread that _pool_add is asked to add always finds a slot: the message*)
(* "gl_blocked_th_pool is full" (threadApi.c:139) never appears, after any *)
(* sequence of additions and removals, also when ids are shared.           *)
NeverFull == \A t \in Threads : Fits(t) /\ Found(t) = {} => Empty # {}

(* When signal_t is called under the mutex, a thread blocked in wait_t is  *)
(* marked as waiting, whatever signals and spurious wake-ups it has had    *)
(* (threadApi.c:188, 205): signal_t never clears the mark of a later wait. *)
BlockedKnown == Disciplined =>
    \A t \in Threads : pc[t] = "blocked" => isWaiting[t]
=============================================================================
