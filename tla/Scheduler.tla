----------------------------- MODULE Scheduler -----------------------------
(***************************************************************************)
(* The readers-writer scheduler of RT/rt_fops.c: the worker thread and the *)
(* ioctl handlers of synchronous readers and writers, step by step, with   *)
(* the status query of rt_poll that shares their locks.                    *)
(*                                                                         *)
(* A thread is where its pc says.  A kernel completion is a count: complete*)
(* adds one, wait_for_completion takes one.  down_interruptible fails only *)
(* when it would block and a signal is pending.                            *)
(***************************************************************************)
EXTENDS RibTable

CONSTANTS Readers,      \* threads that issue RT_IOC_SUBSCRIBE_RT
          Writers,      \* threads that issue the other ioctls
          Pollers,      \* threads in select(), whose rt_poll queries the table
          Worker,       \* rt->worker_thread
          Files,        \* open files: each has one struct kernthread
          FileOf,       \* the file a reader or writer uses
          Ops,          \* what writers ask for
          QSize,        \* Q_DEFAULT_SIZE
          UintMax,      \* the largest unsigned int
          Signalled,    \* threads that may have a signal pending
          Preemptible,  \* whether the exit section of a reader can be interleaved
          AllocMayFail  \* whether kzalloc may fail

Threads == Readers \cup Writers \cup Pollers \cup {Worker}
Sleepers == Files \cup {Worker}

ASSUME SchedulerAssumption ==
    /\ Readers \cap Writers = {} /\ Pollers \cap (Readers \cup Writers) = {}
    /\ Worker \notin Readers \cup Writers \cup Pollers \cup Files
    /\ FileOf \in [Readers \cup Writers -> Files]
    /\ Updates = Writers /\ Copiers = Readers \cup {Worker}
    /\ Ops \subseteq {"RT_ROUTE_ADD", "RT_ROUTE_DEL", "RTPURGE", "CR_RTENTRY"}
    /\ QSize \in Nat \ {0} /\ UintMax \in Nat \ {0}
    /\ Preemptible \in BOOLEAN /\ AllocMayFail \in BOOLEAN

VARIABLES pc,
          done,         \* the completion counts, by file, and the worker's
          readerQ,      \* rt->reader_Q, oldest first
          writerQ,      \* rt->writer_Q, oldest first
          n,            \* n_readers_to_be_service
          toGrant,      \* readers the worker has still to deque in this round
          cnt,          \* the worker's local count of changes
          op,           \* what each writer asked for
          want,         \* the size a reader read before it copied
          got, rc,      \* what a reader copied, and the number it returns
          tmp           \* a reader's register in n--

roundVars == <<n, toGrant, cnt>>
readerVars == <<want, got, rc, tmp>>
vars == <<tableVars, pc, done, readerQ, writerQ, roundVars, op, readerVars>>

Init == /\ TableInit
        /\ pc = [t \in Threads |-> IF t = Worker THEN "check" ELSE "idle"]
        /\ done = [s \in Sleepers |-> 0]
        /\ readerQ = <<>> /\ writerQ = <<>>
        /\ n = 0 /\ toGrant = 0 /\ cnt = 0
        /\ op = [w \in Writers |-> "none"]
        /\ want = [r \in Readers |-> 0]
        /\ got = [r \in Readers |-> <<>>]
        /\ rc = [r \in Readers |-> 0]
        /\ tmp = [r \in Readers |-> 0]
-----------------------------------------------------------------------------
(* Kernel primitives.                                                      *)

(* The exit section of RT_IOC_SUBSCRIBE_RT, lines 461 to 474, never sleeps *)
(* once it is in: without preemption, and on one processor, nobody runs    *)
(* before it is over.  Everywhere else threads interleave freely.          *)
ExitSection == {"test", "last", "free", "signal", "dec", "store"}

MayRun(t) == Preemptible \/ \A u \in Readers \ {t} : pc[u] \notin ExitSection

Goto(t, from, to) == /\ pc[t] = from /\ MayRun(t)
                     /\ pc' = [pc EXCEPT ![t] = to]

Complete(s) == done' = [done EXCEPT ![s] = @ + 1]

Take(s) == /\ done[s] > 0
           /\ done' = [done EXCEPT ![s] = @ - 1]

(* enqueue drops the pointer when the queue is full; callers do not look.  *)
Enqueued(q, f) == IF Len(q) < QSize THEN Append(q, f) ELSE q

(* i-- on an unsigned int.                                                 *)
Dec(i) == IF i = 0 THEN UintMax ELSE i - 1
-----------------------------------------------------------------------------
(* Readers: RT_IOC_SUBSCRIBE_RT.                                           *)

(* The clamp, on the vector of the round that is under way.                *)
ReaderEnters(r) ==
    /\ Goto(r, "idle", "enter")
    /\ vecCount' = Least(vecCount, MaxFetch)
    /\ UNCHANGED <<listVars, vec, body, freed, hold, semVars, done, readerQ,
                   writerQ, roundVars, op, readerVars>>

ReaderEnqueues(r) ==
    /\ Goto(r, "enter", "wait")
    /\ readerQ' = Enqueued(readerQ, FileOf[r])
    /\ UNCHANGED <<tableVars, done, writerQ, roundVars, op, readerVars>>

(* SEM_LOCK on the queue was interrupted, after the clamp.                 *)
ReaderEnqueueInterrupted(r) ==
    /\ Goto(r, "enter", "idle")
    /\ r \in Signalled
    /\ UNCHANGED <<tableVars, done, readerQ, writerQ, roundVars, op, readerVars>>

ReaderWakes(r) ==
    /\ Goto(r, "wait", "copy")
    /\ Take(FileOf[r])
    /\ UNCHANGED <<tableVars, readerQ, writerQ, roundVars, op, readerVars>>

(* The arguments of copy_to_user are read, then it may sleep on a fault.   *)
ReaderCopies(r) ==
    /\ Goto(r, "copy", "copying")
    /\ hold' = [hold EXCEPT ![r] = vec]
    /\ want' = [want EXCEPT ![r] = vecCount]
    /\ UNCHANGED <<listVars, vec, vecCount, body, freed, semVars, done, readerQ,
                   writerQ, roundVars, op, got, rc, tmp>>

ReaderCopied(r) ==
    /\ Goto(r, "copying", "exit")
    /\ got' = [got EXCEPT ![r] = Copied(r, want[r])]
    /\ rc' = [rc EXCEPT ![r] = vecCount]
    /\ hold' = [hold EXCEPT ![r] = Null]
    /\ UNCHANGED <<listVars, vec, vecCount, body, freed, semVars, done, readerQ,
                   writerQ, roundVars, op, want, tmp>>

(* Fault: the semaphore is tested and not taken.                           *)
ReaderLocksExitNot(r) ==
    /\ Goto(r, "exit", "test")
    /\ csSem > 0
    /\ UNCHANGED <<tableVars, done, readerQ, writerQ, roundVars, op, readerVars>>

ReaderLocksExit(r) ==
    /\ Goto(r, "exit", "test")
    /\ csSem > 0
    /\ csSem' = csSem - 1
    /\ UNCHANGED <<listVars, vectorVars, rtSem, done, readerQ, writerQ,
                   roundVars, op, readerVars>>

(* The result of down_interruptible is not looked at.                      *)
ReaderExitInterrupted(r) ==
    /\ Goto(r, "exit", "test")
    /\ csSem = 0 /\ r \in Signalled
    /\ UNCHANGED <<tableVars, done, readerQ, writerQ, roundVars, op, readerVars>>

(* Fault: the last reader but one takes itself for the last.               *)
ReaderTestsEarly(r) ==
    /\ Goto(r, "test", IF n <= 2 THEN "last" ELSE "dec")
    /\ UNCHANGED <<tableVars, done, readerQ, writerQ, roundVars, op, readerVars>>

ReaderTests(r) ==
    /\ Goto(r, "test", IF n = 1 THEN "last" ELSE "dec")
    /\ UNCHANGED <<tableVars, done, readerQ, writerQ, roundVars, op, readerVars>>

LastReaderEmptiesList(r) ==
    /\ Goto(r, "last", "free")
    /\ vecCount' = 0
    /\ rt_empty_change_list
    /\ UNCHANGED <<vec, body, freed, hold, semVars, done, readerQ, writerQ,
                   roundVars, op, readerVars>>

LastReaderFrees(r) ==
    /\ Goto(r, "free", "signal")
    /\ FreeVector
    /\ UNCHANGED <<listVars, vecCount, body, hold, semVars, done, readerQ,
                   writerQ, roundVars, op, readerVars>>

(* Fault: nobody tells the worker.                                         *)
LastReaderSignalsNobody(r) ==
    /\ Goto(r, "signal", "dec")
    /\ UNCHANGED <<tableVars, done, readerQ, writerQ, roundVars, op, readerVars>>

LastReaderSignals(r) ==
    /\ Goto(r, "signal", "dec")
    /\ Complete(Worker)
    /\ UNCHANGED <<tableVars, readerQ, writerQ, roundVars, op, readerVars>>

(* n_readers_to_be_service--, a read and a write, then up.                 *)
ReaderReadsCount(r) ==
    /\ Goto(r, "dec", "store")
    /\ tmp' = [tmp EXCEPT ![r] = n]
    /\ UNCHANGED <<tableVars, done, readerQ, writerQ, roundVars, op, want, got, rc>>

(* Fault: the decrement is missing.                                        *)
ReaderLeavesUncounted(r) ==
    /\ Goto(r, "store", "idle")
    /\ csSem' = csSem + 1
    /\ want' = [want EXCEPT ![r] = 0]
    /\ got' = [got EXCEPT ![r] = <<>>]
    /\ rc' = [rc EXCEPT ![r] = 0]
    /\ tmp' = [tmp EXCEPT ![r] = 0]
    /\ UNCHANGED <<listVars, vectorVars, rtSem, done, readerQ, writerQ, n,
                   toGrant, cnt, op>>

ReaderLeaves(r) ==
    /\ Goto(r, "store", "idle")
    /\ n' = Dec(tmp[r])
    /\ csSem' = csSem + 1
    /\ want' = [want EXCEPT ![r] = 0]
    /\ got' = [got EXCEPT ![r] = <<>>]
    /\ rc' = [rc EXCEPT ![r] = 0]
    /\ tmp' = [tmp EXCEPT ![r] = 0]
    /\ UNCHANGED <<listVars, vectorVars, rtSem, done, readerQ, writerQ, toGrant,
                   cnt, op>>

(* What a reader does once it is in the handler.                           *)
ReaderStep(r) ==
    \/ ReaderEnqueues(r) \/ ReaderEnqueueInterrupted(r) \/ ReaderWakes(r)
    \/ ReaderCopies(r) \/ ReaderCopied(r)
    \/ ReaderLocksExit(r) \/ ReaderExitInterrupted(r) \/ ReaderTests(r)
    \/ LastReaderEmptiesList(r) \/ LastReaderFrees(r) \/ LastReaderSignals(r)
    \/ ReaderReadsCount(r) \/ ReaderLeaves(r)
-----------------------------------------------------------------------------
(* Writers: RT_IOC_COMMON_UPDATE_RT with op code RT_ROUTE_ADD, or one that *)
(* apply_rt_updates ignores (RT_ROUTE_DEL), RT_IOC_RTPURGE and             *)
(* RT_IOC_CR_RTENTRY.                                                      *)
TakesTableLock(w) == op[w] \in {"RT_ROUTE_ADD", "RT_ROUTE_DEL"}

WriterEnqueues(w) ==
    /\ Goto(w, "idle", "wake")
    /\ op' \in {[op EXCEPT ![w] = o] : o \in Ops}
    /\ writerQ' = Enqueued(writerQ, FileOf[w])
    /\ UNCHANGED <<tableVars, done, readerQ, roundVars, readerVars>>

(* Fault: no wake-up.                                                      *)
WriterWakesNobody(w) ==
    /\ Goto(w, "wake", "wait")
    /\ UNCHANGED <<tableVars, done, readerQ, writerQ, roundVars, op, readerVars>>

(* wake_up_interruptible: a worker asleep looks at the queue again.        *)
WriterWakesWorker(w) ==
    /\ pc[w] = "wake" /\ MayRun(w)
    /\ pc' = [pc EXCEPT ![w] = "wait",
                        ![Worker] = IF @ = "asleep" THEN "check" ELSE @]
    /\ UNCHANGED <<tableVars, done, readerQ, writerQ, roundVars, op, readerVars>>

WriterGranted(w) ==
    /\ Goto(w, "wait", "granted")
    /\ Take(FileOf[w])
    /\ UNCHANGED <<tableVars, readerQ, writerQ, roundVars, op, readerVars>>

(* Fault: the writer does not wait for the semaphore.                      *)
WriterLocksAnyway(w) ==
    /\ Goto(w, "granted", "update")
    /\ TakesTableLock(w)
    /\ rtSem' = rtSem - 1
    /\ UNCHANGED <<listVars, vectorVars, csSem, done, readerQ, writerQ,
                   roundVars, op, readerVars>>

WriterLocks(w) ==
    /\ Goto(w, "granted", "update")
    /\ TakesTableLock(w) /\ rtSem > 0
    /\ rtSem' = rtSem - 1
    /\ UNCHANGED <<listVars, vectorVars, csSem, done, readerQ, writerQ,
                   roundVars, op, readerVars>>

(* RT_LOCK_SEM returns -ERESTARTSYS from the handler: the worker, who      *)
(* granted access, is never told.                                          *)
WriterLockInterrupted(w) ==
    /\ Goto(w, "granted", "idle")
    /\ TakesTableLock(w) /\ rtSem = 0 /\ w \in Signalled
    /\ op' = [op EXCEPT ![w] = "none"]
    /\ UNCHANGED <<tableVars, done, readerQ, writerQ, roundVars, readerVars>>

(* RTPURGE and CR_RTENTRY take no lock.                                    *)
WriterBegins(w) ==
    /\ Goto(w, "granted", "update")
    /\ ~TakesTableLock(w)
    /\ UNCHANGED <<tableVars, done, readerQ, writerQ, roundVars, op, readerVars>>

Apply(w) ==
    CASE op[w] \in {"RT_ROUTE_ADD", "CR_RTENTRY"} -> add_rt_table_entry_by_val(w)
      [] op[w] = "RTPURGE" -> purge_rt_table
      [] OTHER -> UNCHANGED listVars

WriterUpdates(w) ==
    /\ Goto(w, "update", "tell")
    /\ Apply(w)
    /\ rtSem' = IF TakesTableLock(w) THEN rtSem + 1 ELSE rtSem
    /\ UNCHANGED <<vectorVars, csSem, done, readerQ, writerQ, roundVars, op,
                   readerVars>>

WriterSignals(w) ==
    /\ Goto(w, "tell", "idle")
    /\ Complete(Worker)
    /\ op' = [op EXCEPT ![w] = "none"]
    /\ UNCHANGED <<tableVars, readerQ, writerQ, roundVars, readerVars>>

WriterLockStep(w) == WriterLocks(w) \/ WriterLockInterrupted(w)

WriterStep(w) == \/ WriterWakesWorker(w) \/ WriterGranted(w) \/ WriterLockStep(w)
                 \/ WriterBegins(w) \/ WriterUpdates(w) \/ WriterSignals(w)
-----------------------------------------------------------------------------
(* Pollers: rt_poll holds the readers' semaphore while it asks, under      *)
(* rt->sem, whether the change list is empty (mutex_is_rt_updated).        *)
PollerLocks(p) ==
    /\ Goto(p, "idle", "poll")
    /\ csSem > 0
    /\ csSem' = csSem - 1
    /\ UNCHANGED <<listVars, vectorVars, rtSem, done, readerQ, writerQ,
                   roundVars, op, readerVars>>

PollerLocksTable(p) ==
    /\ Goto(p, "poll", "query")
    /\ rtSem > 0
    /\ rtSem' = rtSem - 1
    /\ UNCHANGED <<listVars, vectorVars, csSem, done, readerQ, writerQ,
                   roundVars, op, readerVars>>

PollerInterrupted(p) ==
    /\ Goto(p, "poll", "answer")
    /\ rtSem = 0 /\ p \in Signalled
    /\ UNCHANGED <<tableVars, done, readerQ, writerQ, roundVars, op, readerVars>>

PollerQueries(p) ==
    /\ Goto(p, "query", "answer")
    /\ rtSem' = rtSem + 1
    /\ UNCHANGED <<listVars, vectorVars, csSem, done, readerQ, writerQ,
                   roundVars, op, readerVars>>

PollerLeaves(p) ==
    /\ Goto(p, "answer", "idle")
    /\ csSem' = csSem + 1
    /\ UNCHANGED <<listVars, vectorVars, rtSem, done, readerQ, writerQ,
                   roundVars, op, readerVars>>

PollerStep(p) == \/ PollerLocksTable(p) \/ PollerInterrupted(p)
                 \/ PollerQueries(p) \/ PollerLeaves(p)
-----------------------------------------------------------------------------
(* The worker: rt_worker_fn.                                               *)

WorkerSleeps ==
    /\ Goto(Worker, "check", "asleep")
    /\ writerQ = <<>>
    /\ UNCHANGED <<tableVars, done, readerQ, writerQ, roundVars, op, readerVars>>

(* Fault: the writer stays in the queue.                                   *)
WorkerPeeksWriter ==
    /\ Goto(Worker, "check", "withWriter")
    /\ writerQ # <<>>
    /\ Complete(Head(writerQ))
    /\ UNCHANGED <<tableVars, readerQ, writerQ, roundVars, op, readerVars>>

WorkerGrantsWriter ==
    /\ Goto(Worker, "check", "withWriter")
    /\ writerQ # <<>>
    /\ writerQ' = Tail(writerQ)
    /\ Complete(Head(writerQ))
    /\ UNCHANGED <<tableVars, readerQ, roundVars, op, readerVars>>

WriterIsDone ==
    /\ Goto(Worker, "withWriter", "count")
    /\ Take(Worker)
    /\ UNCHANGED <<tableVars, readerQ, writerQ, roundVars, op, readerVars>>

(* Fault: one reader too many.                                             *)
WorkerCountsOneMore ==
    /\ Goto(Worker, "count", "counted")
    /\ n' = Len(readerQ) + 1
    /\ UNCHANGED <<tableVars, done, readerQ, writerQ, toGrant, cnt, op, readerVars>>

WorkerCountsReaders ==
    /\ Goto(Worker, "count", "counted")
    /\ n' = Len(readerQ)
    /\ UNCHANGED <<tableVars, done, readerQ, writerQ, toGrant, cnt, op, readerVars>>

(* Fault: the changes nobody wants stay on the list.                       *)
NoReadersKeepsChanges ==
    /\ Goto(Worker, "counted", "check")
    /\ n = 0
    /\ UNCHANGED <<tableVars, done, readerQ, writerQ, roundVars, op, readerVars>>

NoReaders ==
    /\ Goto(Worker, "counted", "check")
    /\ n = 0
    /\ rt_empty_change_list
    /\ UNCHANGED <<vectorVars, semVars, done, readerQ, writerQ, roundVars, op,
                   readerVars>>

WorkerAllocates ==
    /\ Goto(Worker, "counted", "fill")
    /\ n # 0
    /\ cnt' = Len(changes)
    /\ AllocateVector(Worker)
    /\ UNCHANGED <<listVars, vecCount, semVars, done, readerQ, writerQ, n,
                   toGrant, op, readerVars>>

(* No memory: the readers are let in all the same, to an empty update.     *)
WorkerAllocFails ==
    /\ Goto(Worker, "counted", "grant")
    /\ n # 0 /\ AllocMayFail
    /\ NoVector
    /\ toGrant' = n
    /\ UNCHANGED <<listVars, body, freed, hold, semVars, done, readerQ, writerQ,
                   n, cnt, op, readerVars>>

(* A list that has become shorter ends in a NULL pointer, dereferenced.    *)
WorkerFills ==
    /\ Goto(Worker, "fill", IF cnt <= Len(changes) THEN "grant" ELSE "dead")
    /\ FillVector(Worker, Least(cnt, Len(changes)))
    /\ cnt' = 0
    /\ toGrant' = n
    /\ UNCHANGED <<listVars, vec, freed, semVars, done, readerQ, writerQ, n, op,
                   readerVars>>

WorkerGrantsReader ==
    /\ Goto(Worker, "grant", "grant")
    /\ toGrant > 0 /\ readerQ # <<>>
    /\ toGrant' = toGrant - 1
    /\ readerQ' = Tail(readerQ)
    /\ Complete(Head(readerQ))
    /\ UNCHANGED <<tableVars, writerQ, n, cnt, op, readerVars>>

(* deque answers NULL, which is dereferenced: n has changed since the      *)
(* readers were counted.                                                   *)
WorkerOops ==
    /\ Goto(Worker, "grant", "dead")
    /\ toGrant > 0 /\ readerQ = <<>>
    /\ UNCHANGED <<tableVars, done, readerQ, writerQ, roundVars, op, readerVars>>

(* One turn of the loop of allow_rt_access_to_readers.                     *)
WorkerServesReader == IF readerQ = <<>> THEN WorkerOops ELSE WorkerGrantsReader

WorkerAwaitsReaders ==
    /\ Goto(Worker, "grant", "withReaders")
    /\ toGrant = 0
    /\ UNCHANGED <<tableVars, done, readerQ, writerQ, roundVars, op, readerVars>>

(* Fault: the worker does not wait for the readers.                        *)
ReadersAreNotDone ==
    /\ Goto(Worker, "withReaders", "check")
    /\ UNCHANGED <<tableVars, done, readerQ, writerQ, roundVars, op, readerVars>>

ReadersAreDone ==
    /\ Goto(Worker, "withReaders", "check")
    /\ Take(Worker)
    /\ UNCHANGED <<tableVars, readerQ, writerQ, roundVars, op, readerVars>>

WorkerStep ==
    \/ WorkerSleeps \/ WorkerGrantsWriter \/ WriterIsDone \/ WorkerCountsReaders
    \/ NoReaders \/ WorkerAllocates \/ WorkerAllocFails \/ WorkerFills
    \/ WorkerServesReader \/ WorkerAwaitsReaders \/ ReadersAreDone
-----------------------------------------------------------------------------
Next == \/ WorkerStep
        \/ \E r \in Readers : ReaderEnters(r) \/ ReaderStep(r)
        \/ \E w \in Writers : WriterEnqueues(w) \/ WriterStep(w)
        \/ \E p \in Pollers : PollerLocks(p) \/ PollerStep(p)

Spec == Init /\ [][Next]_vars

(* The kernel runs every thread that stays runnable, and its semaphores are*)
(* first come, first served.  Nothing makes a thread issue another call.   *)
Fairness == /\ WF_vars(WorkerStep)
            /\ \A r \in Readers : /\ WF_vars(ReaderStep(r))
                                  /\ SF_vars(ReaderLocksExit(r))
            /\ \A w \in Writers : /\ WF_vars(WriterStep(w))
                                  /\ SF_vars(WriterLockStep(w))
            /\ \A p \in Pollers : /\ WF_vars(PollerStep(p))
                                  /\ SF_vars(PollerLocksTable(p))

FairSpec == Spec /\ Fairness
-----------------------------------------------------------------------------
(* Where the threads of each kind can be.                                  *)
ReaderAt == {"idle", "enter", "wait", "copy", "copying", "exit"} \cup ExitSection
WriterAt == {"idle", "wake", "wait", "granted", "update", "tell"}
PollerAt == {"idle", "poll", "query", "answer"}
WorkerAt == {"check", "asleep", "withWriter", "count", "counted", "fill",
             "grant", "withReaders", "dead"}

PcOK == /\ pc \in [Threads -> ReaderAt \cup WriterAt \cup PollerAt \cup WorkerAt]
        /\ \A r \in Readers : pc[r] \in ReaderAt
        /\ \A w \in Writers : pc[w] \in WriterAt
        /\ \A p \in Pollers : pc[p] \in PollerAt
        /\ pc[Worker] \in WorkerAt

QueuesOK == /\ done \in [Sleepers -> Nat]
            /\ readerQ \in Seq(Files) /\ Len(readerQ) <= QSize
            /\ writerQ \in Seq(Files) /\ Len(writerQ) <= QSize

RoundOK == n \in Nat /\ toGrant \in Nat /\ cnt \in Nat

LocalsOK == /\ op \in [Writers -> Ops \cup {"none"}]
            /\ want \in [Readers -> Nat]
            /\ got \in [Readers -> Seq(Pieces)]
            /\ rc \in [Readers -> Nat]
            /\ tmp \in [Readers -> Nat]

(* Every thread stays within its own handler, counts never go below zero,  *)
(* and the queues keep to their capacity.                                  *)
TypeOK == TableTypeOK /\ PcOK /\ QueuesOK /\ RoundOK /\ LocalsOK

OneThreadPerFile == \A s, t \in Readers \cup Writers : FileOf[s] = FileOf[t] => s = t

(* Access is granted only to a thread that asked for it and has not had it *)
(* yet: while a thread's file is queued, or its completion is signalled,   *)
(* the thread waits, and it is queued or signalled once, not twice         *)
(* (enqueue, deque and complete of rt_fops.c:276, 161, 204, 165).          *)
InQueue(q, f) == \E i \in 1 .. Len(q) : q[i] = f

GrantedOnce(t, q, waiting) ==
    LET f == FileOf[t]
    IN  /\ \A i, j \in 1 .. Len(q) : q[i] = f /\ q[j] = f => i = j
        /\ done[f] <= 1
        /\ done[f] = 1 => ~InQueue(q, f)
        /\ done[f] = 1 \/ InQueue(q, f) => pc[t] \in waiting

GrantDiscipline ==
    OneThreadPerFile =>
        /\ \A r \in Readers : GrantedOnce(r, readerQ, {"wait"})
        /\ \A w \in Writers : GrantedOnce(w, writerQ, {"wake", "wait"})

Writing == {w \in Writers : pc[w] \in {"granted", "update", "tell"}}
Reading == {r \in Readers : pc[r] \in {"copy", "copying", "exit", "test", "last", "free"}}

(* A writer that was granted access has the table to itself: no second     *)
(* writer, and no reader between its grant and the end of its exit section.*)
ExclusiveWriter == \A w \in Writing : Writing = {w} /\ Reading = {}

(* One thread at a time is in the section rt_serialize_readers_cs_sem      *)
(* guards (rt_fops.c:461-475, 512-568).                                    *)
Guarded == {r \in Readers : pc[r] \in ExitSection}
             \cup {p \in Pollers : pc[p] \in {"poll", "query", "answer"}}
ExclusiveExit == \A s, t \in Guarded : s = t

(* Every reader let in returns the number of pending changes and finds all *)
(* of them in its buffer, newest first, whole as far as EntrySize bytes for*)
(* each reach: the snapshot is not overtaken by a change, a clamp or a free*)
(* before the last of the round has copied it (rt_fops.c:228, 457-458).    *)
Delivered == \A r \in Readers :
    pc[r] = "exit" => rc[r] = Len(changes) /\ Holds(got[r], changes)

(* What readers get is "structure to send update from userspace to kernel  *)
(* and vice versa" (rtkernusr.h:51): each update they read is a whole one. *)
UpdatesAreWhole == \A r \in Readers :
    \A i \in 1 .. Len(got[r]) : got[r][i].bytes = UpdateSize

(* When the worker waits for the last reader, n_readers_to_be_service is   *)
(* the number of readers who have not left, so exactly one of them will see*)
(* a one.                                                                  *)
Unfinished == {r \in Readers : done[FileOf[r]] > 0
                               \/ pc[r] \in {"copy", "copying", "exit"} \cup ExitSection}
RoundCount == pc[Worker] = "withReaders" /\ done[Worker] = 0 /\ Guarded \cap Readers = {}
                  => n = Cardinality(Unfinished) /\ n > 0

(* The worker overwrites rt_update_vector only when it is NULL, so no      *)
(* vector is lost without having been freed.                               *)
NoLeak == pc[Worker] = "counted" => vec = Null

WorkerAlive == pc[Worker] # "dead"

(* Whoever waits for access will be told, and the worker waits for nothing *)
(* that is not to come: a caller that waits is queued or granted, which a  *)
(* full queue would refuse without a word (rt_fops.c:276, 439); a worker   *)
(* asleep beside a writer in its queue is being woken; and the signal it   *)
(* waits for has been given, or one who was granted has still to give it   *)
(* (rt_fops.c:208, 237).                                                   *)
Granted == {w \in Writers : done[FileOf[w]] > 0 \/ pc[w] \in {"granted", "update", "tell"}}

Kept(t, q, waiting) == pc[t] \in waiting => done[FileOf[t]] > 0 \/ InQueue(q, FileOf[t])

CallersKept == /\ \A r \in Readers : Kept(r, readerQ, {"wait"})
               /\ \A w \in Writers : Kept(w, writerQ, {"wake", "wait"})

WorkerNotLost ==
    /\ pc[Worker] = "asleep" /\ writerQ # <<>> => \E w \in Writers : pc[w] = "wake"
    /\ pc[Worker] = "withWriter" => done[Worker] > 0 \/ Granted # {}
    /\ pc[Worker] = "withReaders" =>
           done[Worker] > 0 \/ \E r \in Unfinished : pc[r] \notin {"dec", "store"}

NobodyStranded == CallersKept /\ WorkerNotLost

(* The readers counted for this round that are still in the queue.         *)
Counted == CASE pc[Worker] \in {"counted", "fill"} -> n
             [] pc[Worker] = "grant" -> toGrant
             [] OTHER -> 0

Schedule == INSTANCE ReadersWriters WITH
    writing <- pc[Worker] \in {"withWriter", "count"},
    waiting <- {r \in Readers : \E i \in 1 .. Len(readerQ) :
                                    i > Counted /\ readerQ[i] = FileOf[r]},
    admitted <- {r \in Readers : \E i \in 1 .. Len(readerQ) :
                                    i <= Counted /\ readerQ[i] = FileOf[r]}
                \cup Unfinished

(* The worker, the completions and the count of readers implement the      *)
(* schedule of ReadersWriters.                                             *)
ScheduleSpec == Schedule!Spec

(* A writer that asks for the table gets it and returns.                   *)
WriterServed == \A w \in Writers : pc[w] = "wait" ~> pc[w] = "idle"

(* A reader queued when a writer waits gets that writer's update, or an    *)
(* earlier one, and returns.                                               *)
ReaderServed == \A r \in Readers :
    pc[r] = "wait" /\ (\E w \in Writers : pc[w] = "wait") ~> pc[r] = "idle"
=============================================================================
