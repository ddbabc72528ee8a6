-------------------------- MODULE SchedulerProofs --------------------------
(***************************************************************************)
(* What holds of the scheduler for any number of threads, any queue size   *)
(* and any assignment of open files, whether or not the kernel preempts,   *)
(* signals arrive or memory runs out.  Then mutual exclusion: what the     *)
(* worker's rounds guarantee when the kernel does not preempt and each     *)
(* thread has an open file of its own, with signals and failed             *)
(* allocations, and what the two semaphores guarantee.                     *)
(***************************************************************************)
EXTENDS Scheduler, SequenceTheorems, FiniteSetTheorems, TLAPS

USE DEF listVars, vectorVars, semVars, tableVars, roundVars, readerVars

(* A thread that moves within its own handler leaves every pc in place.    *)
LEMMA ReaderMove ==
  ASSUME PcOK, NEW r \in Readers, NEW to \in ReaderAt, pc' = [pc EXCEPT ![r] = to]
  PROVE  PcOK'
BY SchedulerAssumption DEF PcOK, Threads

LEMMA WriterMove ==
  ASSUME PcOK, NEW w \in Writers, NEW to \in WriterAt, pc' = [pc EXCEPT ![w] = to]
  PROVE  PcOK'
BY SchedulerAssumption DEF PcOK, Threads

LEMMA PollerMove ==
  ASSUME PcOK, NEW p \in Pollers, NEW to \in PollerAt, pc' = [pc EXCEPT ![p] = to]
  PROVE  PcOK'
BY SchedulerAssumption DEF PcOK, Threads

LEMMA WorkerMove ==
  ASSUME PcOK, NEW to \in WorkerAt, pc' = [pc EXCEPT ![Worker] = to]
  PROVE  PcOK'
BY SchedulerAssumption DEF PcOK, Threads

(* Queueing a file keeps a queue within its capacity, and adds the file at *)
(* the end or nowhere.                                                     *)
LEMMA EnqueuedProperties ==
  ASSUME NEW q \in Seq(Files), NEW f \in Files, Len(q) <= QSize
  PROVE  /\ Enqueued(q, f) \in Seq(Files)
         /\ Len(Enqueued(q, f)) <= QSize
         /\ \A i \in 1 .. Len(q) : i \in 1 .. Len(Enqueued(q, f)) /\ Enqueued(q, f)[i] = q[i]
         /\ \A i \in 1 .. Len(Enqueued(q, f)) :
               i \in 1 .. Len(q) \/ (i = Len(q) + 1 /\ Enqueued(q, f)[i] = f)
BY SchedulerAssumption DEF Enqueued

LEMMA FileOfType ==
  ASSUME NEW t \in Readers \cup Writers
  PROVE  FileOf[t] \in Files /\ FileOf[t] \in Sleepers /\ FileOf[t] # Worker
BY SchedulerAssumption DEF Sleepers

(* Taking or adding to a completion leaves counts.                         *)
LEMMA TakeTyping ==
  ASSUME done \in [Sleepers -> Nat], NEW s \in Sleepers, Take(s)
  PROVE  done' \in [Sleepers -> Nat]
<1>1. done[s] - 1 \in Nat
  BY DEF Take
<1> QED
  BY <1>1 DEF Take

LEMMA CompleteTyping ==
  ASSUME done \in [Sleepers -> Nat], NEW s \in Sleepers, Complete(s)
  PROVE  done' \in [Sleepers -> Nat]
BY DEF Complete

(* So many bytes of an element, and all of it if they reach that far.      *)
LEMMA ArrivesProperties ==
  ASSUME NEW i \in Nat \ {0}, NEW k \in Nat
  PROVE  /\ Arrives(i, k) \in Nat
         /\ Arrives(i, k) = UpdateSize <=> i * UpdateSize <= k * EntrySize
<1> DEFINE before == (i - 1) * UpdateSize
           asked == k * EntrySize
<1>1. UpdateSize \in Nat /\ UpdateSize > 0
  BY TableAssumption
<1>2. before \in Nat /\ asked \in Nat /\ i * UpdateSize = before + UpdateSize
  BY <1>1, TableAssumption
<1> HIDE DEF before, asked
<1> QED
  BY <1>1, <1>2 DEF Arrives, Least, before, asked

(* What is copied is a sequence of pieces.                                 *)
LEMMA CopiedType ==
  ASSUME NEW c, NEW k \in Nat, hold[c] # Null => body[hold[c]] \in Seq(Updates)
  PROVE  Copied(c, k) \in Seq(Pieces)
<1>1. CASE hold[c] = Null
  BY <1>1 DEF Copied
<1>2. CASE hold[c] # Null
  <2> DEFINE b == body[hold[c]]
             m == Least(k, Len(b))
  <2>1. b \in Seq(Updates) /\ m \in Nat /\ m <= Len(b)
    BY <1>2 DEF Least
  <2>2. ASSUME NEW i \in 1 .. m PROVE [update |-> b[i], bytes |-> Arrives(i, k)] \in Pieces
    <3>1. b[i] \in Updates
      BY <2>1, ElementOfSeq
    <3>2. i \in Nat \ {0}
      BY <2>1
    <3>3. Arrives(i, k) \in Nat
      BY <3>2, ArrivesProperties
    <3> QED
      BY <3>1, <3>3 DEF Pieces
  <2>3. Copied(c, k) = [i \in 1 .. m |-> [update |-> b[i], bytes |-> Arrives(i, k)]]
    BY <1>2 DEF Copied
  <2>4. Copied(c, k) \in [1 .. m -> Pieces]
    BY <2>2, <2>3
  <2> HIDE DEF m
  <2> QED
    BY <2>1, <2>4
<1> QED
  BY <1>1, <1>2
-----------------------------------------------------------------------------
LEMMA InitTyping == Init => TypeOK
<1> SUFFICES ASSUME Init PROVE TypeOK
  OBVIOUS
<1> USE SchedulerAssumption, TableAssumption DEF Init
<1>1. TableTypeOK
  BY DEF TableInit, TableTypeOK
<1>2. PcOK
  BY DEF PcOK, Threads, ReaderAt, WriterAt, PollerAt, WorkerAt
<1>3. QueuesOK /\ RoundOK /\ LocalsOK
  BY DEF QueuesOK, RoundOK, LocalsOK
<1> QED
  BY <1>1, <1>2, <1>3 DEF TypeOK

LEMMA ReaderTyping ==
  ASSUME TypeOK, NEW r \in Readers, ReaderEnters(r) \/ ReaderStep(r)
  PROVE  TypeOK'
<1> USE SchedulerAssumption, TableAssumption, FileOfType
<1> r \in Threads /\ r \in Copiers /\ r # Worker
  BY DEF Threads
<1>1. PcOK'
  <2>1. \E to \in ReaderAt : pc' = [pc EXCEPT ![r] = to]
    BY DEF Goto, ReaderEnters, ReaderStep, ReaderEnqueues, ReaderEnqueueInterrupted,
           ReaderWakes, ReaderCopies, ReaderCopied, ReaderLocksExit,
           ReaderExitInterrupted, ReaderTests, LastReaderEmptiesList,
           LastReaderFrees, LastReaderSignals, ReaderReadsCount, ReaderLeaves,
           ReaderAt, ExitSection
  <2> QED
    BY <2>1, ReaderMove DEF TypeOK
<1>2. CASE ReaderEnters(r)
  <2>1. vecCount' \in Nat
    BY <1>2 DEF ReaderEnters, TypeOK, TableTypeOK, Least
  <2> QED
    BY <1>1, <1>2, <2>1 DEF ReaderEnters, TypeOK, TableTypeOK, QueuesOK, RoundOK, LocalsOK
<1>3. CASE ReaderEnqueues(r)
  <2>1. readerQ' \in Seq(Files) /\ Len(readerQ') <= QSize
    BY <1>3, EnqueuedProperties DEF ReaderEnqueues, TypeOK, QueuesOK
  <2> QED
    BY <1>1, <1>3, <2>1 DEF ReaderEnqueues, TypeOK, TableTypeOK, QueuesOK, RoundOK, LocalsOK
<1>4. CASE ReaderEnqueueInterrupted(r) \/ ReaderExitInterrupted(r) \/ ReaderTests(r)
  BY <1>1, <1>4 DEF ReaderEnqueueInterrupted, ReaderExitInterrupted, ReaderTests,
     TypeOK, TableTypeOK, QueuesOK, RoundOK, LocalsOK
<1>5. CASE ReaderWakes(r)
  <2>1. done' \in [Sleepers -> Nat]
    BY <1>5, TakeTyping DEF ReaderWakes, TypeOK, QueuesOK
  <2> QED
    BY <1>1, <1>5, <2>1 DEF ReaderWakes, TypeOK, TableTypeOK, QueuesOK, RoundOK, LocalsOK
<1>6. CASE ReaderCopies(r)
  BY <1>1, <1>6 DEF ReaderCopies, TypeOK, TableTypeOK, QueuesOK, RoundOK, LocalsOK
<1>7. CASE ReaderCopied(r)
  <2>1. Copied(r, want[r]) \in Seq(Pieces)
    <3>1. hold[r] # Null => body[hold[r]] \in Seq(Updates)
      BY DEF TypeOK, TableTypeOK
    <3> QED
      BY <3>1, CopiedType DEF TypeOK, LocalsOK
  <2> QED
    BY <1>1, <1>7, <2>1 DEF ReaderCopied, TypeOK, TableTypeOK, QueuesOK, RoundOK, LocalsOK
<1>8. CASE ReaderLocksExit(r)
  BY <1>1, <1>8 DEF ReaderLocksExit, TypeOK, TableTypeOK, QueuesOK, RoundOK, LocalsOK
<1>9. CASE LastReaderEmptiesList(r)
  <2>1. TableTypeOK'
    BY <1>9 DEF LastReaderEmptiesList, rt_empty_change_list, TypeOK, TableTypeOK
  <2>2. QueuesOK' /\ RoundOK' /\ LocalsOK'
    BY <1>9 DEF LastReaderEmptiesList, TypeOK, QueuesOK, RoundOK, LocalsOK
  <2> QED
    BY <1>1, <2>1, <2>2 DEF TypeOK
<1>10. CASE LastReaderFrees(r)
  BY <1>1, <1>10 DEF LastReaderFrees, FreeVector,
     TypeOK, TableTypeOK, QueuesOK, RoundOK, LocalsOK
<1>11. CASE LastReaderSignals(r)
  <2>1. done' \in [Sleepers -> Nat]
    BY <1>11, CompleteTyping DEF LastReaderSignals, TypeOK, QueuesOK, Sleepers
  <2> QED
    BY <1>1, <1>11, <2>1 DEF LastReaderSignals,
       TypeOK, TableTypeOK, QueuesOK, RoundOK, LocalsOK
<1>12. CASE ReaderReadsCount(r)
  BY <1>1, <1>12 DEF ReaderReadsCount, TypeOK, TableTypeOK, QueuesOK, RoundOK, LocalsOK
<1>13. CASE ReaderLeaves(r)
  <2>1. Dec(tmp[r]) \in Nat
    BY DEF Dec, TypeOK, LocalsOK
  <2> QED
    BY <1>1, <1>13, <2>1 DEF ReaderLeaves, TypeOK, TableTypeOK, QueuesOK, RoundOK, LocalsOK
<1> QED
  BY <1>2, <1>3, <1>4, <1>5, <1>6, <1>7, <1>8, <1>9, <1>10, <1>11, <1>12, <1>13
     DEF ReaderStep

LEMMA WriterTyping ==
  ASSUME TypeOK, NEW w \in Writers, WriterEnqueues(w) \/ WriterStep(w)
  PROVE  TypeOK'
<1> USE SchedulerAssumption, TableAssumption, FileOfType
<1> w \in Threads /\ Worker \in Threads /\ Worker \in Sleepers /\ w # Worker
  BY DEF Threads, Sleepers
<1>1. CASE WriterWakesWorker(w)
  <2>1. PcOK'
    BY <1>1 DEF WriterWakesWorker, TypeOK, PcOK, Threads, WriterAt, WorkerAt
  <2> QED
    BY <1>1, <2>1 DEF WriterWakesWorker, TypeOK, TableTypeOK, QueuesOK, RoundOK, LocalsOK
<1>3. CASE WriterEnqueues(w)
  <2>1. PcOK'
    BY <1>3, WriterMove DEF WriterEnqueues, Goto, WriterAt, TypeOK
  <2>2. writerQ' \in Seq(Files) /\ Len(writerQ') <= QSize
    BY <1>3, EnqueuedProperties DEF WriterEnqueues, TypeOK, QueuesOK
  <2>3. op' \in [Writers -> Ops \cup {"none"}]
    <3>1. PICK o \in Ops : op' = [op EXCEPT ![w] = o]
      BY <1>3 DEF WriterEnqueues
    <3> QED
      BY <3>1 DEF TypeOK, LocalsOK
  <2> QED
    BY <1>3, <2>1, <2>2, <2>3
       DEF WriterEnqueues, TypeOK, TableTypeOK, QueuesOK, RoundOK, LocalsOK
<1>4. CASE WriterGranted(w)
  <2>1. PcOK'
    BY <1>4, WriterMove DEF WriterGranted, Goto, WriterAt, TypeOK
  <2>2. QueuesOK'
    BY <1>4, TakeTyping DEF WriterGranted, TypeOK, QueuesOK, Sleepers
  <2>3. TableTypeOK' /\ RoundOK' /\ LocalsOK'
    BY <1>4 DEF WriterGranted, TypeOK, TableTypeOK, RoundOK, LocalsOK
  <2> QED
    BY <2>1, <2>2, <2>3 DEF TypeOK
<1>5. CASE WriterLocks(w) \/ WriterLockInterrupted(w) \/ WriterBegins(w)
  <2>1. PcOK'
    <3>1. PICK to \in WriterAt : pc' = [pc EXCEPT ![w] = to]
      BY <1>5 DEF WriterLocks, WriterLockInterrupted, WriterBegins, Goto, WriterAt
    <3> QED
      BY <3>1, WriterMove DEF TypeOK
  <2>2. CASE WriterLocks(w)
    BY <2>1, <2>2 DEF WriterLocks, TypeOK, TableTypeOK, QueuesOK, RoundOK, LocalsOK
  <2>3. CASE WriterLockInterrupted(w)
    BY <2>1, <2>3 DEF WriterLockInterrupted,
       TypeOK, TableTypeOK, QueuesOK, RoundOK, LocalsOK
  <2>4. CASE WriterBegins(w)
    BY <2>1, <2>4 DEF WriterBegins, TypeOK, TableTypeOK, QueuesOK, RoundOK, LocalsOK
  <2> QED
    BY <1>5, <2>2, <2>3, <2>4
<1>6. CASE WriterUpdates(w)
  <2>1. PcOK'
    BY <1>6, WriterMove DEF WriterUpdates, Goto, WriterAt, TypeOK
  <2>2. table' \subseteq Updates /\ changes' \in Seq(Updates)
    <3>1. <<w>> \o changes \in Seq(Updates)
      BY ConcatProperties DEF TypeOK, TableTypeOK
    <3> QED
      BY <1>6, <3>1 DEF WriterUpdates, Apply, add_rt_table_entry_by_val, purge_rt_table,
         TypeOK, TableTypeOK
  <2> QED
    BY <1>6, <2>1, <2>2 DEF WriterUpdates, TypeOK, TableTypeOK, QueuesOK, RoundOK, LocalsOK
<1>7. CASE WriterSignals(w)
  <2>1. PcOK'
    BY <1>7, WriterMove DEF WriterSignals, Goto, WriterAt, TypeOK
  <2> QED
    BY <1>7, <2>1 DEF WriterSignals, Complete, TypeOK, TableTypeOK, QueuesOK, RoundOK, LocalsOK
<1> QED
  BY <1>1, <1>3, <1>4, <1>5, <1>6, <1>7 DEF WriterStep, WriterLockStep

LEMMA PollerTyping ==
  ASSUME TypeOK, NEW p \in Pollers, PollerLocks(p) \/ PollerStep(p)
  PROVE  TypeOK'
<1> USE DEF PollerLocks, PollerStep, PollerLocksTable, PollerInterrupted,
            PollerQueries, PollerLeaves
<1>1. PcOK'
  <2>1. \E to \in PollerAt : pc' = [pc EXCEPT ![p] = to]
    BY DEF Goto, PollerAt
  <2> QED
    BY <2>1, PollerMove DEF TypeOK
<1>2. csSem' \in Nat /\ rtSem' \in Nat
  BY DEF TypeOK, TableTypeOK
<1> QED
  BY <1>1, <1>2 DEF TypeOK, TableTypeOK, QueuesOK, RoundOK, LocalsOK

LEMMA WorkerTyping ==
  ASSUME TypeOK, WorkerStep
  PROVE  TypeOK'
<1> USE SchedulerAssumption, TableAssumption
<1> Worker \in Threads /\ Worker \in Sleepers /\ Worker \in Copiers
  BY DEF Threads, Sleepers
<1>1. PcOK'
  <2>1. \E to \in WorkerAt : pc' = [pc EXCEPT ![Worker] = to]
    BY DEF Goto, WorkerStep, WorkerServesReader, WorkerSleeps, WorkerGrantsWriter, WriterIsDone,
       WorkerCountsReaders, NoReaders, WorkerAllocates, WorkerAllocFails,
       WorkerFills, WorkerGrantsReader, WorkerAwaitsReaders, ReadersAreDone,
       WorkerOops, WorkerAt
  <2> QED
    BY <2>1, WorkerMove DEF TypeOK
<1>2. CASE WorkerSleeps \/ WorkerAwaitsReaders \/ WorkerOops
  <2>1. UNCHANGED <<tableVars, done, readerQ, writerQ, roundVars, op, readerVars>>
    BY <1>2 DEF WorkerSleeps, WorkerAwaitsReaders, WorkerOops
  <2> QED
    BY <1>1, <2>1 DEF TypeOK, TableTypeOK, QueuesOK, RoundOK, LocalsOK
<1>3. CASE WorkerGrantsWriter
  <2>1. /\ writerQ' \in Seq(Files) /\ Len(writerQ') <= QSize
        /\ Head(writerQ) \in Sleepers
    BY <1>3, HeadTailProperties DEF WorkerGrantsWriter, TypeOK, QueuesOK, Sleepers
  <2>2. QueuesOK'
    BY <1>3, <2>1, CompleteTyping DEF WorkerGrantsWriter, TypeOK, QueuesOK
  <2>3. TableTypeOK' /\ RoundOK' /\ LocalsOK'
    BY <1>3 DEF WorkerGrantsWriter, TypeOK, TableTypeOK, RoundOK, LocalsOK
  <2> QED
    BY <1>1, <2>2, <2>3 DEF TypeOK
<1>4. CASE WriterIsDone \/ ReadersAreDone
  <2>1. done' \in [Sleepers -> Nat]
    BY <1>4, TakeTyping DEF WriterIsDone, ReadersAreDone, TypeOK, QueuesOK
  <2> QED
    BY <1>1, <1>4, <2>1 DEF WriterIsDone, ReadersAreDone,
       TypeOK, TableTypeOK, QueuesOK, RoundOK, LocalsOK
<1>5. CASE WorkerCountsReaders
  BY <1>1, <1>5 DEF WorkerCountsReaders, TypeOK, TableTypeOK, QueuesOK, RoundOK, LocalsOK
<1>6. CASE NoReaders
  BY <1>1, <1>6 DEF NoReaders, rt_empty_change_list,
     TypeOK, TableTypeOK, QueuesOK, RoundOK, LocalsOK
<1>7. CASE WorkerAllocates
  <2>1. PICK v \in Available :
           /\ vec' = v
           /\ hold' = [hold EXCEPT ![Worker] = v]
           /\ body' = [body EXCEPT ![v] = <<>>]
           /\ freed' = freed \ {v}
    BY <1>7 DEF WorkerAllocates, AllocateVector
  <2>2. v \in Vectors
    BY DEF Available
  <2> QED
    BY <1>1, <1>7, <2>1, <2>2 DEF WorkerAllocates,
       TypeOK, TableTypeOK, QueuesOK, RoundOK, LocalsOK
<1>8. CASE WorkerAllocFails
  BY <1>1, <1>8 DEF WorkerAllocFails, NoVector,
     TypeOK, TableTypeOK, QueuesOK, RoundOK, LocalsOK
<1>9. CASE WorkerFills
  <2> DEFINE k == Least(cnt, Len(changes))
  <2>1. k \in Nat /\ \A i \in 1 .. k : changes[i] \in Updates
    BY ElementOfSeq DEF Least, TypeOK, TableTypeOK, RoundOK
  <2>2. SubSeq(changes, 1, k) \in Seq(Updates)
    BY <2>1, SubSeqProperties
  <2>3. TableTypeOK'
    BY <1>9, <2>1, <2>2 DEF WorkerFills, FillVector, TypeOK, TableTypeOK
  <2>4. QueuesOK' /\ RoundOK' /\ LocalsOK'
    BY <1>9 DEF WorkerFills, TypeOK, QueuesOK, RoundOK, LocalsOK
  <2> QED
    BY <1>1, <2>3, <2>4 DEF TypeOK
<1>10. CASE WorkerGrantsReader
  <2>1. /\ readerQ' \in Seq(Files) /\ Len(readerQ') <= QSize
        /\ Head(readerQ) \in Sleepers
    BY <1>10, HeadTailProperties DEF WorkerGrantsReader, TypeOK, QueuesOK, Sleepers
  <2>2. QueuesOK'
    BY <1>10, <2>1, CompleteTyping DEF WorkerGrantsReader, TypeOK, QueuesOK
  <2>3. TableTypeOK' /\ RoundOK' /\ LocalsOK'
    BY <1>10 DEF WorkerGrantsReader, TypeOK, TableTypeOK, RoundOK, LocalsOK
  <2> QED
    BY <1>1, <2>2, <2>3 DEF TypeOK
<1> QED
  BY <1>2, <1>3, <1>4, <1>5, <1>6, <1>7, <1>8, <1>9, <1>10 DEF WorkerStep, WorkerServesReader

LEMMA StepTyping == TypeOK /\ [Next]_vars => TypeOK'
<1> SUFFICES ASSUME TypeOK, [Next]_vars PROVE TypeOK'
  OBVIOUS
<1>1. CASE UNCHANGED vars
  BY <1>1 DEF vars, TypeOK, TableTypeOK, PcOK, QueuesOK, RoundOK, LocalsOK
<1> QED
  BY <1>1, WorkerTyping, ReaderTyping, WriterTyping, PollerTyping DEF Next

(* Threads stay in their handlers, semaphores and counts stay above zero,  *)
(* and queues within their capacity, whatever preempts, fails or signals.  *)
THEOREM Typing == Spec => []TypeOK
BY InitTyping, StepTyping, PTL DEF Spec
-----------------------------------------------------------------------------
(* The queues hold files of their own kind of thread.                      *)
QueueOwners == /\ \A i \in 1 .. Len(readerQ) : \E r \in Readers : readerQ[i] = FileOf[r]
               /\ \A i \in 1 .. Len(writerQ) : \E w \in Writers : writerQ[i] = FileOf[w]

ReadersGranted == \A r \in Readers : GrantedOnce(r, readerQ, {"wait"})
WritersGranted == \A w \in Writers : GrantedOnce(w, writerQ, {"wake", "wait"})

GrantInv == QueueOwners /\ ReadersGranted /\ WritersGranted

(* Taking the head from a queue shifts the rest.                           *)
LEMMA TailProperties ==
  ASSUME NEW q \in Seq(Files), q # <<>>
  PROVE  /\ Head(q) = q[1] /\ 1 \in 1 .. Len(q) /\ Tail(q) \in Seq(Files)
         /\ \A i \in 1 .. Len(Tail(q)) : i + 1 \in 1 .. Len(q) /\ Tail(q)[i] = q[i + 1]
BY HeadTailProperties

(* A step that grants nothing, queues nobody and takes no reader's or      *)
(* writer's grant keeps what is granted, if nobody stops waiting.          *)
LEMMA QuietStep ==
  ASSUME TypeOK, GrantInv,
         UNCHANGED <<readerQ, writerQ>>,
         \A t \in Readers \cup Writers : done'[FileOf[t]] = done[FileOf[t]],
         \A r \in Readers : pc[r] = "wait" => pc'[r] = "wait",
         \A w \in Writers : pc[w] \in {"wake", "wait"} => pc'[w] \in {"wake", "wait"}
  PROVE  GrantInv'
BY DEF GrantInv, QueueOwners, ReadersGranted, WritersGranted, GrantedOnce, InQueue

LEMMA ReaderGrants ==
  ASSUME OneThreadPerFile, TypeOK, GrantInv, NEW r \in Readers,
         ReaderEnters(r) \/ ReaderStep(r)
  PROVE  GrantInv'
<1> USE SchedulerAssumption, FileOfType
<1>0. /\ \A t \in (Readers \cup Writers) \ {r} : FileOf[t] # FileOf[r]
      /\ r \in Threads /\ done \in [Sleepers -> Nat] /\ DOMAIN pc = Threads
  BY DEF OneThreadPerFile, Threads, TypeOK, QueuesOK, PcOK
<1>1. CASE ReaderEnqueues(r)
  <2>1. /\ readerQ' = Enqueued(readerQ, FileOf[r]) /\ UNCHANGED <<done, writerQ>>
        /\ pc[r] = "enter" /\ pc' = [pc EXCEPT ![r] = "wait"]
    BY <1>1 DEF ReaderEnqueues, Goto
  <2>2. ~InQueue(readerQ, FileOf[r]) /\ done[FileOf[r]] # 1
    BY <2>1 DEF GrantInv, ReadersGranted, GrantedOnce
  <2>3. /\ \A i \in 1 .. Len(readerQ) : i \in 1 .. Len(readerQ') /\ readerQ'[i] = readerQ[i]
        /\ \A i \in 1 .. Len(readerQ') : \/ i \in 1 .. Len(readerQ)
                                         \/ i = Len(readerQ) + 1 /\ readerQ'[i] = FileOf[r]
    <3> DEFINE nq == Enqueued(readerQ, FileOf[r])
    <3>1. readerQ \in Seq(Files) /\ Len(readerQ) <= QSize /\ FileOf[r] \in Files
      BY DEF TypeOK, QueuesOK
    <3>2. /\ \A i \in 1 .. Len(readerQ) : i \in 1 .. Len(nq) /\ nq[i] = readerQ[i]
          /\ \A i \in 1 .. Len(nq) : \/ i \in 1 .. Len(readerQ)
                                     \/ i = Len(readerQ) + 1 /\ nq[i] = FileOf[r]
      BY <3>1, EnqueuedProperties
    <3> QED
      BY <2>1, <3>2
  <2>4. QueueOwners'
    BY <2>1, <2>3 DEF GrantInv, QueueOwners
  <2>5. WritersGranted'
    BY <1>0, <2>1 DEF GrantInv, WritersGranted, GrantedOnce, InQueue
  <2>6. ASSUME NEW s \in Readers PROVE GrantedOnce(s, readerQ, {"wait"})'
    <3>1. GrantedOnce(s, readerQ, {"wait"})
      BY DEF GrantInv, ReadersGranted
    <3>2. CASE s = r
      BY <1>0, <2>1, <2>2, <2>3, <3>1, <3>2 DEF GrantedOnce, InQueue
    <3>3. CASE s # r
      BY <1>0, <2>1, <2>3, <3>1, <3>3 DEF GrantedOnce, InQueue
    <3> QED
      BY <3>2, <3>3
  <2> QED
    BY <2>4, <2>5, <2>6 DEF GrantInv, ReadersGranted
<1>2. CASE ReaderWakes(r)
  <2>1. /\ UNCHANGED <<readerQ, writerQ>> /\ pc' = [pc EXCEPT ![r] = "copy"]
        /\ done[FileOf[r]] > 0 /\ done' = [done EXCEPT ![FileOf[r]] = @ - 1]
    BY <1>2 DEF ReaderWakes, Goto, Take
  <2>2. done[FileOf[r]] = 1
    BY <1>0, <2>1 DEF GrantInv, ReadersGranted, GrantedOnce
  <2>3. QueueOwners'
    BY <2>1 DEF GrantInv, QueueOwners
  <2>4. WritersGranted'
    BY <1>0, <2>1 DEF GrantInv, WritersGranted, GrantedOnce, InQueue
  <2>5. ReadersGranted'
    BY <1>0, <2>1, <2>2 DEF GrantInv, ReadersGranted, GrantedOnce, InQueue
  <2> QED
    BY <2>3, <2>4, <2>5 DEF GrantInv
<1>3. CASE LastReaderSignals(r)
  <2>1. /\ pc[r] = "signal" /\ pc' = [pc EXCEPT ![r] = "dec"]
        /\ UNCHANGED <<readerQ, writerQ>> /\ done' = [done EXCEPT ![Worker] = @ + 1]
    BY <1>3 DEF LastReaderSignals, Goto, Complete
  <2> QED
    BY <1>0, <2>1, QuietStep
<1>4. CASE /\ ~ReaderEnqueues(r) /\ ~ReaderWakes(r) /\ ~LastReaderSignals(r)
  <2>1. UNCHANGED <<done, readerQ, writerQ>>
    BY <1>4 DEF ReaderEnters, ReaderStep, ReaderEnqueueInterrupted, ReaderCopies,
       ReaderCopied, ReaderLocksExit, ReaderExitInterrupted, ReaderTests,
       LastReaderEmptiesList, LastReaderFrees, ReaderReadsCount, ReaderLeaves
  <2>2. \E to : pc[r] # "wait" /\ pc' = [pc EXCEPT ![r] = to]
    BY <1>4 DEF Goto, ReaderEnters, ReaderStep, ReaderEnqueueInterrupted, ReaderCopies,
       ReaderCopied, ReaderLocksExit, ReaderExitInterrupted, ReaderTests,
       LastReaderEmptiesList, LastReaderFrees, ReaderReadsCount, ReaderLeaves
  <2> QED
    BY <1>0, <2>1, <2>2, QuietStep
<1> QED
  BY <1>1, <1>2, <1>3, <1>4

LEMMA WriterGrants ==
  ASSUME OneThreadPerFile, TypeOK, GrantInv, NEW w \in Writers,
         WriterEnqueues(w) \/ WriterStep(w)
  PROVE  GrantInv'
<1> USE SchedulerAssumption, FileOfType
<1>0. /\ \A t \in (Readers \cup Writers) \ {w} : FileOf[t] # FileOf[w]
      /\ w \in Threads /\ done \in [Sleepers -> Nat] /\ DOMAIN pc = Threads
  BY DEF OneThreadPerFile, Threads, TypeOK, QueuesOK, PcOK
<1>1. CASE WriterEnqueues(w)
  <2>1. /\ writerQ' = Enqueued(writerQ, FileOf[w]) /\ UNCHANGED <<done, readerQ>>
        /\ pc[w] = "idle" /\ pc' = [pc EXCEPT ![w] = "wake"]
    BY <1>1 DEF WriterEnqueues, Goto
  <2>2. ~InQueue(writerQ, FileOf[w]) /\ done[FileOf[w]] # 1
    BY <2>1 DEF GrantInv, WritersGranted, GrantedOnce
  <2>3. /\ \A i \in 1 .. Len(writerQ) : i \in 1 .. Len(writerQ') /\ writerQ'[i] = writerQ[i]
        /\ \A i \in 1 .. Len(writerQ') : \/ i \in 1 .. Len(writerQ)
                                         \/ i = Len(writerQ) + 1 /\ writerQ'[i] = FileOf[w]
    <3> DEFINE nq == Enqueued(writerQ, FileOf[w])
    <3>1. writerQ \in Seq(Files) /\ Len(writerQ) <= QSize /\ FileOf[w] \in Files
      BY DEF TypeOK, QueuesOK
    <3>2. /\ \A i \in 1 .. Len(writerQ) : i \in 1 .. Len(nq) /\ nq[i] = writerQ[i]
          /\ \A i \in 1 .. Len(nq) : \/ i \in 1 .. Len(writerQ)
                                     \/ i = Len(writerQ) + 1 /\ nq[i] = FileOf[w]
      BY <3>1, EnqueuedProperties
    <3> QED
      BY <2>1, <3>2
  <2>4. QueueOwners'
    BY <2>1, <2>3 DEF GrantInv, QueueOwners
  <2>5. ReadersGranted'
    BY <1>0, <2>1 DEF GrantInv, ReadersGranted, GrantedOnce, InQueue
  <2>6. ASSUME NEW s \in Writers PROVE GrantedOnce(s, writerQ, {"wake", "wait"})'
    <3>1. GrantedOnce(s, writerQ, {"wake", "wait"})
      BY DEF GrantInv, WritersGranted
    <3>2. CASE s = w
      BY <1>0, <2>1, <2>2, <2>3, <3>1, <3>2 DEF GrantedOnce, InQueue
    <3>3. CASE s # w
      BY <1>0, <2>1, <2>3, <3>1, <3>3 DEF GrantedOnce, InQueue
    <3> QED
      BY <3>2, <3>3
  <2> QED
    BY <2>4, <2>5, <2>6 DEF GrantInv, WritersGranted
<1>2. CASE WriterGranted(w)
  <2>1. /\ UNCHANGED <<readerQ, writerQ>> /\ pc' = [pc EXCEPT ![w] = "granted"]
        /\ done[FileOf[w]] > 0 /\ done' = [done EXCEPT ![FileOf[w]] = @ - 1]
    BY <1>2 DEF WriterGranted, Goto, Take
  <2>2. done[FileOf[w]] = 1
    BY <1>0, <2>1 DEF GrantInv, WritersGranted, GrantedOnce
  <2>3. QueueOwners'
    BY <2>1 DEF GrantInv, QueueOwners
  <2>4. ReadersGranted'
    BY <1>0, <2>1 DEF GrantInv, ReadersGranted, GrantedOnce, InQueue
  <2>5. WritersGranted'
    BY <1>0, <2>1, <2>2 DEF GrantInv, WritersGranted, GrantedOnce, InQueue
  <2> QED
    BY <2>3, <2>4, <2>5 DEF GrantInv
<1>3. CASE WriterWakesWorker(w)
  <2>1. /\ UNCHANGED <<done, readerQ, writerQ>>
        /\ pc' = [pc EXCEPT ![w] = "wait",
                            ![Worker] = IF @ = "asleep" THEN "check" ELSE @]
    BY <1>3 DEF WriterWakesWorker
  <2>2. \A t \in Readers \cup Writers : pc'[t] = IF t = w THEN "wait" ELSE pc[t]
    BY <1>0, <2>1 DEF Threads
  <2> QED
    BY <2>1, <2>2, QuietStep
<1>4. CASE WriterSignals(w)
  <2>1. /\ pc[w] = "tell" /\ pc' = [pc EXCEPT ![w] = "idle"]
        /\ UNCHANGED <<readerQ, writerQ>> /\ done' = [done EXCEPT ![Worker] = @ + 1]
    BY <1>4 DEF WriterSignals, Goto, Complete
  <2> QED
    BY <1>0, <2>1, QuietStep
<1>5. CASE WriterLocks(w) \/ WriterLockInterrupted(w) \/ WriterBegins(w) \/ WriterUpdates(w)
  <2>1. UNCHANGED <<done, readerQ, writerQ>>
    BY <1>5 DEF WriterLocks, WriterLockInterrupted, WriterBegins, WriterUpdates
  <2>2. \E to : pc[w] \in {"granted", "update"} /\ pc' = [pc EXCEPT ![w] = to]
    BY <1>5 DEF Goto, WriterLocks, WriterLockInterrupted, WriterBegins, WriterUpdates
  <2> QED
    BY <1>0, <2>1, <2>2, QuietStep
<1> QED
  BY <1>1, <1>2, <1>3, <1>4, <1>5 DEF WriterStep, WriterLockStep

LEMMA PollerGrants ==
  ASSUME TypeOK, GrantInv, NEW p \in Pollers, PollerLocks(p) \/ PollerStep(p)
  PROVE  GrantInv'
<1>1. UNCHANGED <<done, readerQ, writerQ>> /\ \E to : pc' = [pc EXCEPT ![p] = to]
  BY DEF PollerLocks, PollerStep, PollerLocksTable, PollerInterrupted, PollerQueries,
     PollerLeaves, Goto
<1> QED
  BY <1>1, SchedulerAssumption, QuietStep

LEMMA WorkerGrants ==
  ASSUME OneThreadPerFile, TypeOK, GrantInv, WorkerStep
  PROVE  GrantInv'
<1> USE SchedulerAssumption, FileOfType
<1>0. /\ \A s, t \in Readers \cup Writers : FileOf[s] = FileOf[t] => s = t
      /\ done \in [Sleepers -> Nat] /\ readerQ \in Seq(Files) /\ writerQ \in Seq(Files)
  BY DEF OneThreadPerFile, TypeOK, QueuesOK
<1>1. CASE WorkerGrantsWriter
  <2>1. /\ writerQ # <<>> /\ writerQ' = Tail(writerQ) /\ UNCHANGED readerQ
        /\ done' = [done EXCEPT ![Head(writerQ)] = @ + 1]
        /\ \E to : pc' = [pc EXCEPT ![Worker] = to]
    BY <1>1 DEF WorkerGrantsWriter, Complete, Goto
  <2>2. /\ Head(writerQ) = writerQ[1] /\ 1 \in 1 .. Len(writerQ)
        /\ \A i \in 1 .. Len(writerQ') : /\ i + 1 \in 1 .. Len(writerQ)
                                        /\ writerQ'[i] = writerQ[i + 1]
    BY <1>0, <2>1, TailProperties
  <2>3. PICK w \in Writers : Head(writerQ) = FileOf[w]
    BY <2>2 DEF GrantInv, QueueOwners
  <2>4. QueueOwners'
    BY <2>1, <2>2 DEF GrantInv, QueueOwners
  <2>5. ReadersGranted'
    BY <1>0, <2>1, <2>3 DEF GrantInv, ReadersGranted, GrantedOnce, InQueue
  <2>6. ASSUME NEW s \in Writers PROVE GrantedOnce(s, writerQ, {"wake", "wait"})'
    <3>1. GrantedOnce(s, writerQ, {"wake", "wait"}) /\ pc'[s] = pc[s]
      BY <2>1 DEF GrantInv, WritersGranted
    <3>2. CASE s = w
      <4>1. InQueue(writerQ, FileOf[s])
        BY <2>2, <2>3, <3>2 DEF InQueue
      <4>2. done[FileOf[s]] = 0
        BY <1>0, <3>1, <4>1 DEF GrantedOnce
      <4>3. \A i \in 1 .. Len(writerQ') : writerQ'[i] # FileOf[s]
        BY <2>2, <2>3, <3>1, <3>2 DEF GrantedOnce
      <4> QED
        BY <1>0, <2>1, <2>3, <3>1, <3>2, <4>1, <4>2, <4>3 DEF GrantedOnce, InQueue
    <3>3. CASE s # w
      <4>1. done'[FileOf[s]] = done[FileOf[s]]
        BY <1>0, <2>1, <2>3, <3>3
      <4> QED
        BY <2>2, <3>1, <4>1 DEF GrantedOnce, InQueue
    <3> QED
      BY <3>2, <3>3
  <2> QED
    BY <2>4, <2>5, <2>6 DEF GrantInv, WritersGranted
<1>2. CASE WorkerGrantsReader
  <2>1. /\ readerQ # <<>> /\ readerQ' = Tail(readerQ) /\ UNCHANGED writerQ
        /\ done' = [done EXCEPT ![Head(readerQ)] = @ + 1]
        /\ \E to : pc' = [pc EXCEPT ![Worker] = to]
    BY <1>2 DEF WorkerGrantsReader, Complete, Goto
  <2>2. /\ Head(readerQ) = readerQ[1] /\ 1 \in 1 .. Len(readerQ)
        /\ \A i \in 1 .. Len(readerQ') : /\ i + 1 \in 1 .. Len(readerQ)
                                        /\ readerQ'[i] = readerQ[i + 1]
    BY <1>0, <2>1, TailProperties
  <2>3. PICK r \in Readers : Head(readerQ) = FileOf[r]
    BY <2>2 DEF GrantInv, QueueOwners
  <2>4. QueueOwners'
    BY <2>1, <2>2 DEF GrantInv, QueueOwners
  <2>5. WritersGranted'
    BY <1>0, <2>1, <2>3 DEF GrantInv, WritersGranted, GrantedOnce, InQueue
  <2>6. ASSUME NEW s \in Readers PROVE GrantedOnce(s, readerQ, {"wait"})'
    <3>1. GrantedOnce(s, readerQ, {"wait"}) /\ pc'[s] = pc[s]
      BY <2>1 DEF GrantInv, ReadersGranted
    <3>2. CASE s = r
      <4>1. InQueue(readerQ, FileOf[s])
        BY <2>2, <2>3, <3>2 DEF InQueue
      <4>2. done[FileOf[s]] = 0
        BY <1>0, <3>1, <4>1 DEF GrantedOnce
      <4>3. \A i \in 1 .. Len(readerQ') : readerQ'[i] # FileOf[s]
        BY <2>2, <2>3, <3>1, <3>2 DEF GrantedOnce
      <4> QED
        BY <1>0, <2>1, <2>3, <3>1, <3>2, <4>1, <4>2, <4>3 DEF GrantedOnce, InQueue
    <3>3. CASE s # r
      <4>1. done'[FileOf[s]] = done[FileOf[s]]
        BY <1>0, <2>1, <2>3, <3>3
      <4>2. InQueue(readerQ', FileOf[s]) => InQueue(readerQ, FileOf[s])
        BY <2>2 DEF InQueue
      <4> QED
        BY <2>2, <3>1, <4>1, <4>2 DEF GrantedOnce
    <3> QED
      BY <3>2, <3>3
  <2> QED
    BY <2>4, <2>5, <2>6 DEF GrantInv, ReadersGranted
<1>3. CASE ~WorkerGrantsWriter /\ ~WorkerGrantsReader
  <2>1. /\ UNCHANGED <<readerQ, writerQ>>
        /\ UNCHANGED done \/ done' = [done EXCEPT ![Worker] = @ - 1]
    BY <1>3 DEF WorkerStep, WorkerServesReader, WorkerSleeps, WriterIsDone, WorkerCountsReaders, NoReaders,
       WorkerAllocates, WorkerAllocFails, WorkerFills, WorkerAwaitsReaders,
       ReadersAreDone, WorkerOops, Take
  <2>2. \E to : pc' = [pc EXCEPT ![Worker] = to]
    BY <1>3 DEF WorkerStep, WorkerServesReader, WorkerSleeps, WriterIsDone, WorkerCountsReaders, NoReaders,
       WorkerAllocates, WorkerAllocFails, WorkerFills, WorkerAwaitsReaders,
       ReadersAreDone, WorkerOops, Goto
  <2>3. \A t \in Readers \cup Writers : pc'[t] = pc[t] /\ done'[FileOf[t]] = done[FileOf[t]]
    BY <1>0, <2>1, <2>2
  <2> QED
    BY <2>1, <2>3, QuietStep
<1> QED
  BY <1>1, <1>2, <1>3

(* A thread is granted access only while it waits for it, once for each    *)
(* time it asked, when every thread has an open file of its own.           *)
THEOREM GrantsAreDisciplined == Spec => []GrantDiscipline
<1> DEFINE InvPerFile == OneThreadPerFile => GrantInv
<1>1. Init => InvPerFile
  BY SchedulerAssumption, FileOfType DEF Init, GrantInv, QueueOwners, ReadersGranted,
     WritersGranted, GrantedOnce, InQueue
<1>2. TypeOK /\ InvPerFile /\ [Next]_vars => InvPerFile'
  <2> SUFFICES ASSUME OneThreadPerFile, TypeOK, GrantInv, [Next]_vars PROVE GrantInv'
    BY DEF OneThreadPerFile
  <2>1. CASE UNCHANGED vars
    BY <2>1, QuietStep DEF vars
  <2> QED
    BY <2>1, ReaderGrants, WriterGrants, PollerGrants, WorkerGrants DEF Next
<1>3. InvPerFile => GrantDiscipline
  BY DEF GrantInv, GrantDiscipline, ReadersGranted, WritersGranted
<1> QED
  BY <1>1, <1>2, <1>3, Typing, PTL DEF Spec
-----------------------------------------------------------------------------
Leaving == {"dec", "store"}

(* Between rounds nobody has access.                                       *)
QuietInv == pc[Worker] \in {"check", "asleep", "count", "counted", "fill"}
                => Granted = {} /\ Unfinished = {} /\ done[Worker] = 0

(* The readers and the changes that were counted are still there.          *)
CountInv == /\ pc[Worker] \in {"counted", "fill"} => n <= Len(readerQ)
            /\ pc[Worker] = "fill" => cnt = Len(changes) /\ n # 0

(* While the worker waits for a writer there is one, or it has signalled,  *)
(* or a signal has sent it away.                                           *)
WriterRound == pc[Worker] = "withWriter" =>
                  /\ Unfinished = {} /\ done[Worker] \in {0, 1}
                  /\ done[Worker] = 1 => Granted = {}
                  /\ \A v, w \in Granted : v = w

(* n counts the readers still to be let in and those not yet out, until    *)
(* the last of them has signalled.                                         *)
ReaderRound == pc[Worker] \in {"grant", "withReaders"} =>
                  /\ Granted = {}
                  /\ IsFiniteSet(Unfinished) /\ n = toGrant + Cardinality(Unfinished)
                  /\ toGrant <= Len(readerQ)
                  /\ pc[Worker] = "withReaders" => toGrant = 0
                  /\ done[Worker] \in {0, 1}
                  /\ done[Worker] = 0 => n > 0
                  /\ done[Worker] = 1 => toGrant = 0 /\ \A r \in Unfinished : pc[r] \in Leaving

(* One reader at a time is in its exit section, and it takes itself for    *)
(* the last exactly when it is.                                            *)
ExitRound == /\ \A r, s \in Readers : pc[r] \in ExitSection /\ pc[s] \in ExitSection => r = s
             /\ \A r \in Readers : pc[r] = "store" => tmp[r] = n
             /\ \A r \in Readers : pc[r] \in {"last", "free", "signal"} => n = 1 /\ done[Worker] = 0
             /\ \A r \in Readers : pc[r] \in Leaving /\ done[Worker] = 0 => n > 1

RoundInv == QuietInv /\ CountInv /\ WriterRound /\ ReaderRound /\ ExitRound /\ WorkerAlive

(* A thread with access shows which kind of round the worker is in.        *)
LEMMA Stage ==
  ASSUME TypeOK, RoundInv
  PROVE  /\ Unfinished # {} => pc[Worker] \in {"grant", "withReaders"}
         /\ Granted # {} => pc[Worker] = "withWriter"
BY DEF TypeOK, PcOK, WorkerAt, RoundInv, QuietInv, WriterRound, ReaderRound, WorkerAlive

(* A reader in its handler after its grant is unfinished.                  *)
LEMMA InHandler ==
  ASSUME NEW r \in Readers, pc[r] \in {"copy", "copying", "exit"} \cup ExitSection
  PROVE  r \in Unfinished
BY DEF Unfinished

(* Files tell threads apart.                                               *)
LEMMA OwnFile ==
  ASSUME OneThreadPerFile, NEW s \in Readers \cup Writers, NEW t \in Readers \cup Writers, s # t
  PROVE  FileOf[s] # FileOf[t]
BY DEF OneThreadPerFile

(* Steps that move nobody in or out, and leave the worker where it is.     *)
LEMMA Steady ==
  ASSUME TypeOK, TypeOK', RoundInv,
         pc'[Worker] = pc[Worker], done'[Worker] = done[Worker],
         Granted' = Granted, Unfinished' = Unfinished,
         UNCHANGED <<n, toGrant, cnt>>,
         pc[Worker] = "fill" => changes' = changes,
         Len(readerQ) <= Len(readerQ'),
         done[Worker] = 1 => \A r \in Unfinished : pc[r] \in Leaving => pc'[r] \in Leaving
  PROVE  QuietInv' /\ CountInv' /\ WriterRound' /\ ReaderRound' /\ WorkerAlive'
<1>1. QuietInv' /\ WriterRound' /\ WorkerAlive'
  BY DEF RoundInv, QuietInv, WriterRound, WorkerAlive
<1>2. CountInv'
  BY DEF RoundInv, CountInv, TypeOK, QueuesOK, RoundOK
<1>3. ReaderRound'
  BY DEF RoundInv, ReaderRound, TypeOK, QueuesOK, RoundOK
<1> QED
  BY <1>1, <1>2, <1>3
-----------------------------------------------------------------------------
(* What a reader's step does to the sets: it moves within its handler, and *)
(* its file's completion changes only when it takes it.                    *)
LEMMA ReaderMoves ==
  ASSUME OneThreadPerFile, TypeOK, GrantInv, NEW r \in Readers, NEW to,
         pc' = [pc EXCEPT ![r] = to],
         \A f \in Files : done'[f] = done[f],
         pc[r] # "wait"
  PROVE  /\ Granted' = Granted
         /\ pc'[Worker] = pc[Worker] /\ pc'[r] = to
         /\ \A s \in Readers \ {r} : pc'[s] = pc[s] /\ (s \in Unfinished' <=> s \in Unfinished)
         /\ r \in Unfinished <=> pc[r] \in {"copy", "copying", "exit"} \cup ExitSection
         /\ r \in Unfinished' <=> to \in {"copy", "copying", "exit"} \cup ExitSection
<1> USE SchedulerAssumption, FileOfType
<1>1. done[FileOf[r]] = 0 /\ \A t \in Readers \cup Writers : done'[FileOf[t]] = done[FileOf[t]]
  BY DEF GrantInv, ReadersGranted, GrantedOnce, TypeOK, QueuesOK
<1>2. /\ r \in Threads /\ DOMAIN pc = Threads /\ r # Worker
      /\ \A w \in Writers : w # r
  BY DEF Threads, TypeOK, PcOK
<1>3. Granted' = Granted
  BY <1>1, <1>2 DEF Granted
<1> QED
  BY <1>1, <1>2, <1>3 DEF Unfinished

LEMMA ReaderRounds ==
  ASSUME ~Preemptible, OneThreadPerFile, TypeOK, TypeOK', GrantInv, RoundInv,
         NEW r \in Readers, ReaderEnters(r) \/ ReaderStep(r)
  PROVE  RoundInv'
<1> USE SchedulerAssumption, FileOfType
<1>0. /\ r \in Threads /\ DOMAIN pc = Threads /\ r # Worker
      /\ n \in Nat /\ toGrant \in Nat /\ DOMAIN tmp = Readers
      /\ done \in [Sleepers -> Nat] /\ Worker \in Sleepers
      /\ readerQ \in Seq(Files) /\ Len(readerQ) \in Nat
  <2>1. r \in Threads /\ DOMAIN pc = Threads /\ r # Worker
    BY DEF Threads, TypeOK, PcOK
  <2>2. n \in Nat /\ toGrant \in Nat /\ DOMAIN tmp = Readers
    BY DEF TypeOK, RoundOK, LocalsOK
  <2>3. done \in [Sleepers -> Nat] /\ Worker \in Sleepers
    BY DEF TypeOK, QueuesOK, Sleepers
  <2>4. readerQ \in Seq(Files) /\ Len(readerQ) \in Nat
    BY DEF TypeOK, QueuesOK
  <2> QED
    BY <2>1, <2>2, <2>3, <2>4
<1>1. CASE ReaderWakes(r)
  <2>1. /\ pc[r] = "wait" /\ pc' = [pc EXCEPT ![r] = "copy"]
        /\ done[FileOf[r]] > 0 /\ done' = [done EXCEPT ![FileOf[r]] = @ - 1]
        /\ UNCHANGED <<readerQ, n, toGrant, cnt, tmp, changes>>
    BY <1>1 DEF ReaderWakes, Goto, Take
  <2>2. \A t \in (Readers \cup Writers) \ {r} : FileOf[t] # FileOf[r]
    BY OwnFile
  <2>3. Granted' = Granted
    BY <1>0, <2>1, <2>2 DEF Granted
  <2>4. r \in Unfinished /\ Unfinished' = Unfinished
    BY <1>0, <2>1, <2>2 DEF Unfinished
  <2>5. ExitRound'
    BY <1>0, <2>1 DEF RoundInv, ExitRound, ExitSection, Leaving
  <2>6. /\ pc'[Worker] = pc[Worker] /\ done'[Worker] = done[Worker]
        /\ \A s \in Readers : pc[s] \in Leaving => pc'[s] \in Leaving
    BY <1>0, <2>1 DEF Leaving
  <2> QED
    BY <1>0, <2>1, <2>3, <2>4, <2>5, <2>6, Steady DEF RoundInv
<1>2. CASE ReaderEnters(r) \/ ReaderEnqueues(r) \/ ReaderEnqueueInterrupted(r)
  <2>1. PICK to \in {"enter", "wait", "idle"} :
          /\ pc[r] \in {"idle", "enter"} /\ pc' = [pc EXCEPT ![r] = to]
          /\ UNCHANGED <<done, n, toGrant, cnt, tmp, changes>>
          /\ readerQ' = readerQ \/ readerQ' = Enqueued(readerQ, FileOf[r])
    BY <1>2 DEF ReaderEnters, ReaderEnqueues, ReaderEnqueueInterrupted, Goto
  <2>2. Len(readerQ) <= Len(readerQ')
    BY <1>0, <2>1 DEF Enqueued
  <2>3. /\ Granted' = Granted /\ pc'[Worker] = pc[Worker] /\ pc'[r] = to
        /\ \A s \in Readers \ {r} : pc'[s] = pc[s] /\ (s \in Unfinished' <=> s \in Unfinished)
        /\ r \notin Unfinished /\ r \notin Unfinished'
    BY <2>1, ReaderMoves DEF ExitSection
  <2>4. Unfinished' = Unfinished
    BY <2>3 DEF Unfinished
  <2>5. ExitRound'
    BY <2>1, <2>3 DEF RoundInv, ExitRound, ExitSection, Leaving
  <2>6. \A s \in Unfinished : pc'[s] = pc[s]
    BY <2>3 DEF Unfinished
  <2> QED
    BY <2>1, <2>2, <2>3, <2>4, <2>5, <2>6, Steady DEF RoundInv
<1>3. CASE \/ ReaderCopies(r) \/ ReaderCopied(r)
           \/ ReaderLocksExit(r) \/ ReaderExitInterrupted(r)
  <2>1. PICK to \in {"copying", "exit", "test"} :
          /\ pc[r] \in {"copy", "copying", "exit"} /\ pc' = [pc EXCEPT ![r] = to] /\ MayRun(r)
          /\ UNCHANGED <<done, readerQ, n, toGrant, cnt, tmp, changes>>
    BY <1>3 DEF ReaderCopies, ReaderCopied, ReaderLocksExit, ReaderExitInterrupted, Goto
  <2>3. /\ Granted' = Granted /\ pc'[Worker] = pc[Worker] /\ pc'[r] = to
        /\ \A s \in Readers \ {r} : pc'[s] = pc[s] /\ (s \in Unfinished' <=> s \in Unfinished)
        /\ r \in Unfinished /\ r \in Unfinished'
    BY <2>1, ReaderMoves DEF ExitSection
  <2>4. Unfinished' = Unfinished
    BY <2>3 DEF Unfinished
  <2>5. ExitRound'
    BY <2>1, <2>3 DEF RoundInv, ExitRound, ExitSection, Leaving, MayRun
  <2>6. \A s \in Unfinished : pc[s] \in Leaving => pc'[s] \in Leaving
    BY <2>1, <2>3 DEF Unfinished, Leaving
  <2> QED
    BY <1>0, <2>1, <2>3, <2>4, <2>5, <2>6, Steady DEF RoundInv
<1>4. CASE \/ ReaderTests(r) \/ LastReaderEmptiesList(r) \/ LastReaderFrees(r)
           \/ ReaderReadsCount(r)
  <2>1. PICK to \in ExitSection :
          /\ pc[r] \in ExitSection /\ pc' = [pc EXCEPT ![r] = to]
          /\ UNCHANGED <<done, readerQ, n, toGrant, cnt>>
          /\ pc[r] = "test" => UNCHANGED <<tmp, changes>> /\ to = (IF n = 1 THEN "last" ELSE "dec")
          /\ pc[r] = "last" => tmp' = tmp /\ to = "free"
          /\ pc[r] = "free" => tmp' = tmp /\ to = "signal"
          /\ pc[r] = "dec" => to = "store" /\ tmp' = [tmp EXCEPT ![r] = n]
          /\ pc[r] \in {"test", "last", "free", "dec"}
    BY <1>4 DEF ReaderTests, LastReaderEmptiesList, LastReaderFrees, ReaderReadsCount,
       Goto, ExitSection
  <2>3. /\ Granted' = Granted /\ pc'[Worker] = pc[Worker] /\ pc'[r] = to
        /\ \A s \in Readers \ {r} : pc'[s] = pc[s] /\ (s \in Unfinished' <=> s \in Unfinished)
        /\ r \in Unfinished /\ r \in Unfinished'
    BY <2>1, ReaderMoves
  <2>4. Unfinished' = Unfinished /\ pc[Worker] \in {"grant", "withReaders"}
    BY <2>3, Stage DEF Unfinished
  <2>5. /\ done[Worker] \in {0, 1} /\ (done[Worker] = 0 => n > 0)
        /\ done[Worker] = 1 => pc[r] \in Leaving
    BY <2>3, <2>4 DEF RoundInv, ReaderRound
  <2>6. ExitRound'
    <3>1. \A s \in Readers \ {r} : pc'[s] \notin ExitSection
      BY <2>1, <2>3 DEF RoundInv, ExitRound
    <3>2. /\ to = "store" => tmp'[r] = n
          /\ to \in {"last", "free", "signal"} => n = 1 /\ done[Worker] = 0
          /\ to \in Leaving /\ done[Worker] = 0 => n > 1
      BY <1>0, <2>1, <2>5 DEF RoundInv, ExitRound, Leaving
    <3> QED
      BY <2>1, <2>3, <3>1, <3>2 DEF ExitRound, ExitSection, Leaving
  <2>7. \A s \in Unfinished : pc[s] \in Leaving => pc'[s] \in Leaving
    BY <2>1, <2>3 DEF Unfinished, Leaving
  <2> QED
    BY <1>0, <2>1, <2>3, <2>4, <2>6, <2>7, Steady DEF RoundInv
<1>5. CASE LastReaderSignals(r)
  <2>1. /\ pc[r] = "signal" /\ pc' = [pc EXCEPT ![r] = "dec"]
        /\ done' = [done EXCEPT ![Worker] = @ + 1]
        /\ UNCHANGED <<readerQ, n, toGrant, cnt, tmp, changes>>
    BY <1>5 DEF LastReaderSignals, Goto, Complete
  <2>2. \A f \in Files : done'[f] = done[f]
    BY <1>0, <2>1
  <2>3. /\ Granted' = Granted /\ pc'[Worker] = pc[Worker] /\ pc'[r] = "dec"
        /\ \A s \in Readers \ {r} : pc'[s] = pc[s] /\ (s \in Unfinished' <=> s \in Unfinished)
        /\ r \in Unfinished /\ r \in Unfinished'
    BY <2>1, <2>2, ReaderMoves DEF ExitSection
  <2>4. Unfinished' = Unfinished /\ pc[Worker] \in {"grant", "withReaders"}
    BY <2>3, Stage DEF Unfinished
  <2>5. n = 1 /\ done[Worker] = 0 /\ done'[Worker] = 1
    BY <1>0, <2>1 DEF RoundInv, ExitRound
  <2>6. toGrant = 0 /\ \A s \in Unfinished : s = r
    <3>1. IsFiniteSet(Unfinished) /\ n = toGrant + Cardinality(Unfinished)
      BY <2>4 DEF RoundInv, ReaderRound
    <3>2. Cardinality(Unfinished) \in Nat /\ Cardinality(Unfinished) # 0
      BY <2>3, <3>1, FS_CardinalityType, FS_EmptySet
    <3>3. Cardinality(Unfinished) = 1 /\ toGrant = 0
      BY <1>0, <2>5, <3>1, <3>2
    <3> QED
      BY <2>3, <3>1, <3>3, FS_Singleton
  <2>7. ReaderRound'
    BY <2>1, <2>3, <2>4, <2>5, <2>6 DEF RoundInv, ReaderRound, Leaving
  <2>8. ExitRound'
    BY <2>1, <2>3, <2>5 DEF RoundInv, ExitRound, ExitSection, Leaving
  <2> QED
    BY <2>3, <2>4, <2>7, <2>8 DEF RoundInv, QuietInv, CountInv, WriterRound, WorkerAlive
<1>6. CASE ReaderLeaves(r)
  <2>1. /\ pc[r] = "store" /\ pc' = [pc EXCEPT ![r] = "idle"]
        /\ n' = Dec(tmp[r]) /\ UNCHANGED <<done, readerQ, toGrant, cnt, changes>>
        /\ tmp' = [tmp EXCEPT ![r] = 0]
    BY <1>6 DEF ReaderLeaves, Goto
  <2>2. pc[r] # "wait" /\ \A f \in Files : done'[f] = done[f]
    BY <2>1
  <2>3. /\ Granted' = Granted /\ pc'[Worker] = pc[Worker] /\ pc'[r] = "idle"
        /\ \A s \in Readers \ {r} : pc'[s] = pc[s] /\ (s \in Unfinished' <=> s \in Unfinished)
        /\ r \in Unfinished /\ r \notin Unfinished'
    <3>1. /\ Granted' = Granted /\ pc'[Worker] = pc[Worker] /\ pc'[r] = "idle"
          /\ \A s \in Readers \ {r} : pc'[s] = pc[s] /\ (s \in Unfinished' <=> s \in Unfinished)
          /\ r \in Unfinished <=> pc[r] \in {"copy", "copying", "exit"} \cup ExitSection
          /\ r \in Unfinished' <=> "idle" \in {"copy", "copying", "exit"} \cup ExitSection
      BY <2>1, <2>2, ReaderMoves
    <3> QED
      BY <2>1, <3>1 DEF ExitSection
  <2>4. Unfinished' = Unfinished \ {r} /\ pc[Worker] \in {"grant", "withReaders"}
    BY <2>3, Stage DEF Unfinished
  <2>5. /\ Granted = {} /\ IsFiniteSet(Unfinished) /\ n = toGrant + Cardinality(Unfinished)
        /\ toGrant <= Len(readerQ) /\ (pc[Worker] = "withReaders" => toGrant = 0)
        /\ done[Worker] \in {0, 1}
        /\ done[Worker] = 1 => toGrant = 0 /\ \A s \in Unfinished : pc[s] \in Leaving
    BY <2>4 DEF RoundInv, ReaderRound
  <2>6. /\ IsFiniteSet(Unfinished') /\ Cardinality(Unfinished') = Cardinality(Unfinished) - 1
        /\ Cardinality(Unfinished) \in Nat /\ Cardinality(Unfinished) # 0
    <3>1. /\ IsFiniteSet(Unfinished \ {r})
          /\ Cardinality(Unfinished \ {r}) = Cardinality(Unfinished) - 1
      BY <2>3, <2>5, FS_RemoveElement
    <3>2. Cardinality(Unfinished) \in Nat /\ Cardinality(Unfinished) # 0
      BY <2>3, <2>5, FS_CardinalityType, FS_EmptySet
    <3> QED
      BY <2>4, <3>1, <3>2
  <2>7. tmp[r] = n /\ n # 0 /\ (done[Worker] = 0 => n > 1)
    BY <1>0, <2>1, <2>5, <2>6 DEF RoundInv, ExitRound, Leaving
  <2>8. n' = n - 1 /\ n' = toGrant' + Cardinality(Unfinished') /\ (done[Worker] = 0 => n' > 0)
    BY <1>0, <2>1, <2>5, <2>6, <2>7 DEF Dec
  <2>9. done[Worker] = 1 => \A s \in Unfinished' : pc'[s] \in Leaving
    BY <2>3, <2>4, <2>5 DEF Unfinished
  <2>10. ReaderRound'
    BY <2>1, <2>3, <2>4, <2>5, <2>6, <2>8, <2>9 DEF ReaderRound
  <2>11. \A s \in Readers : pc'[s] \notin ExitSection
    BY <2>1, <2>3 DEF RoundInv, ExitRound, ExitSection
  <2>12. ExitRound'
    BY <2>11 DEF ExitRound, ExitSection, Leaving
  <2> QED
    BY <2>3, <2>4, <2>10, <2>12 DEF RoundInv, QuietInv, CountInv, WriterRound, WorkerAlive
<1> QED
  BY <1>1, <1>2, <1>3, <1>4, <1>5, <1>6 DEF ReaderStep
-----------------------------------------------------------------------------
(* What a writer's step does to the sets, when it takes no grant.          *)
LEMMA WriterMoves ==
  ASSUME OneThreadPerFile, TypeOK, GrantInv, NEW w \in Writers, NEW to,
         pc'[w] = to, \A t \in (Readers \cup Writers) \ {w} : pc'[t] = pc[t],
         \A f \in Files : done'[f] = done[f],
         pc[w] \notin {"wake", "wait"}
  PROVE  /\ Unfinished' = Unfinished
         /\ \A v \in Writers \ {w} : v \in Granted' <=> v \in Granted
         /\ w \in Granted <=> pc[w] \in {"granted", "update", "tell"}
         /\ w \in Granted' <=> to \in {"granted", "update", "tell"}
<1> USE SchedulerAssumption, FileOfType
<1>1. done[FileOf[w]] = 0 /\ \A t \in Readers \cup Writers : done'[FileOf[t]] = done[FileOf[t]]
  BY DEF GrantInv, WritersGranted, GrantedOnce, TypeOK, QueuesOK
<1>2. Unfinished' = Unfinished
  BY <1>1 DEF Unfinished
<1> QED
  BY <1>1, <1>2 DEF Granted

(* Readers in their handlers do not notice what a writer does.             *)
LEMMA ExitUnmoved ==
  ASSUME RoundInv, \A r \in Readers : pc'[r] = pc[r],
         UNCHANGED <<n, tmp>>,
         done'[Worker] = done[Worker] \/ Unfinished = {}
  PROVE  ExitRound'
<1>1. CASE done'[Worker] = done[Worker]
  BY <1>1 DEF RoundInv, ExitRound
<1>2. CASE Unfinished = {}
  <2>1. \A r \in Readers : pc'[r] \notin ExitSection
    BY <1>2, InHandler
  <2> QED
    BY <2>1 DEF ExitRound, ExitSection, Leaving
<1> QED
  BY <1>1, <1>2

LEMMA WriterRounds ==
  ASSUME OneThreadPerFile, TypeOK, TypeOK', GrantInv, RoundInv,
         NEW w \in Writers, WriterEnqueues(w) \/ WriterStep(w)
  PROVE  RoundInv'
<1> USE SchedulerAssumption, FileOfType
<1>0. /\ w \in Threads /\ Worker \in Threads /\ DOMAIN pc = Threads /\ w # Worker
      /\ \A t \in Readers \cup Writers : t \in Threads /\ t # Worker
      /\ w \notin Readers
      /\ done \in [Sleepers -> Nat] /\ Worker \in Sleepers
      /\ Len(readerQ) \in Nat
  BY DEF Threads, TypeOK, PcOK, QueuesOK, Sleepers
<1>1. UNCHANGED <<readerQ, n, toGrant, cnt, tmp>>
  BY DEF WriterStep, WriterLockStep, WriterEnqueues, WriterWakesWorker, WriterGranted,
     WriterLocks, WriterLockInterrupted, WriterBegins, WriterUpdates, WriterSignals
<1>2. CASE WriterGranted(w)
  <2>1. /\ pc[w] = "wait" /\ pc' = [pc EXCEPT ![w] = "granted"]
        /\ done[FileOf[w]] > 0 /\ done' = [done EXCEPT ![FileOf[w]] = @ - 1]
        /\ UNCHANGED changes
    BY <1>2 DEF WriterGranted, Goto, Take
  <2>2. \A t \in (Readers \cup Writers) \ {w} : FileOf[t] # FileOf[w]
    BY OwnFile
  <2>3. Granted' = Granted
    BY <1>0, <2>1, <2>2 DEF Granted
  <2>4. Unfinished' = Unfinished
    BY <1>0, <2>1, <2>2 DEF Unfinished
  <2>5. /\ pc'[Worker] = pc[Worker] /\ done'[Worker] = done[Worker]
        /\ \A r \in Readers : pc'[r] = pc[r]
    BY <1>0, <2>1
  <2>6. ExitRound'
    BY <1>1, <2>5, ExitUnmoved
  <2> QED
    BY <1>0, <1>1, <2>1, <2>3, <2>4, <2>5, <2>6, Steady DEF RoundInv, Unfinished
<1>3. CASE WriterWakesWorker(w)
  <2>1. /\ pc[w] = "wake" /\ UNCHANGED <<done, changes>>
        /\ pc' = [pc EXCEPT ![w] = "wait",
                            ![Worker] = IF @ = "asleep" THEN "check" ELSE @]
    BY <1>3 DEF WriterWakesWorker
  <2>2. /\ \A t \in Readers \cup Writers : pc'[t] = IF t = w THEN "wait" ELSE pc[t]
        /\ pc'[Worker] = IF pc[Worker] = "asleep" THEN "check" ELSE pc[Worker]
    BY <1>0, <2>1
  <2>3. Granted' = Granted /\ Unfinished' = Unfinished
    BY <1>0, <2>1, <2>2 DEF Granted, Unfinished
  <2>4. ExitRound'
    BY <1>0, <1>1, <2>1, <2>2, ExitUnmoved
  <2>5. CASE pc[Worker] = "asleep"
    <3>1. pc'[Worker] = "check" /\ Granted' = {} /\ Unfinished' = {} /\ done'[Worker] = 0
      BY <2>1, <2>2, <2>3, <2>5 DEF RoundInv, QuietInv
    <3> QED
      BY <2>4, <3>1 DEF RoundInv, QuietInv, CountInv, WriterRound, ReaderRound, WorkerAlive
  <2>6. CASE pc[Worker] # "asleep"
    BY <1>0, <1>1, <2>1, <2>2, <2>3, <2>4, <2>6, Steady DEF RoundInv, Unfinished
  <2> QED
    BY <2>5, <2>6
<1>4. CASE WriterSignals(w)
  <2>1. /\ pc[w] = "tell" /\ pc' = [pc EXCEPT ![w] = "idle"]
        /\ done' = [done EXCEPT ![Worker] = @ + 1]
    BY <1>4 DEF WriterSignals, Goto, Complete
  <2>2. /\ pc'[w] = "idle" /\ \A t \in (Readers \cup Writers) \ {w} : pc'[t] = pc[t]
        /\ \A f \in Files : done'[f] = done[f]
        /\ pc'[Worker] = pc[Worker] /\ done'[Worker] = done[Worker] + 1
    BY <1>0, <2>1
  <2>3. /\ Unfinished' = Unfinished /\ w \in Granted /\ w \notin Granted'
        /\ \A v \in Writers \ {w} : v \in Granted' <=> v \in Granted
    BY <2>1, <2>2, WriterMoves
  <2>4. pc[Worker] = "withWriter"
    BY <2>3, Stage
  <2>5. Unfinished = {} /\ done[Worker] = 0 /\ \A v \in Granted : v = w
    BY <2>3, <2>4 DEF RoundInv, WriterRound
  <2>6. Granted' = {}
    BY <2>3, <2>5 DEF Granted
  <2>7. ExitRound'
    BY <1>0, <1>1, <2>2, <2>5, ExitUnmoved
  <2> QED
    BY <2>2, <2>3, <2>4, <2>5, <2>6, <2>7
       DEF RoundInv, QuietInv, CountInv, WriterRound, ReaderRound, WorkerAlive
<1>5. CASE \/ WriterEnqueues(w) \/ WriterLocks(w) \/ WriterLockInterrupted(w)
           \/ WriterBegins(w) \/ WriterUpdates(w)
  <2>1. PICK to \in {"wake", "update", "idle", "tell"} :
          /\ pc' = [pc EXCEPT ![w] = to] /\ UNCHANGED done
          /\ IF to = "wake" THEN pc[w] = "idle" ELSE pc[w] \in {"granted", "update"}
          /\ changes' = changes \/ pc[w] = "update"
    BY <1>5 DEF WriterEnqueues, WriterLocks, WriterLockInterrupted, WriterBegins,
       WriterUpdates, Goto
  <2>2. /\ pc'[w] = to /\ \A t \in (Readers \cup Writers) \ {w} : pc'[t] = pc[t]
        /\ \A f \in Files : done'[f] = done[f]
        /\ pc'[Worker] = pc[Worker] /\ done'[Worker] = done[Worker]
        /\ \A r \in Readers : pc'[r] = pc[r]
    BY <1>0, <2>1
  <2>3. /\ Unfinished' = Unfinished
        /\ \A v \in Writers \ {w} : v \in Granted' <=> v \in Granted
        /\ w \in Granted <=> pc[w] \in {"granted", "update", "tell"}
        /\ w \in Granted' <=> to \in {"granted", "update", "tell"}
    BY <2>1, <2>2, WriterMoves
  <2>4. ExitRound'
    BY <1>1, <2>2, ExitUnmoved
  <2>5. CASE Granted' = Granted
    <3>1. pc[Worker] = "fill" => changes' = changes
      BY <2>1, <2>3, Stage
    <3> QED
      BY <1>0, <1>1, <2>2, <2>3, <2>4, <2>5, <3>1, Steady DEF RoundInv, Unfinished
  <2>6. CASE Granted' # Granted
    <3>1. w \in Granted /\ w \notin Granted'
      BY <2>1, <2>3, <2>6 DEF Granted
    <3>2. pc[Worker] = "withWriter"
      BY <3>1, Stage
    <3>3. Granted' \subseteq Granted
      BY <2>3, <3>1 DEF Granted
    <3> QED
      BY <2>2, <2>3, <2>4, <3>2, <3>3
         DEF RoundInv, QuietInv, CountInv, WriterRound, ReaderRound, WorkerAlive
  <2> QED
    BY <2>5, <2>6
<1> QED
  BY <1>2, <1>3, <1>4, <1>5 DEF WriterStep, WriterLockStep

LEMMA PollerRounds ==
  ASSUME TypeOK, TypeOK', RoundInv, NEW p \in Pollers, PollerLocks(p) \/ PollerStep(p)
  PROVE  RoundInv'
<1>1. /\ UNCHANGED <<done, readerQ, n, toGrant, cnt, tmp, changes>>
      /\ \E to : pc' = [pc EXCEPT ![p] = to]
  BY DEF PollerLocks, PollerStep, PollerLocksTable, PollerInterrupted, PollerQueries,
     PollerLeaves, Goto
<1>2. \A t \in Readers \cup Writers \cup {Worker} : pc'[t] = pc[t]
  BY <1>1, SchedulerAssumption
<1>3. Granted' = Granted /\ Unfinished' = Unfinished
  BY <1>1, <1>2 DEF Granted, Unfinished
<1>4. ExitRound'
  BY <1>1, <1>2, ExitUnmoved
<1>5. Len(readerQ) <= Len(readerQ')
  BY <1>1 DEF TypeOK, QueuesOK
<1> QED
  BY <1>1, <1>2, <1>3, <1>4, <1>5, Steady DEF RoundInv, Unfinished
-----------------------------------------------------------------------------
LEMMA WorkerRounds ==
  ASSUME ~Preemptible, OneThreadPerFile, TypeOK, TypeOK', GrantInv, RoundInv, WorkerStep
  PROVE  RoundInv'
<1> USE SchedulerAssumption, FileOfType
<1>0. /\ Worker \in Threads /\ DOMAIN pc = Threads /\ Worker \in Sleepers
      /\ \A t \in Readers \cup Writers : t # Worker /\ FileOf[t] # Worker
      /\ done \in [Sleepers -> Nat] /\ n \in Nat /\ toGrant \in Nat
      /\ readerQ \in Seq(Files) /\ writerQ \in Seq(Files) /\ Len(readerQ) \in Nat
      /\ Len(changes) \in Nat
  <2>1. changes \in Seq(Updates)
    BY DEF TypeOK, TableTypeOK
  <2>2. Worker \in Threads /\ DOMAIN pc = Threads /\ Worker \in Sleepers
    BY DEF Threads, TypeOK, PcOK, Sleepers
  <2> QED
    BY <2>1, <2>2 DEF TypeOK, QueuesOK, RoundOK
<1>1. \A r \in Readers : pc'[r] = pc[r] /\ pc[r] \notin ExitSection
  <2>1. \E to : pc' = [pc EXCEPT ![Worker] = to]
    BY DEF WorkerStep, WorkerServesReader, WorkerSleeps, WorkerGrantsWriter, WriterIsDone,
       WorkerCountsReaders, NoReaders, WorkerAllocates, WorkerAllocFails, WorkerFills,
       WorkerGrantsReader, WorkerAwaitsReaders, ReadersAreDone, WorkerOops, Goto
  <2>2. MayRun(Worker)
    BY DEF WorkerStep, WorkerServesReader, WorkerSleeps, WorkerGrantsWriter, WriterIsDone,
       WorkerCountsReaders, NoReaders, WorkerAllocates, WorkerAllocFails, WorkerFills,
       WorkerGrantsReader, WorkerAwaitsReaders, ReadersAreDone, WorkerOops, Goto
  <2> QED
    BY <1>0, <2>1, <2>2 DEF MayRun
<1>2. ExitRound'
  BY <1>1 DEF ExitRound, ExitSection, Leaving
<1>3. \A r \in Unfinished : pc[r] \notin Leaving
  BY <1>1 DEF Unfinished, Leaving, ExitSection
<1>4. ASSUME NEW to, pc' = [pc EXCEPT ![Worker] = to],
             \A f \in Files : done'[f] = done[f]
      PROVE  Granted' = Granted /\ Unfinished' = Unfinished /\ pc'[Worker] = to
  BY <1>0, <1>4 DEF Granted, Unfinished
<1>5. CASE WorkerSleeps \/ WorkerCountsReaders \/ NoReaders \/ WorkerAllocates
  <2>1. PICK to \in {"asleep", "counted", "check", "fill"} :
          /\ pc[Worker] \in {"check", "count", "counted"}
          /\ pc' = [pc EXCEPT ![Worker] = to] /\ UNCHANGED <<done, readerQ>>
          /\ to = "counted" => n' = Len(readerQ)
          /\ to = "fill" => /\ pc[Worker] = "counted" /\ n # 0 /\ n' = n
                            /\ cnt' = Len(changes) /\ UNCHANGED changes
    BY <1>5 DEF WorkerSleeps, WorkerCountsReaders, NoReaders, WorkerAllocates, Goto
  <2>2. Granted' = Granted /\ Unfinished' = Unfinished /\ pc'[Worker] = to
    BY <1>4, <2>1
  <2>3. QuietInv'
    BY <2>1, <2>2 DEF RoundInv, QuietInv
  <2>4. CountInv'
    BY <1>0, <2>1, <2>2 DEF RoundInv, CountInv
  <2> QED
    BY <1>2, <2>1, <2>2, <2>3, <2>4 DEF RoundInv, WriterRound, ReaderRound, WorkerAlive
<1>6. CASE WorkerGrantsWriter
  <2>1. /\ pc[Worker] = "check" /\ pc' = [pc EXCEPT ![Worker] = "withWriter"]
        /\ writerQ # <<>> /\ done' = [done EXCEPT ![Head(writerQ)] = @ + 1]
    BY <1>6 DEF WorkerGrantsWriter, Complete, Goto
  <2>2. PICK w \in Writers : Head(writerQ) = FileOf[w]
    BY <1>0, <2>1, TailProperties DEF GrantInv, QueueOwners
  <2>3. /\ \A t \in (Readers \cup Writers) \ {w} : FileOf[t] # FileOf[w]
        /\ FileOf[w] \in Sleepers /\ w \notin Readers
    BY OwnFile
  <2>4. Granted = {} /\ Unfinished = {} /\ done[Worker] = 0
    BY <2>1 DEF RoundInv, QuietInv
  <2>5. /\ done'[Worker] = 0 /\ pc'[Worker] = "withWriter"
        /\ \A t \in (Readers \cup Writers) \ {w} : done'[FileOf[t]] = done[FileOf[t]]
        /\ \A t \in Readers \cup Writers : pc'[t] = pc[t]
    BY <1>0, <2>1, <2>2, <2>3, <2>4
  <2>6. Unfinished' = {}
    BY <2>3, <2>4, <2>5 DEF Unfinished
  <2>7. \A v \in Granted' : v = w
    BY <2>4, <2>5 DEF Granted
  <2> QED
    BY <1>2, <2>5, <2>6, <2>7
       DEF RoundInv, QuietInv, CountInv, WriterRound, ReaderRound, WorkerAlive
<1>7. CASE WriterIsDone \/ ReadersAreDone
  <2>1. PICK to \in {"count", "check"} :
          /\ pc' = [pc EXCEPT ![Worker] = to] /\ pc[Worker] \in {"withWriter", "withReaders"}
          /\ done[Worker] > 0 /\ done' = [done EXCEPT ![Worker] = @ - 1]
    BY <1>7 DEF WriterIsDone, ReadersAreDone, Goto, Take
  <2>2. done[Worker] = 1 /\ Granted = {} /\ Unfinished = {}
    BY <1>3, <2>1 DEF RoundInv, WriterRound, ReaderRound
  <2>3. Granted' = {} /\ Unfinished' = {} /\ pc'[Worker] = to /\ done'[Worker] = 0
    <3>1. done'[Worker] = 0 /\ \A f \in Files : done'[f] = done[f]
      BY <1>0, <2>1, <2>2
    <3> QED
      BY <1>4, <2>1, <2>2, <3>1
  <2> QED
    BY <1>2, <2>1, <2>3 DEF RoundInv, QuietInv, CountInv, WriterRound, ReaderRound, WorkerAlive
<1>8. CASE WorkerAllocFails \/ WorkerFills
  <2>1. /\ pc[Worker] \in {"counted", "fill"} /\ n # 0 /\ toGrant' = n
        /\ pc' = [pc EXCEPT ![Worker] = "grant"]
        /\ UNCHANGED <<done, readerQ, n>>
    <3>1. CASE WorkerAllocFails
      BY <3>1 DEF WorkerAllocFails, Goto
    <3>2. CASE WorkerFills
      <4>1. pc[Worker] = "fill" /\ cnt = Len(changes) /\ n # 0
        BY <3>2 DEF WorkerFills, Goto, RoundInv, CountInv
      <4> QED
        BY <1>0, <3>2, <4>1 DEF WorkerFills, Goto
    <3> QED
      BY <1>8, <3>1, <3>2
  <2>2. Granted = {} /\ Unfinished = {} /\ done[Worker] = 0 /\ n <= Len(readerQ)
    BY <2>1 DEF RoundInv, QuietInv, CountInv
  <2>3. Granted' = {} /\ Unfinished' = {} /\ pc'[Worker] = "grant"
    BY <1>4, <2>1, <2>2
  <2>4. ReaderRound'
    <3>1. IsFiniteSet(Unfinished') /\ Cardinality(Unfinished') = 0
      BY <2>3, FS_EmptySet
    <3> QED
      BY <1>0, <2>1, <2>2, <2>3, <3>1 DEF ReaderRound
  <2> QED
    BY <1>2, <2>3, <2>4 DEF RoundInv, QuietInv, CountInv, WriterRound, WorkerAlive
<1>9. CASE WorkerGrantsReader
  <2>1. /\ pc[Worker] = "grant" /\ pc' = [pc EXCEPT ![Worker] = "grant"]
        /\ toGrant > 0 /\ readerQ # <<>> /\ toGrant' = toGrant - 1
        /\ readerQ' = Tail(readerQ) /\ n' = n
        /\ done' = [done EXCEPT ![Head(readerQ)] = @ + 1]
    BY <1>9 DEF WorkerGrantsReader, Complete, Goto
  <2>2. PICK r \in Readers : Head(readerQ) = FileOf[r] /\ InQueue(readerQ, FileOf[r])
    BY <1>0, <2>1, TailProperties DEF GrantInv, QueueOwners, InQueue
  <2>3. /\ \A t \in (Readers \cup Writers) \ {r} : FileOf[t] # FileOf[r]
        /\ FileOf[r] \in Sleepers /\ r \notin Writers
    BY OwnFile
  <2>4. /\ Granted = {} /\ IsFiniteSet(Unfinished) /\ n = toGrant + Cardinality(Unfinished)
        /\ toGrant <= Len(readerQ) /\ done[Worker] = 0 /\ n > 0
    BY <1>0, <2>1 DEF RoundInv, ReaderRound
  <2>5. /\ done'[Worker] = 0 /\ pc'[Worker] = "grant" /\ done'[FileOf[r]] = done[FileOf[r]] + 1
        /\ \A t \in (Readers \cup Writers) \ {r} : done'[FileOf[t]] = done[FileOf[t]]
        /\ \A t \in Readers \cup Writers : pc'[t] = pc[t]
    BY <1>0, <2>1, <2>2, <2>3, <2>4
  <2>6. Granted' = {}
    BY <2>3, <2>4, <2>5 DEF Granted
  <2>7. r \notin Unfinished
    <3>1. done[FileOf[r]] = 0 /\ pc[r] = "wait"
      BY <1>0, <2>2 DEF GrantInv, ReadersGranted, GrantedOnce
    <3> QED
      BY <3>1 DEF Unfinished, ExitSection
  <2>8. Unfinished' = Unfinished \cup {r}
    BY <1>0, <2>3, <2>5 DEF Unfinished
  <2>9. IsFiniteSet(Unfinished') /\ Cardinality(Unfinished') = Cardinality(Unfinished) + 1
    BY <2>4, <2>7, <2>8, FS_AddElement
  <2>10. Cardinality(Unfinished) \in Nat /\ Len(readerQ') = Len(readerQ) - 1
    BY <1>0, <2>1, <2>4, FS_CardinalityType, HeadTailProperties
  <2>11. ReaderRound'
    BY <1>0, <2>1, <2>4, <2>5, <2>6, <2>9, <2>10 DEF ReaderRound
  <2> QED
    BY <1>2, <2>5, <2>11 DEF RoundInv, QuietInv, CountInv, WriterRound, WorkerAlive
<1>10. CASE WorkerAwaitsReaders
  <2>1. /\ pc[Worker] = "grant" /\ pc' = [pc EXCEPT ![Worker] = "withReaders"]
        /\ toGrant = 0 /\ UNCHANGED <<done, readerQ, n, toGrant>>
    BY <1>10 DEF WorkerAwaitsReaders, Goto
  <2>2. Granted' = Granted /\ Unfinished' = Unfinished /\ pc'[Worker] = "withReaders"
    BY <1>4, <2>1
  <2>3. ReaderRound'
    BY <1>3, <2>1, <2>2 DEF RoundInv, ReaderRound
  <2> QED
    BY <1>2, <2>2, <2>3 DEF RoundInv, QuietInv, CountInv, WriterRound, WorkerAlive
<1>11. CASE WorkerOops
  <2>1. pc[Worker] = "grant" /\ toGrant > 0 /\ readerQ = <<>>
    BY <1>11 DEF WorkerOops, Goto
  <2>2. toGrant <= 0
    BY <2>1 DEF RoundInv, ReaderRound
  <2> QED
    BY <1>0, <2>1, <2>2
<1> QED
  BY <1>5, <1>6, <1>7, <1>8, <1>9, <1>10, <1>11 DEF WorkerStep, WorkerServesReader

(* The rounds are sound.                                                   *)
LEMMA RoundsAreSound == ~Preemptible /\ OneThreadPerFile => (Spec => [](TypeOK /\ GrantInv /\ RoundInv))
<1> SUFFICES ASSUME ~Preemptible, OneThreadPerFile
             PROVE  Spec => [](TypeOK /\ GrantInv /\ RoundInv)
  OBVIOUS
<1>1. Init => TypeOK /\ GrantInv /\ RoundInv
  <2> SUFFICES ASSUME Init PROVE TypeOK /\ GrantInv /\ RoundInv
    OBVIOUS
  <2> USE SchedulerAssumption, FileOfType DEF Init
  <2>1. TypeOK
    BY InitTyping
  <2>2. GrantInv
    BY DEF GrantInv, QueueOwners, ReadersGranted, WritersGranted, GrantedOnce, InQueue
  <2>3. /\ pc[Worker] = "check" /\ done[Worker] = 0
        /\ \A t \in Readers \cup Writers : pc[t] = "idle" /\ done[FileOf[t]] = 0
    BY DEF Threads, Sleepers
  <2>4. Granted = {} /\ Unfinished = {}
    BY <2>3 DEF Granted, Unfinished, ExitSection
  <2> QED
    BY <2>1, <2>2, <2>3, <2>4 DEF RoundInv, QuietInv, CountInv, WriterRound, ReaderRound,
       ExitRound, WorkerAlive, ExitSection, Leaving
<1>2. TypeOK /\ GrantInv /\ RoundInv /\ [Next]_vars => (TypeOK /\ GrantInv /\ RoundInv)'
  <2> SUFFICES ASSUME TypeOK, GrantInv, RoundInv, [Next]_vars
               PROVE  TypeOK' /\ GrantInv' /\ RoundInv'
    OBVIOUS
  <2>1. TypeOK'
    BY StepTyping
  <2>2. CASE UNCHANGED vars
    <3>1. Granted' = Granted /\ Unfinished' = Unfinished
      BY <2>2 DEF vars, Granted, Unfinished
    <3>2. RoundInv'
      BY <2>2, <3>1 DEF vars, RoundInv, QuietInv, CountInv, WriterRound, ReaderRound,
         ExitRound, WorkerAlive
    <3> QED
      BY <2>1, <2>2, <3>2, QuietStep DEF vars
  <2>3. CASE WorkerStep
    BY <2>1, <2>3, WorkerGrants, WorkerRounds
  <2>4. CASE \E r \in Readers : ReaderEnters(r) \/ ReaderStep(r)
    BY <2>1, <2>4, ReaderGrants, ReaderRounds
  <2>5. CASE \E w \in Writers : WriterEnqueues(w) \/ WriterStep(w)
    BY <2>1, <2>5, WriterGrants, WriterRounds
  <2>6. CASE \E p \in Pollers : PollerLocks(p) \/ PollerStep(p)
    BY <2>1, <2>6, PollerGrants, PollerRounds
  <2> QED
    BY <2>2, <2>3, <2>4, <2>5, <2>6 DEF Next
<1> QED
  BY <1>1, <1>2, PTL DEF Spec

(* A writer that was granted the table has it to itself: the worker waits  *)
(* for its signal before it grants anything else (rt_fops.c:204-208).      *)
THEOREM WritersExclude == ~Preemptible /\ OneThreadPerFile => (Spec => []ExclusiveWriter)
<1>1. TypeOK /\ GrantInv /\ RoundInv => ExclusiveWriter
  <2> SUFFICES ASSUME TypeOK, RoundInv, NEW w \in Writing PROVE Writing = {w} /\ Reading = {}
    BY DEF ExclusiveWriter
  <2>1. Writing \subseteq Granted /\ Reading \subseteq Unfinished
    BY DEF Writing, Granted, Reading, Unfinished, ExitSection
  <2>2. pc[Worker] = "withWriter"
    BY <2>1, Stage
  <2> QED
    BY <2>1, <2>2 DEF RoundInv, WriterRound
<1> QED
  BY <1>1, RoundsAreSound, PTL

(* While the worker waits for the readers of a round it let in, the count  *)
(* is the number of those who have not left, and one of them will see a    *)
(* one (rt_fops.c:213, 237 and 463-473).                                   *)
THEOREM RoundsAreCounted == ~Preemptible /\ OneThreadPerFile => (Spec => []RoundCount)
<1>1. TypeOK /\ GrantInv /\ RoundInv => RoundCount
  <2> SUFFICES ASSUME TypeOK, RoundInv, pc[Worker] = "withReaders", done[Worker] = 0
               PROVE  n = Cardinality(Unfinished) /\ n > 0
    BY DEF RoundCount
  <2>1. /\ n = toGrant + Cardinality(Unfinished) /\ toGrant = 0 /\ n > 0
        /\ IsFiniteSet(Unfinished)
    BY DEF RoundInv, ReaderRound
  <2> QED
    BY <2>1, FS_CardinalityType
<1> QED
  BY <1>1, RoundsAreSound, PTL

(* The worker never dereferences what an empty queue or a list that got    *)
(* shorter answers (rt_fops.c:161-165, rt_table.c:269-274).                *)
THEOREM WorkerSurvives == ~Preemptible /\ OneThreadPerFile => (Spec => []WorkerAlive)
<1>1. TypeOK /\ GrantInv /\ RoundInv => WorkerAlive
  BY DEF RoundInv
<1> QED
  BY <1>1, RoundsAreSound, PTL
-----------------------------------------------------------------------------
(* Nobody is stranded.  The queues have room for all who may wait.         *)
QueuesSuffice == /\ IsFiniteSet(Readers) /\ Cardinality(Readers) <= QSize
                 /\ IsFiniteSet(Writers) /\ Cardinality(Writers) <= QSize

(* What is inductive of NobodyStranded, given the invariants of the rounds.*)
WaitInv ==
    /\ CallersKept
    /\ pc[Worker] = "asleep" /\ writerQ # <<>> => \E w \in Writers : pc[w] = "wake"
    /\ pc[Worker] = "withWriter" => done[Worker] > 0 \/ Granted # {}

(* A queue of files of T, each there once, has room for one that is not in *)
(* it: its elements inject into the others.                                *)
LEMMA Room ==
  ASSUME NEW T, IsFiniteSet(T), Cardinality(T) <= QSize, NEW t \in T,
         NEW q \in Seq(Files), ~InQueue(q, FileOf[t]),
         \A i \in 1 .. Len(q) : \E s \in T : q[i] = FileOf[s],
         \A i, j \in 1 .. Len(q) : q[i] = q[j] => i = j
  PROVE  Len(q) < QSize
<1> DEFINE f == [i \in 1 .. Len(q) |-> CHOOSE s \in T : q[i] = FileOf[s]]
<1>1. Len(q) \in Nat
  OBVIOUS
<1>2. \A i \in 1 .. Len(q) : f[i] \in T /\ q[i] = FileOf[f[i]]
  OBVIOUS
<1>3. \A i \in 1 .. Len(q) : f[i] # t
  BY <1>2 DEF InQueue
<1>4. f \in [1 .. Len(q) -> T \ {t}]
  BY <1>2, <1>3
<1>5. \A i, j \in 1 .. Len(q) : f[i] = f[j] => i = j
  BY <1>2
<1> HIDE DEF f
<1>6. f \in Injection(1 .. Len(q), T \ {t})
  BY <1>4, <1>5 DEF Injection, IsInjective
<1>7. IsFiniteSet(T \ {t}) /\ Cardinality(T \ {t}) = Cardinality(T) - 1
  BY FS_RemoveElement
<1>8. Cardinality(1 .. Len(q)) <= Cardinality(T \ {t})
  BY <1>6, <1>7, FS_Injection
<1>9. Cardinality(1 .. Len(q)) = Len(q)
  <2>1. ASSUME NEW k \in Nat PROVE Cardinality(1 .. k) = k
    <3>1. Cardinality(1 .. k) = IF 1 > k THEN 0 ELSE k - 1 + 1
      BY FS_Interval
    <3> QED
      BY <3>1
  <2> QED
    BY <1>1, <2>1
<1>10. Cardinality(T) \in Nat
  BY FS_CardinalityType
<1> QED
  BY <1>1, <1>7, <1>8, <1>9, <1>10, SchedulerAssumption

LEMMA EnqueuedWithRoom ==
  ASSUME NEW q \in Seq(Files), NEW f \in Files, Len(q) < QSize
  PROVE  /\ InQueue(Enqueued(q, f), f)
         /\ \A g \in Files : InQueue(q, g) => InQueue(Enqueued(q, f), g)
BY DEF Enqueued, InQueue

(* Who is behind the head stays in the queue.                              *)
LEMMA InTail ==
  ASSUME NEW q \in Seq(Files), q # <<>>, NEW f, InQueue(q, f), f # Head(q)
  PROVE  InQueue(Tail(q), f)
<1>1. PICK i \in 1 .. Len(q) : q[i] = f
  BY DEF InQueue
<1>2. i # 1
  BY <1>1, TailProperties
<1>3. i - 1 \in 1 .. Len(Tail(q)) /\ Tail(q)[i - 1] = q[i]
  BY <1>1, <1>2, HeadTailProperties
<1> QED
  BY <1>1, <1>3 DEF InQueue

(* A reader's or writer's file that is not queued finds room.              *)
LEMMA CallersHaveRoom ==
  ASSUME QueuesSuffice, OneThreadPerFile, TypeOK, GrantInv
  PROVE  /\ \A r \in Readers : pc[r] # "wait" => Len(readerQ) < QSize
         /\ \A w \in Writers : pc[w] \notin {"wake", "wait"} => Len(writerQ) < QSize
<1>1. ASSUME NEW r \in Readers, pc[r] # "wait" PROVE Len(readerQ) < QSize
  <2>1. ~InQueue(readerQ, FileOf[r])
    BY <1>1 DEF GrantInv, ReadersGranted, GrantedOnce
  <2>2. \A i, j \in 1 .. Len(readerQ) : readerQ[i] = readerQ[j] => i = j
    BY DEF GrantInv, QueueOwners, ReadersGranted, GrantedOnce
  <2> QED
    BY <2>1, <2>2, Room DEF QueuesSuffice, GrantInv, QueueOwners, TypeOK, QueuesOK
<1>2. ASSUME NEW w \in Writers, pc[w] \notin {"wake", "wait"} PROVE Len(writerQ) < QSize
  <2>1. ~InQueue(writerQ, FileOf[w])
    BY <1>2 DEF GrantInv, WritersGranted, GrantedOnce
  <2>2. \A i, j \in 1 .. Len(writerQ) : writerQ[i] = writerQ[j] => i = j
    BY DEF GrantInv, QueueOwners, WritersGranted, GrantedOnce
  <2> QED
    BY <2>1, <2>2, Room DEF QueuesSuffice, GrantInv, QueueOwners, TypeOK, QueuesOK
<1> QED
  BY <1>1, <1>2

(* Steps that leave the queues, the grants and the worker where they are.  *)
LEMMA WaitSteady ==
  ASSUME TypeOK, TypeOK', WaitInv,
         UNCHANGED <<readerQ, writerQ>>,
         \A t \in Readers \cup Writers : done'[FileOf[t]] = done[FileOf[t]],
         done'[Worker] >= done[Worker], pc'[Worker] = pc[Worker],
         \A r \in Readers : pc'[r] = "wait" => pc[r] = "wait",
         \A w \in Writers : /\ pc'[w] \in {"wake", "wait"} => pc'[w] = pc[w]
                            /\ pc[w] = "wake" => pc'[w] = "wake",
         Granted \subseteq Granted'
  PROVE  WaitInv'
<1>1. done[Worker] \in Nat /\ done'[Worker] \in Nat
  BY DEF TypeOK, QueuesOK, Sleepers
<1>2. CallersKept'
  BY DEF WaitInv, CallersKept, Kept
<1> QED
  BY <1>1, <1>2 DEF WaitInv

LEMMA ReaderWaits ==
  ASSUME QueuesSuffice, OneThreadPerFile, TypeOK, TypeOK', GrantInv, WaitInv,
         NEW r \in Readers, ReaderEnters(r) \/ ReaderStep(r)
  PROVE  WaitInv'
<1> USE SchedulerAssumption, FileOfType
<1>0. /\ \A t \in (Readers \cup Writers) \ {r} : FileOf[t] # FileOf[r]
      /\ r \in Threads /\ Worker \in Threads /\ r # Worker /\ DOMAIN pc = Threads
      /\ done \in [Sleepers -> Nat] /\ Worker \in Sleepers
      /\ \A w \in Writers : w # r
  BY DEF OneThreadPerFile, Threads, TypeOK, QueuesOK, PcOK, Sleepers
<1>1. CASE ReaderEnqueues(r)
  <2>1. /\ readerQ' = Enqueued(readerQ, FileOf[r]) /\ UNCHANGED <<done, writerQ>>
        /\ pc[r] = "enter" /\ pc' = [pc EXCEPT ![r] = "wait"]
    BY <1>1 DEF ReaderEnqueues, Goto
  <2>2. Len(readerQ) < QSize /\ readerQ \in Seq(Files)
    BY <2>1, CallersHaveRoom DEF TypeOK, QueuesOK
  <2>3. /\ InQueue(readerQ', FileOf[r])
        /\ \A s \in Readers : InQueue(readerQ, FileOf[s]) => InQueue(readerQ', FileOf[s])
    BY <2>1, <2>2, EnqueuedWithRoom
  <2>4. \A t \in Readers \cup Writers \cup {Worker} : t # r => pc'[t] = pc[t]
    BY <1>0, <2>1
  <2>5. CallersKept'
    BY <1>0, <2>1, <2>3, <2>4 DEF WaitInv, CallersKept, Kept
  <2>6. Granted' = Granted
    BY <1>0, <2>1, <2>4 DEF Granted
  <2> QED
    BY <1>0, <2>1, <2>4, <2>5, <2>6 DEF WaitInv
<1>2. CASE ReaderWakes(r)
  <2>1. /\ UNCHANGED <<readerQ, writerQ>> /\ pc' = [pc EXCEPT ![r] = "copy"]
        /\ done' = [done EXCEPT ![FileOf[r]] = @ - 1]
    BY <1>2 DEF ReaderWakes, Goto, Take
  <2>2. /\ \A t \in (Readers \cup Writers) \ {r} : /\ pc'[t] = pc[t]
                                                   /\ done'[FileOf[t]] = done[FileOf[t]]
        /\ pc'[r] = "copy" /\ pc'[Worker] = pc[Worker] /\ done'[Worker] = done[Worker]
    BY <1>0, <2>1
  <2>3. CallersKept'
    BY <1>0, <2>1, <2>2 DEF WaitInv, CallersKept, Kept
  <2>4. Granted' = Granted
    BY <1>0, <2>2 DEF Granted
  <2> QED
    BY <1>0, <2>1, <2>2, <2>3, <2>4 DEF WaitInv
<1>3. CASE ~ReaderEnqueues(r) /\ ~ReaderWakes(r)
  <2>1. /\ UNCHANGED <<readerQ, writerQ>>
        /\ UNCHANGED done \/ done' = [done EXCEPT ![Worker] = @ + 1]
    BY <1>3 DEF ReaderEnters, ReaderStep, ReaderEnqueueInterrupted, ReaderCopies,
       ReaderCopied, ReaderLocksExit, ReaderExitInterrupted, ReaderTests,
       LastReaderEmptiesList, LastReaderFrees, LastReaderSignals, ReaderReadsCount,
       ReaderLeaves, Complete
  <2>2. \E to : to # "wait" /\ pc' = [pc EXCEPT ![r] = to]
    BY <1>3 DEF Goto, ReaderEnters, ReaderStep, ReaderEnqueueInterrupted, ReaderCopies,
       ReaderCopied, ReaderLocksExit, ReaderExitInterrupted, ReaderTests,
       LastReaderEmptiesList, LastReaderFrees, LastReaderSignals, ReaderReadsCount,
       ReaderLeaves
  <2>3. /\ \A t \in Readers \cup Writers : done'[FileOf[t]] = done[FileOf[t]]
        /\ done'[Worker] >= done[Worker] /\ pc'[Worker] = pc[Worker]
        /\ \A t \in Readers \cup Writers : t # r => pc'[t] = pc[t]
        /\ pc'[r] # "wait"
    BY <1>0, <2>1, <2>2
  <2>4. Granted' = Granted
    BY <1>0, <2>3 DEF Granted
  <2> QED
    BY <1>0, <2>1, <2>3, <2>4, WaitSteady
<1> QED
  BY <1>1, <1>2, <1>3

LEMMA WriterWaits ==
  ASSUME QueuesSuffice, OneThreadPerFile, Signalled \cap Writers = {},
         TypeOK, TypeOK', GrantInv, WaitInv,
         NEW w \in Writers, WriterEnqueues(w) \/ WriterStep(w)
  PROVE  WaitInv'
<1> USE SchedulerAssumption, FileOfType
<1>0. /\ \A t \in (Readers \cup Writers) \ {w} : FileOf[t] # FileOf[w]
      /\ w \in Threads /\ Worker \in Threads /\ w # Worker /\ DOMAIN pc = Threads
      /\ \A t \in Readers \cup Writers : t \in Threads /\ t # Worker
      /\ done \in [Sleepers -> Nat] /\ Worker \in Sleepers
      /\ \A r \in Readers : r # w
  BY DEF OneThreadPerFile, Threads, TypeOK, QueuesOK, PcOK, Sleepers
<1>1. CASE WriterEnqueues(w)
  <2>1. /\ writerQ' = Enqueued(writerQ, FileOf[w]) /\ UNCHANGED <<done, readerQ>>
        /\ pc[w] = "idle" /\ pc' = [pc EXCEPT ![w] = "wake"]
    BY <1>1 DEF WriterEnqueues, Goto
  <2>2. Len(writerQ) < QSize /\ writerQ \in Seq(Files)
    BY <2>1, CallersHaveRoom DEF TypeOK, QueuesOK
  <2>3. /\ InQueue(writerQ', FileOf[w])
        /\ \A v \in Writers : InQueue(writerQ, FileOf[v]) => InQueue(writerQ', FileOf[v])
    BY <2>1, <2>2, EnqueuedWithRoom
  <2>4. pc'[w] = "wake" /\ \A t \in Readers \cup Writers \cup {Worker} : t # w => pc'[t] = pc[t]
    BY <1>0, <2>1
  <2>5. CallersKept'
    BY <1>0, <2>1, <2>3, <2>4 DEF WaitInv, CallersKept, Kept
  <2>6. Granted' = Granted
    BY <1>0, <2>1, <2>4 DEF Granted
  <2> QED
    BY <1>0, <2>1, <2>4, <2>5, <2>6 DEF WaitInv
<1>2. CASE WriterWakesWorker(w)
  <2>1. /\ pc[w] = "wake" /\ UNCHANGED <<done, readerQ, writerQ>>
        /\ pc' = [pc EXCEPT ![w] = "wait",
                            ![Worker] = IF @ = "asleep" THEN "check" ELSE @]
    BY <1>2 DEF WriterWakesWorker
  <2>2. /\ \A t \in Readers \cup Writers : pc'[t] = IF t = w THEN "wait" ELSE pc[t]
        /\ pc'[Worker] = IF pc[Worker] = "asleep" THEN "check" ELSE pc[Worker]
    BY <1>0, <2>1
  <2>3. CallersKept'
    BY <1>0, <2>1, <2>2 DEF WaitInv, CallersKept, Kept
  <2>4. Granted' = Granted
    BY <1>0, <2>1, <2>2 DEF Granted
  <2> QED
    BY <1>0, <2>1, <2>2, <2>3, <2>4 DEF WaitInv
<1>3. CASE WriterGranted(w)
  <2>1. /\ UNCHANGED <<readerQ, writerQ>> /\ pc' = [pc EXCEPT ![w] = "granted"]
        /\ pc[w] = "wait" /\ done' = [done EXCEPT ![FileOf[w]] = @ - 1]
    BY <1>3 DEF WriterGranted, Goto, Take
  <2>2. /\ \A t \in (Readers \cup Writers) \ {w} : /\ pc'[t] = pc[t]
                                                   /\ done'[FileOf[t]] = done[FileOf[t]]
        /\ pc'[w] = "granted" /\ pc'[Worker] = pc[Worker] /\ done'[Worker] = done[Worker]
    BY <1>0, <2>1
  <2>3. CallersKept'
    BY <1>0, <2>1, <2>2 DEF WaitInv, CallersKept, Kept
  <2>4. Granted \subseteq Granted'
    BY <1>0, <2>2 DEF Granted
  <2>5. \A v \in Writers : pc[v] = "wake" => pc'[v] = "wake"
    BY <2>1, <2>2
  <2> QED
    BY <1>0, <2>1, <2>2, <2>3, <2>4, <2>5 DEF WaitInv
<1>4. CASE WriterSignals(w)
  <2>1. /\ UNCHANGED <<readerQ, writerQ>> /\ pc' = [pc EXCEPT ![w] = "idle"]
        /\ pc[w] = "tell" /\ done' = [done EXCEPT ![Worker] = @ + 1]
    BY <1>4 DEF WriterSignals, Goto, Complete
  <2>2. /\ \A t \in (Readers \cup Writers) \ {w} : pc'[t] = pc[t]
        /\ \A t \in Readers \cup Writers : done'[FileOf[t]] = done[FileOf[t]]
        /\ pc'[w] = "idle" /\ pc'[Worker] = pc[Worker] /\ done'[Worker] > 0
    BY <1>0, <2>1
  <2>3. CallersKept'
    BY <1>0, <2>1, <2>2 DEF WaitInv, CallersKept, Kept
  <2>4. \A v \in Writers : pc[v] = "wake" => pc'[v] = "wake"
    BY <2>1, <2>2
  <2> QED
    BY <1>0, <2>1, <2>2, <2>3, <2>4 DEF WaitInv
<1>5. CASE WriterLocks(w) \/ WriterBegins(w) \/ WriterUpdates(w)
  <2>1. /\ UNCHANGED <<done, readerQ, writerQ>>
        /\ \E to \in {"update", "tell"} : /\ pc[w] \in {"granted", "update"}
                                          /\ pc' = [pc EXCEPT ![w] = to]
    BY <1>5 DEF Goto, WriterLocks, WriterBegins, WriterUpdates
  <2>2. /\ \A t \in (Readers \cup Writers) \ {w} : pc'[t] = pc[t]
        /\ pc'[w] \in {"update", "tell"} /\ pc'[Worker] = pc[Worker]
        /\ pc[w] \in {"granted", "update"}
    BY <1>0, <2>1
  <2>3. Granted \subseteq Granted'
    BY <1>0, <2>1, <2>2 DEF Granted
  <2> QED
    BY <1>0, <2>1, <2>2, <2>3, WaitSteady
<1>6. ~WriterLockInterrupted(w)
  BY DEF WriterLockInterrupted
<1> QED
  BY <1>1, <1>2, <1>3, <1>4, <1>5, <1>6 DEF WriterStep, WriterLockStep

LEMMA PollerWaits ==
  ASSUME TypeOK, TypeOK', WaitInv, NEW p \in Pollers, PollerLocks(p) \/ PollerStep(p)
  PROVE  WaitInv'
<1>1. UNCHANGED <<done, readerQ, writerQ>> /\ \E to : pc' = [pc EXCEPT ![p] = to]
  BY DEF PollerLocks, PollerStep, PollerLocksTable, PollerInterrupted, PollerQueries,
     PollerLeaves, Goto
<1>2. \A t \in Readers \cup Writers \cup {Worker} : pc'[t] = pc[t]
  BY <1>1, SchedulerAssumption
<1>3. Granted' = Granted
  BY <1>1, <1>2 DEF Granted
<1>4. done'[Worker] >= done[Worker]
  BY <1>1 DEF TypeOK, QueuesOK, Sleepers
<1> QED
  BY <1>1, <1>2, <1>3, <1>4, WaitSteady

LEMMA WorkerWaits ==
  ASSUME OneThreadPerFile, TypeOK, TypeOK', GrantInv, WaitInv, WorkerStep
  PROVE  WaitInv'
<1> USE SchedulerAssumption, FileOfType
<1>0. /\ Worker \in Threads /\ DOMAIN pc = Threads /\ Worker \in Sleepers
      /\ \A t \in Readers \cup Writers : t # Worker /\ FileOf[t] # Worker
      /\ done \in [Sleepers -> Nat]
      /\ readerQ \in Seq(Files) /\ writerQ \in Seq(Files)
  BY DEF Threads, TypeOK, QueuesOK, PcOK, Sleepers
<1>1. PICK to : pc' = [pc EXCEPT ![Worker] = to]
  BY DEF WorkerStep, WorkerServesReader, WorkerSleeps, WorkerGrantsWriter, WriterIsDone, WorkerCountsReaders,
     NoReaders, WorkerAllocates, WorkerAllocFails, WorkerFills, WorkerGrantsReader,
     WorkerAwaitsReaders, ReadersAreDone, WorkerOops, Goto
<1>2. pc'[Worker] = to /\ \A t \in Readers \cup Writers : pc'[t] = pc[t]
  BY <1>0, <1>1
<1>3. CASE WorkerGrantsWriter
  <2>1. /\ writerQ # <<>> /\ done' = [done EXCEPT ![Head(writerQ)] = @ + 1]
        /\ writerQ' = Tail(writerQ) /\ readerQ' = readerQ /\ pc'[Worker] = "withWriter"
    BY <1>0, <1>3 DEF WorkerGrantsWriter, Complete, Goto
  <2>2. PICK w \in Writers : Head(writerQ) = FileOf[w]
    BY <1>0, <2>1, TailProperties DEF GrantInv, QueueOwners
  <2>3. /\ done'[FileOf[w]] > 0
        /\ \A t \in (Readers \cup Writers) \ {w} : /\ done'[FileOf[t]] = done[FileOf[t]]
                                                   /\ FileOf[t] # Head(writerQ)
    BY <1>0, <2>1, <2>2, OwnFile
  <2>4. \A v \in Writers \ {w} : InQueue(writerQ, FileOf[v]) => InQueue(writerQ', FileOf[v])
    BY <1>0, <2>1, <2>3, InTail
  <2>5. w \notin Readers /\ w \in Granted'
    BY <2>3 DEF Granted
  <2>6. CallersKept'
    BY <1>2, <2>1, <2>3, <2>4, <2>5 DEF WaitInv, CallersKept, Kept
  <2> QED
    BY <2>1, <2>5, <2>6 DEF WaitInv
<1>4. CASE WorkerGrantsReader
  <2>1. /\ readerQ # <<>> /\ done' = [done EXCEPT ![Head(readerQ)] = @ + 1]
        /\ readerQ' = Tail(readerQ) /\ writerQ' = writerQ /\ pc'[Worker] = "grant"
    BY <1>0, <1>4 DEF WorkerGrantsReader, Complete, Goto
  <2>2. PICK r \in Readers : Head(readerQ) = FileOf[r]
    BY <1>0, <2>1, TailProperties DEF GrantInv, QueueOwners
  <2>3. /\ done'[FileOf[r]] > 0
        /\ \A t \in (Readers \cup Writers) \ {r} : /\ done'[FileOf[t]] = done[FileOf[t]]
                                                   /\ FileOf[t] # Head(readerQ)
    BY <1>0, <2>1, <2>2, OwnFile
  <2>4. \A s \in Readers \ {r} : InQueue(readerQ, FileOf[s]) => InQueue(readerQ', FileOf[s])
    BY <1>0, <2>1, <2>3, InTail
  <2>5. r \notin Writers
    OBVIOUS
  <2>6. CallersKept'
    BY <1>2, <2>1, <2>3, <2>4, <2>5 DEF WaitInv, CallersKept, Kept
  <2> QED
    BY <2>1, <2>6 DEF WaitInv
<1>5. CASE ~WorkerGrantsWriter /\ ~WorkerGrantsReader
  <2>1. /\ UNCHANGED <<readerQ, writerQ>>
        /\ UNCHANGED done \/ done' = [done EXCEPT ![Worker] = @ - 1]
    BY <1>5 DEF WorkerStep, WorkerServesReader, WorkerSleeps, WriterIsDone, WorkerCountsReaders, NoReaders,
       WorkerAllocates, WorkerAllocFails, WorkerFills, WorkerAwaitsReaders,
       ReadersAreDone, WorkerOops, Take
  <2>2. \A t \in Readers \cup Writers : done'[FileOf[t]] = done[FileOf[t]]
    BY <1>0, <2>1
  <2>3. CallersKept'
    BY <1>2, <2>1, <2>2 DEF WaitInv, CallersKept, Kept
  <2>4. /\ pc'[Worker] # "withWriter"
        /\ pc'[Worker] = "asleep" => writerQ = <<>>
    BY <1>0, <1>5 DEF WorkerStep, WorkerServesReader, WorkerSleeps, WriterIsDone, WorkerCountsReaders, NoReaders,
       WorkerAllocates, WorkerAllocFails, WorkerFills, WorkerAwaitsReaders,
       ReadersAreDone, WorkerOops, Goto
  <2> QED
    BY <2>1, <2>3, <2>4 DEF WaitInv
<1> QED
  BY <1>3, <1>4, <1>5

(* While the worker waits for readers, and has no signal yet, one of those *)
(* let in is before its signal: the one in the exit section, if it does    *)
(* not take itself for the last, is not the only one.                      *)
LEMMA SignalToCome ==
  ASSUME TypeOK, RoundInv, pc[Worker] = "withReaders", done[Worker] = 0
  PROVE  \E r \in Unfinished : pc[r] \notin Leaving
<1>1. /\ n = Cardinality(Unfinished) /\ n > 0 /\ IsFiniteSet(Unfinished)
  <2>1. /\ n = toGrant + Cardinality(Unfinished) /\ toGrant = 0 /\ n > 0
        /\ IsFiniteSet(Unfinished)
    BY DEF RoundInv, ReaderRound
  <2> QED
    BY <2>1, FS_CardinalityType
<1>2. PICK r \in Unfinished : TRUE
  BY <1>1, FS_EmptySet
<1>3. CASE pc[r] \in Leaving
  <2>1. r \in Readers /\ n > 1
    BY <1>3 DEF Unfinished, RoundInv, ExitRound
  <2>2. Cardinality(Unfinished \ {r}) = Cardinality(Unfinished) - 1 /\ IsFiniteSet(Unfinished \ {r})
    BY <1>1, FS_RemoveElement
  <2>3. Cardinality(Unfinished \ {r}) # 0
    BY <1>1, <2>1, <2>2
  <2>4. PICK s \in Unfinished : s # r
    BY <2>2, <2>3, FS_EmptySet
  <2>5. pc[s] \notin Leaving
    BY <1>3, <2>1, <2>4 DEF Unfinished, RoundInv, ExitRound, ExitSection, Leaving
  <2> QED
    BY <2>5
<1> QED
  BY <1>2, <1>3

(* Whoever waits for access is queued or granted, and whatever the worker  *)
(* waits for is under way (rt_fops.c:276, 439, 208, 237): with queues long *)
(* enough for all, and writers that are not interrupted, since one that is *)
(* leaves without its signal (289).                                        *)
THEOREM NoneStranded ==
  ~Preemptible /\ OneThreadPerFile /\ QueuesSuffice /\ Signalled \cap Writers = {}
    => (Spec => []NobodyStranded)
<1> SUFFICES ASSUME ~Preemptible, OneThreadPerFile, QueuesSuffice, Signalled \cap Writers = {}
             PROVE  Spec => []NobodyStranded
  OBVIOUS
<1>1. Init => WaitInv
  BY SchedulerAssumption DEF Init, WaitInv, CallersKept, Kept, Threads
<1>2. TypeOK /\ TypeOK' /\ GrantInv /\ WaitInv /\ [Next]_vars => WaitInv'
  <2>1. ASSUME WaitInv, UNCHANGED vars PROVE WaitInv'
    BY <2>1 DEF vars, WaitInv, CallersKept, Kept, Granted
  <2> QED
    BY <2>1, ReaderWaits, WriterWaits, PollerWaits, WorkerWaits DEF Next
<1>3. TypeOK /\ RoundInv /\ WaitInv => NobodyStranded
  <2> SUFFICES ASSUME TypeOK, RoundInv, WaitInv PROVE NobodyStranded
    OBVIOUS
  <2>1. done[Worker] \in Nat
    BY DEF TypeOK, QueuesOK, Sleepers
  <2>2. pc[Worker] = "withReaders" =>
          done[Worker] > 0 \/ \E r \in Unfinished : pc[r] \notin {"dec", "store"}
    BY <2>1, SignalToCome DEF Leaving
  <2> QED
    BY <2>2 DEF WaitInv, NobodyStranded, WorkerNotLost
<1> QED
  BY <1>1, <1>2, <1>3, RoundsAreSound, PTL DEF Spec
-----------------------------------------------------------------------------
(* The readers' semaphore is a mutex as long as the readers' down, whose   *)
(* result is not looked at, is never interrupted.                          *)
ReaderSemInv == /\ csSem <= 1
                /\ csSem = 1 => Guarded = {}
                /\ \A s, t \in Guarded : s = t

LEMMA ReaderSemStep ==
  ASSUME Signalled \cap Readers = {}, TypeOK, ReaderSemInv, [Next]_vars
  PROVE  ReaderSemInv'
<1> USE SchedulerAssumption
<1>0. /\ DOMAIN pc = Threads /\ csSem \in Nat
      /\ \A t \in Readers \cup Pollers \cup Writers \cup {Worker} : t \in Threads
  BY DEF Threads, TypeOK, PcOK, TableTypeOK
<1>1. ASSUME csSem' = csSem, Guarded' = Guarded PROVE ReaderSemInv'
  BY <1>1 DEF ReaderSemInv
<1>2. ASSUME NEW t \in Guarded, csSem' = csSem + 1, Guarded' = Guarded \ {t}
      PROVE  ReaderSemInv'
  BY <1>0, <1>2 DEF ReaderSemInv
<1>3. ASSUME NEW t \in Readers \cup Pollers, csSem > 0, csSem' = csSem - 1,
             Guarded' = Guarded \cup {t}
      PROVE  ReaderSemInv'
  BY <1>0, <1>3 DEF ReaderSemInv
<1>4. CASE UNCHANGED vars
  BY <1>1, <1>4 DEF vars, Guarded
<1>5. CASE WorkerStep
  <2>1. csSem' = csSem
    BY <1>5 DEF WorkerStep, WorkerServesReader, WorkerSleeps, WorkerGrantsWriter, WriterIsDone,
       WorkerCountsReaders, NoReaders, WorkerAllocates, WorkerAllocFails, WorkerFills,
       WorkerGrantsReader, WorkerAwaitsReaders, ReadersAreDone, WorkerOops
  <2>2. \E to : pc' = [pc EXCEPT ![Worker] = to]
    BY <1>5 DEF WorkerStep, WorkerServesReader, WorkerSleeps, WorkerGrantsWriter, WriterIsDone,
       WorkerCountsReaders, NoReaders, WorkerAllocates, WorkerAllocFails, WorkerFills,
       WorkerGrantsReader, WorkerAwaitsReaders, ReadersAreDone, WorkerOops, Goto
  <2> QED
    BY <1>0, <1>1, <2>1, <2>2 DEF Guarded
<1>6. ASSUME NEW w \in Writers, WriterEnqueues(w) \/ WriterStep(w) PROVE ReaderSemInv'
  <2>1. csSem' = csSem
    BY <1>6 DEF WriterStep, WriterLockStep, WriterEnqueues, WriterWakesWorker,
       WriterGranted, WriterLocks, WriterLockInterrupted, WriterBegins, WriterUpdates,
       WriterSignals
  <2>2. \A t \in Readers \cup Pollers : pc'[t] = pc[t]
    <3>1. CASE WriterWakesWorker(w)
      BY <1>0, <3>1 DEF WriterWakesWorker
    <3>2. CASE ~WriterWakesWorker(w)
      <4>1. \E to : pc' = [pc EXCEPT ![w] = to]
        BY <1>6, <3>2 DEF WriterStep, WriterLockStep, WriterEnqueues, WriterGranted, Goto,
           WriterLocks, WriterLockInterrupted, WriterBegins, WriterUpdates, WriterSignals
      <4> QED
        BY <1>0, <4>1
    <3> QED
      BY <3>1, <3>2
  <2> QED
    BY <1>1, <2>1, <2>2 DEF Guarded
<1>7. ASSUME NEW p \in Pollers, PollerLocks(p) \/ PollerStep(p) PROVE ReaderSemInv'
  <2>1. CASE PollerLocks(p)
    <3>1. /\ csSem > 0 /\ csSem' = csSem - 1 /\ pc' = [pc EXCEPT ![p] = "poll"]
      BY <2>1 DEF PollerLocks, Goto
    <3>2. Guarded' = Guarded \cup {p}
      BY <1>0, <3>1 DEF Guarded
    <3> QED
      BY <1>3, <3>1, <3>2
  <2>2. CASE PollerLeaves(p)
    <3>1. /\ csSem' = csSem + 1 /\ pc[p] = "answer" /\ pc' = [pc EXCEPT ![p] = "idle"]
      BY <2>2 DEF PollerLeaves, Goto
    <3>2. Guarded' = Guarded \ {p} /\ p \in Guarded
      BY <1>0, <3>1 DEF Guarded
    <3> QED
      BY <1>2, <3>1, <3>2
  <2>3. CASE PollerLocksTable(p) \/ PollerInterrupted(p) \/ PollerQueries(p)
    <3>1. PICK to \in {"query", "answer"} :
             /\ csSem' = csSem /\ pc[p] \in {"poll", "query"} /\ pc' = [pc EXCEPT ![p] = to]
      BY <2>3 DEF PollerLocksTable, PollerInterrupted, PollerQueries, Goto
    <3>2. Guarded' = Guarded
      BY <1>0, <3>1 DEF Guarded
    <3> QED
      BY <1>1, <3>1, <3>2
  <2> QED
    BY <1>7, <2>1, <2>2, <2>3 DEF PollerStep
<1>8. ASSUME NEW r \in Readers, ReaderEnters(r) \/ ReaderStep(r) PROVE ReaderSemInv'
  <2>1. CASE ReaderLocksExit(r)
    <3>1. /\ csSem > 0 /\ csSem' = csSem - 1 /\ pc' = [pc EXCEPT ![r] = "test"]
      BY <2>1 DEF ReaderLocksExit, Goto
    <3>2. Guarded' = Guarded \cup {r}
      BY <1>0, <3>1 DEF Guarded, ExitSection
    <3> QED
      BY <1>3, <3>1, <3>2
  <2>2. CASE ReaderLeaves(r)
    <3>1. /\ csSem' = csSem + 1 /\ pc[r] = "store" /\ pc' = [pc EXCEPT ![r] = "idle"]
      BY <2>2 DEF ReaderLeaves, Goto
    <3>2. Guarded' = Guarded \ {r} /\ r \in Guarded
      BY <1>0, <3>1 DEF Guarded, ExitSection
    <3> QED
      BY <1>2, <3>1, <3>2
  <2>3. CASE \/ ReaderEnters(r) \/ ReaderEnqueues(r) \/ ReaderEnqueueInterrupted(r)
             \/ ReaderWakes(r) \/ ReaderCopies(r) \/ ReaderCopied(r)
    <3>1. PICK to \in {"enter", "wait", "idle", "copy", "copying", "exit"} :
             /\ csSem' = csSem /\ pc[r] \in {"idle", "enter", "wait", "copy", "copying"}
             /\ pc' = [pc EXCEPT ![r] = to]
      BY <2>3 DEF ReaderEnters, ReaderEnqueues, ReaderEnqueueInterrupted, ReaderWakes,
         ReaderCopies, ReaderCopied, Goto
    <3>2. Guarded' = Guarded
      BY <1>0, <3>1 DEF Guarded, ExitSection
    <3> QED
      BY <1>1, <3>1, <3>2
  <2>4. CASE \/ ReaderTests(r) \/ LastReaderEmptiesList(r) \/ LastReaderFrees(r)
             \/ LastReaderSignals(r) \/ ReaderReadsCount(r)
    <3>1. PICK to \in ExitSection :
             /\ csSem' = csSem /\ pc[r] \in ExitSection /\ pc' = [pc EXCEPT ![r] = to]
      BY <2>4 DEF ReaderTests, LastReaderEmptiesList, LastReaderFrees,
         LastReaderSignals, ReaderReadsCount, Goto, ExitSection
    <3>2. Guarded' = Guarded
      BY <1>0, <3>1 DEF Guarded
    <3> QED
      BY <1>1, <3>1, <3>2
  <2>5. ~ReaderExitInterrupted(r)
    BY <1>8 DEF ReaderExitInterrupted
  <2> QED
    BY <1>8, <2>1, <2>2, <2>3, <2>4, <2>5 DEF ReaderStep
<1> QED
  BY <1>4, <1>5, <1>6, <1>7, <1>8 DEF Next

(* One thread at a time, preemption or not, is between the down and the up *)
(* of rt_serialize_readers_cs_sem (rt_fops.c:461-475, 512-568), as long as *)
(* no signal interrupts a reader there.                                    *)
THEOREM ExitIsExclusive == Signalled \cap Readers = {} => (Spec => []ExclusiveExit)
<1> SUFFICES ASSUME Signalled \cap Readers = {} PROVE Spec => []ExclusiveExit
  OBVIOUS
<1>1. Init => ReaderSemInv
  BY SchedulerAssumption DEF Init, TableInit, ReaderSemInv, Guarded, ExitSection, Threads
<1>2. TypeOK /\ ReaderSemInv /\ [Next]_vars => ReaderSemInv'
  BY ReaderSemStep
<1>3. ReaderSemInv => ExclusiveExit
  BY DEF ReaderSemInv, ExclusiveExit
<1> QED
  BY <1>1, <1>2, <1>3, Typing, PTL DEF Spec
=============================================================================
