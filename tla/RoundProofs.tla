---------------------------- MODULE RoundProofs ----------------------------
(***************************************************************************)
(* What the rounds of the scheduler amount to, when the kernel does not    *)
(* preempt and every thread has an open file of its own.  For the threads: *)
(* the worker's queue positions, the completions and the count of readers  *)
(* implement the schedule of ReadersWriters.  For the data: the change     *)
(* list holds one change at most, the vector of updates is neither lost    *)
(* nor used after it is freed, and every reader is given the change, as    *)
(* far as its copy of the vector reaches.                                  *)
(***************************************************************************)
EXTENDS SchedulerProofs

USE DEF listVars, vectorVars, semVars, tableVars, roundVars, readerVars

(* The readers that own the elements of a queue in a range of positions,   *)
(* and the state of the schedule in these terms.                           *)
Owners(q, lo, hi) == {r \in Readers : \E i \in 1 .. Len(q) :
                                          lo < i /\ i <= hi /\ q[i] = FileOf[r]}

WriterHasIt == pc[Worker] \in {"withWriter", "count"}
ReadersWaiting == Owners(readerQ, Counted, Len(readerQ))
ReadersIn == Owners(readerQ, 0, Counted) \cup Unfinished

ScheduleStep ==
    \/ UNCHANGED <<WriterHasIt, ReadersWaiting, ReadersIn>>
    \/ /\ ~WriterHasIt /\ ReadersIn = {} /\ WriterHasIt'
       /\ UNCHANGED <<ReadersWaiting, ReadersIn>>
    \/ /\ WriterHasIt /\ ~WriterHasIt'
       /\ ReadersIn' = ReadersWaiting /\ ReadersWaiting' = {}
    \/ \E r \in Readers :
          /\ r \notin ReadersWaiting \cup ReadersIn
          /\ ReadersWaiting' = ReadersWaiting \cup {r}
          /\ UNCHANGED <<WriterHasIt, ReadersIn>>
    \/ \E r \in ReadersIn :
          /\ ReadersIn' = ReadersIn \ {r}
          /\ UNCHANGED <<WriterHasIt, ReadersWaiting>>

LEMMA CountedIsQueued ==
  ASSUME TypeOK, RoundInv
  PROVE  Counted \in Nat /\ Counted <= Len(readerQ) /\ Len(readerQ) \in Nat
BY DEF Counted, TypeOK, RoundOK, QueuesOK, RoundInv, CountInv, ReaderRound

LEMMA MappedStep ==
  ASSUME TypeOK, TypeOK', ScheduleStep
  PROVE  [Schedule!Next]_(Schedule!vars)
<1>1. /\ Len(readerQ) \in Nat /\ Len(readerQ') \in Nat /\ Counted \in Nat /\ Counted' \in Nat
  BY DEF TypeOK, QueuesOK, RoundOK, Counted
<1>2. /\ {r \in Readers : \E i \in 1 .. Len(readerQ) : i > Counted /\ readerQ[i] = FileOf[r]}
           = ReadersWaiting
      /\ {r \in Readers : \E i \in 1 .. Len(readerQ) : i <= Counted /\ readerQ[i] = FileOf[r]}
           \cup Unfinished = ReadersIn
      /\ ReadersIn \subseteq Readers
  BY <1>1 DEF Owners, ReadersWaiting, ReadersIn, Unfinished
<1>3. /\ {r \in Readers : \E i \in 1 .. Len(readerQ) : i > Counted /\ readerQ[i] = FileOf[r]}'
           = ReadersWaiting'
      /\ ({r \in Readers : \E i \in 1 .. Len(readerQ) : i <= Counted /\ readerQ[i] = FileOf[r]}
           \cup Unfinished)' = ReadersIn'
  BY <1>1 DEF Owners, ReadersWaiting, ReadersIn, Unfinished
<1>4. CASE UNCHANGED <<WriterHasIt, ReadersWaiting, ReadersIn>>
  BY <1>2, <1>3, <1>4 DEF Schedule!vars, WriterHasIt
<1>5. CASE /\ ~WriterHasIt /\ ReadersIn = {} /\ WriterHasIt'
           /\ UNCHANGED <<ReadersWaiting, ReadersIn>>
  <2>1. Schedule!StartWrite
    BY <1>2, <1>3, <1>5 DEF Schedule!StartWrite, WriterHasIt
  <2> QED
    BY <2>1 DEF Schedule!Next
<1>6. CASE /\ WriterHasIt /\ ~WriterHasIt'
           /\ ReadersIn' = ReadersWaiting /\ ReadersWaiting' = {}
  <2>1. Schedule!FinishWrite
    BY <1>2, <1>3, <1>6 DEF Schedule!FinishWrite, WriterHasIt
  <2> QED
    BY <2>1 DEF Schedule!Next
<1>7. ASSUME NEW r \in Readers,
             /\ r \notin ReadersWaiting \cup ReadersIn
             /\ ReadersWaiting' = ReadersWaiting \cup {r}
             /\ UNCHANGED <<WriterHasIt, ReadersIn>>
      PROVE  Schedule!Next
  <2>1. Schedule!Arrive(r)
    BY <1>2, <1>3, <1>7 DEF Schedule!Arrive, WriterHasIt
  <2> QED
    BY <2>1 DEF Schedule!Next
<1>8. ASSUME NEW r \in ReadersIn,
             /\ ReadersIn' = ReadersIn \ {r}
             /\ UNCHANGED <<WriterHasIt, ReadersWaiting>>
      PROVE  Schedule!Next
  <2>1. Schedule!Finish(r)
    BY <1>2, <1>3, <1>8 DEF Schedule!Finish, WriterHasIt
  <2> QED
    BY <1>2, <2>1 DEF Schedule!Next
<1> QED
  BY <1>4, <1>5, <1>6, <1>7, <1>8 DEF ScheduleStep

LEMMA ReaderSchedules ==
  ASSUME OneThreadPerFile, TypeOK, TypeOK', GrantInv, RoundInv,
         NEW r \in Readers, ReaderEnters(r) \/ ReaderStep(r)
  PROVE  ScheduleStep
<1> USE SchedulerAssumption, FileOfType
<1>0. /\ r \in Threads /\ DOMAIN pc = Threads /\ r # Worker
      /\ done \in [Sleepers -> Nat] /\ readerQ \in Seq(Files) /\ Len(readerQ) <= QSize
      /\ FileOf[r] \in Files
  BY DEF Threads, TypeOK, PcOK, QueuesOK
<1>1. /\ pc'[Worker] = pc[Worker] /\ toGrant' = toGrant
      /\ n' = n \/ ReaderLeaves(r)
  <2>0. CASE ReaderLeaves(r)
    BY <1>0, <2>0 DEF ReaderLeaves, Goto
  <2>1. ~ReaderLeaves(r) => UNCHANGED <<n, toGrant>>
    BY DEF ReaderEnters, ReaderStep, ReaderEnqueues, ReaderEnqueueInterrupted,
       ReaderWakes, ReaderCopies, ReaderCopied, ReaderLocksExit, ReaderExitInterrupted,
       ReaderTests, LastReaderEmptiesList, LastReaderFrees, LastReaderSignals,
       ReaderReadsCount
  <2>2. \E to : pc' = [pc EXCEPT ![r] = to]
    BY DEF ReaderEnters, ReaderStep, ReaderEnqueues, ReaderEnqueueInterrupted,
       ReaderWakes, ReaderCopies, ReaderCopied, ReaderLocksExit, ReaderExitInterrupted,
       ReaderTests, LastReaderEmptiesList, LastReaderFrees, LastReaderSignals,
       ReaderReadsCount, ReaderLeaves, Goto
  <2> QED
    BY <1>0, <2>0, <2>1, <2>2
<1>2. WriterHasIt' = WriterHasIt
  BY <1>1 DEF WriterHasIt
<1>3. Counted' = Counted
  <2>1. CASE n' = n
    BY <1>1, <2>1 DEF Counted
  <2>2. CASE ReaderLeaves(r)
    <3>1. r \in Unfinished
      BY <2>2 DEF ReaderLeaves, Goto, Unfinished, ExitSection
    <3>2. pc[Worker] \in {"grant", "withReaders"}
      BY <3>1, Stage
    <3> QED
      BY <1>1, <3>2 DEF Counted
  <2> QED
    BY <1>1, <2>1, <2>2
<1>4. pc[r] # "wait" => ~InQueue(readerQ, FileOf[r])
  BY DEF GrantInv, ReadersGranted, GrantedOnce
<1>5. CASE ReaderEnqueues(r)
  <2>1. /\ pc[r] = "enter" /\ pc' = [pc EXCEPT ![r] = "wait"]
        /\ readerQ' = Enqueued(readerQ, FileOf[r]) /\ UNCHANGED done
    BY <1>5 DEF ReaderEnqueues, Goto
  <2>2. Unfinished' = Unfinished /\ r \notin Unfinished
    <3>1. done[FileOf[r]] = 0
      BY <1>0, <2>1 DEF GrantInv, ReadersGranted, GrantedOnce
    <3> QED
      BY <1>0, <2>1, <3>1 DEF Unfinished, ExitSection
  <2>3. CASE readerQ' = readerQ
    BY <1>2, <1>3, <2>2, <2>3 DEF ScheduleStep, ReadersWaiting, ReadersIn
  <2>4. CASE readerQ' = Append(readerQ, FileOf[r])
    <3>1. /\ Len(readerQ') = Len(readerQ) + 1 /\ readerQ'[Len(readerQ) + 1] = FileOf[r]
          /\ \A i \in 1 .. Len(readerQ) : readerQ'[i] = readerQ[i]
          /\ Len(readerQ) \in Nat
      BY <1>0, <2>4
    <3>2. Counted \in Nat /\ Counted <= Len(readerQ)
      BY CountedIsQueued
    <3>3. ReadersIn' = ReadersIn
      BY <1>3, <2>2, <3>1, <3>2 DEF ReadersIn, Owners
    <3>4. ReadersWaiting' = ReadersWaiting \cup {r}
      <4>1. \A s \in Readers : FileOf[s] = FileOf[r] => s = r
        BY DEF OneThreadPerFile
      <4> QED
        BY <1>3, <3>1, <3>2, <4>1 DEF ReadersWaiting, Owners
    <3>5. r \notin ReadersWaiting \cup ReadersIn
      BY <1>4, <2>1, <2>2 DEF ReadersWaiting, ReadersIn, Owners, InQueue
    <3> QED
      BY <1>2, <3>3, <3>4, <3>5 DEF ScheduleStep
  <2> QED
    BY <2>1, <2>3, <2>4 DEF Enqueued
<1>6. CASE ReaderLeaves(r)
  <2>1. /\ pc[r] = "store" /\ pc' = [pc EXCEPT ![r] = "idle"] /\ UNCHANGED <<readerQ, done>>
    BY <1>6 DEF ReaderLeaves, Goto
  <2>2. Unfinished' = Unfinished \ {r} /\ r \in Unfinished
    <3>1. done[FileOf[r]] = 0
      BY <1>0, <2>1 DEF GrantInv, ReadersGranted, GrantedOnce
    <3> QED
      BY <1>0, <2>1, <3>1 DEF Unfinished, ExitSection
  <2>3. ReadersWaiting' = ReadersWaiting
    BY <1>3, <2>1 DEF ReadersWaiting
  <2>4. r \notin Owners(readerQ, 0, Counted)
    BY <1>4, <2>1 DEF Owners, InQueue
  <2>5. ReadersIn' = ReadersIn \ {r} /\ r \in ReadersIn
    BY <1>3, <2>1, <2>2, <2>4 DEF ReadersIn
  <2> QED
    BY <1>2, <2>3, <2>5 DEF ScheduleStep
<1>7. CASE ReaderWakes(r)
  <2>1. /\ pc[r] = "wait" /\ pc' = [pc EXCEPT ![r] = "copy"] /\ UNCHANGED readerQ
        /\ done[FileOf[r]] > 0 /\ done' = [done EXCEPT ![FileOf[r]] = @ - 1]
    BY <1>7 DEF ReaderWakes, Goto, Take
  <2>2. \A t \in (Readers \cup Writers) \ {r} : FileOf[t] # FileOf[r]
    BY OwnFile
  <2>3. Unfinished' = Unfinished
    BY <1>0, <2>1, <2>2 DEF Unfinished
  <2> QED
    BY <1>2, <1>3, <2>1, <2>3 DEF ScheduleStep, ReadersWaiting, ReadersIn
<1>8. CASE ~ReaderEnqueues(r) /\ ~ReaderLeaves(r) /\ ~ReaderWakes(r)
  <2>1. PICK to : /\ pc' = [pc EXCEPT ![r] = to] /\ UNCHANGED readerQ
                  /\ \A f \in Files : done'[f] = done[f]
                  /\ pc[r] # "wait"
                  /\ pc[r] \in {"copy", "copying", "exit"} \cup ExitSection
                       <=> to \in {"copy", "copying", "exit"} \cup ExitSection
    <3>1. CASE LastReaderSignals(r)
      <4>1. pc[r] = "signal" /\ pc' = [pc EXCEPT ![r] = "dec"] /\ UNCHANGED readerQ
        BY <3>1 DEF LastReaderSignals, Goto
      <4>2. \A f \in Files : done'[f] = done[f]
        BY <1>0, <3>1 DEF LastReaderSignals, Complete
      <4> QED
        BY <4>1, <4>2 DEF ExitSection
    <3>2. CASE ReaderTests(r)
      <4>1. PICK to \in {"last", "dec"} : pc' = [pc EXCEPT ![r] = to]
        BY <3>2 DEF ReaderTests, Goto
      <4>2. pc[r] = "test" /\ UNCHANGED <<readerQ, done>>
        BY <3>2 DEF ReaderTests, Goto
      <4> QED
        BY <4>1, <4>2 DEF ExitSection
    <3>3. CASE ReaderEnters(r) \/ ReaderEnqueueInterrupted(r)
      BY <1>0, <3>3 DEF ReaderEnters, ReaderEnqueueInterrupted, Goto, ExitSection
    <3>4. CASE \/ ReaderCopies(r) \/ ReaderCopied(r) \/ ReaderLocksExit(r)
               \/ ReaderExitInterrupted(r)
      BY <1>0, <3>4 DEF ReaderCopies, ReaderCopied, ReaderLocksExit,
         ReaderExitInterrupted, Goto, ExitSection
    <3>5. CASE LastReaderEmptiesList(r) \/ LastReaderFrees(r) \/ ReaderReadsCount(r)
      BY <1>0, <3>5 DEF LastReaderEmptiesList, LastReaderFrees, ReaderReadsCount,
         Goto, ExitSection
    <3> QED
      BY <1>8, <3>1, <3>2, <3>3, <3>4, <3>5 DEF ReaderStep
  <2>2. /\ \A s \in Readers \ {r} : s \in Unfinished' <=> s \in Unfinished
        /\ r \in Unfinished' <=> r \in Unfinished
    BY <2>1, ReaderMoves
  <2>3. Unfinished' = Unfinished
    BY <2>2 DEF Unfinished
  <2> QED
    BY <1>2, <1>3, <2>1, <2>3 DEF ScheduleStep, ReadersWaiting, ReadersIn
<1> QED
  BY <1>5, <1>6, <1>7, <1>8

(* Writers and pollers change nothing the schedule can see.                *)
LEMMA OthersSchedule ==
  ASSUME TypeOK, UNCHANGED <<readerQ, n, toGrant>>,
         \A r \in Readers : pc'[r] = pc[r] /\ done'[FileOf[r]] = done[FileOf[r]],
         pc'[Worker] = pc[Worker] \/ (pc[Worker] = "asleep" /\ pc'[Worker] = "check")
  PROVE  ScheduleStep
<1>1. Unfinished' = Unfinished
  BY DEF Unfinished
<1>2. Counted' = Counted /\ WriterHasIt' = WriterHasIt
  BY DEF Counted, WriterHasIt
<1> QED
  BY <1>1, <1>2 DEF ScheduleStep, ReadersWaiting, ReadersIn

LEMMA WriterSchedules ==
  ASSUME OneThreadPerFile, TypeOK, NEW w \in Writers, WriterEnqueues(w) \/ WriterStep(w)
  PROVE  ScheduleStep
<1> USE SchedulerAssumption, FileOfType
<1>0. /\ DOMAIN pc = Threads /\ w \in Threads /\ Worker \in Threads /\ w # Worker
      /\ done \in [Sleepers -> Nat]
      /\ \A r \in Readers : r \in Threads /\ r # w /\ FileOf[r] # FileOf[w] /\ r # Worker
  BY DEF Threads, TypeOK, PcOK, QueuesOK, OneThreadPerFile
<1>1. UNCHANGED <<readerQ, n, toGrant>>
  BY DEF WriterStep, WriterLockStep, WriterEnqueues, WriterWakesWorker, WriterGranted,
     WriterLocks, WriterLockInterrupted, WriterBegins, WriterUpdates, WriterSignals
<1>2. \/ UNCHANGED done
      \/ done' = [done EXCEPT ![FileOf[w]] = @ - 1]
      \/ done' = [done EXCEPT ![Worker] = @ + 1]
  BY DEF WriterStep, WriterLockStep, WriterEnqueues, WriterWakesWorker, WriterGranted,
     WriterLocks, WriterLockInterrupted, WriterBegins, WriterUpdates, WriterSignals,
     Take, Complete
<1>3. \A r \in Readers : done'[FileOf[r]] = done[FileOf[r]]
  BY <1>0, <1>2
<1>4. CASE WriterWakesWorker(w)
  BY <1>0, <1>1, <1>3, <1>4, OthersSchedule DEF WriterWakesWorker
<1>5. CASE ~WriterWakesWorker(w)
  <2>1. \E to : pc' = [pc EXCEPT ![w] = to]
    BY <1>5 DEF WriterStep, WriterLockStep, WriterEnqueues, WriterGranted, Goto,
       WriterLocks, WriterLockInterrupted, WriterBegins, WriterUpdates, WriterSignals
  <2>2. pc'[Worker] = pc[Worker] /\ \A r \in Readers : pc'[r] = pc[r]
    BY <1>0, <2>1
  <2> QED
    BY <1>1, <1>3, <2>2, OthersSchedule
<1> QED
  BY <1>4, <1>5

LEMMA PollerSchedules ==
  ASSUME TypeOK, NEW p \in Pollers, PollerLocks(p) \/ PollerStep(p)
  PROVE  ScheduleStep
<1>1. /\ UNCHANGED <<done, readerQ, n, toGrant>>
      /\ \E to : pc' = [pc EXCEPT ![p] = to]
  BY DEF PollerLocks, PollerStep, PollerLocksTable, PollerInterrupted, PollerQueries,
     PollerLeaves, Goto
<1>2. \A t \in Readers \cup {Worker} : pc'[t] = pc[t]
  BY <1>1, SchedulerAssumption
<1> QED
  BY <1>1, <1>2, OthersSchedule

LEMMA WorkerSchedules ==
  ASSUME OneThreadPerFile, TypeOK, TypeOK', GrantInv, RoundInv, RoundInv', WorkerStep
  PROVE  ScheduleStep
<1> USE SchedulerAssumption, FileOfType
<1>0. /\ Worker \in Threads /\ DOMAIN pc = Threads /\ Worker \in Sleepers
      /\ \A t \in Readers : t # Worker /\ FileOf[t] # Worker
      /\ done \in [Sleepers -> Nat] /\ n \in Nat /\ toGrant \in Nat
      /\ readerQ \in Seq(Files) /\ writerQ \in Seq(Files) /\ Len(readerQ) \in Nat
  BY DEF Threads, TypeOK, PcOK, QueuesOK, RoundOK, Sleepers
<1>1. ASSUME NEW to, pc' = [pc EXCEPT ![Worker] = to],
             \A r \in Readers : done'[FileOf[r]] = done[FileOf[r]]
      PROVE  Unfinished' = Unfinished /\ pc'[Worker] = to
  BY <1>0, <1>1 DEF Unfinished
<1>2. CASE \/ WorkerSleeps \/ NoReaders \/ WorkerAllocates \/ WorkerAllocFails
           \/ WorkerFills \/ WorkerAwaitsReaders \/ WorkerOops
  <2>1. PICK to \in {"asleep", "check", "fill", "grant", "withReaders"} :
          /\ pc' = [pc EXCEPT ![Worker] = to] /\ UNCHANGED <<done, readerQ, n>>
          /\ to \in {"asleep", "check"} => pc[Worker] = "check" \/ (pc[Worker] = "counted" /\ n = 0)
          /\ to = "fill" => pc[Worker] = "counted"
          /\ to = "grant" => pc[Worker] \in {"counted", "fill"} /\ toGrant' = n
          /\ to = "withReaders" => pc[Worker] = "grant" /\ toGrant = 0
    <3>0. pc'[Worker] # "dead"
      BY DEF RoundInv, WorkerAlive
    <3>1. CASE WorkerFills
      <4>1. PICK to \in {"grant", "dead"} : pc' = [pc EXCEPT ![Worker] = to]
        BY <3>1 DEF WorkerFills, Goto
      <4>2. pc[Worker] = "fill" /\ UNCHANGED <<done, readerQ, n>> /\ toGrant' = n
        BY <3>1 DEF WorkerFills, Goto
      <4> QED
        BY <1>0, <3>0, <4>1, <4>2
    <3>2. CASE WorkerSleeps \/ NoReaders
      BY <3>2 DEF WorkerSleeps, NoReaders, Goto
    <3>3. CASE WorkerAllocates \/ WorkerAllocFails
      BY <3>3 DEF WorkerAllocates, WorkerAllocFails, Goto
    <3>4. CASE WorkerAwaitsReaders \/ WorkerOops
      BY <1>0, <3>0, <3>4 DEF WorkerAwaitsReaders, WorkerOops, Goto
    <3> QED
      BY <1>2, <3>1, <3>2, <3>3, <3>4
  <2>2. Unfinished' = Unfinished /\ pc'[Worker] = to
    BY <1>1, <2>1
  <2>3. Counted' = Counted /\ WriterHasIt' = WriterHasIt
    BY <2>1, <2>2 DEF Counted, WriterHasIt
  <2> QED
    BY <2>1, <2>2, <2>3 DEF ScheduleStep, ReadersWaiting, ReadersIn
<1>3. CASE WriterIsDone \/ ReadersAreDone
  <2>1. PICK to \in {"count", "check"} :
          /\ pc' = [pc EXCEPT ![Worker] = to] /\ UNCHANGED readerQ
          /\ done' = [done EXCEPT ![Worker] = @ - 1]
          /\ pc[Worker] = IF to = "count" THEN "withWriter" ELSE "withReaders"
    BY <1>3 DEF WriterIsDone, ReadersAreDone, Goto, Take
  <2>2. Unfinished' = Unfinished /\ pc'[Worker] = to
    BY <1>0, <1>1, <2>1
  <2>3. Counted' = Counted /\ WriterHasIt' = WriterHasIt
    BY <2>1, <2>2 DEF Counted, WriterHasIt
  <2> QED
    BY <2>1, <2>2, <2>3 DEF ScheduleStep, ReadersWaiting, ReadersIn
<1>4. CASE WorkerGrantsWriter
  <2>1. /\ pc[Worker] = "check" /\ pc' = [pc EXCEPT ![Worker] = "withWriter"]
        /\ writerQ # <<>> /\ done' = [done EXCEPT ![Head(writerQ)] = @ + 1]
        /\ UNCHANGED readerQ
    BY <1>4 DEF WorkerGrantsWriter, Complete, Goto
  <2>2. PICK w \in Writers : Head(writerQ) = FileOf[w]
    BY <1>0, <2>1, TailProperties DEF GrantInv, QueueOwners
  <2>3. \A r \in Readers : done'[FileOf[r]] = done[FileOf[r]]
    BY <1>0, <2>1, <2>2 DEF OneThreadPerFile
  <2>4. Unfinished' = Unfinished /\ pc'[Worker] = "withWriter" /\ Unfinished = {}
    BY <1>1, <2>1, <2>3 DEF RoundInv, QuietInv
  <2>5. Counted = 0 /\ Counted' = 0 /\ ~WriterHasIt /\ WriterHasIt'
    BY <2>1, <2>4 DEF Counted, WriterHasIt
  <2>6. ReadersIn = {} /\ ReadersIn' = {} /\ ReadersWaiting' = ReadersWaiting
    BY <1>0, <2>1, <2>4, <2>5 DEF ReadersIn, ReadersWaiting, Owners
  <2> QED
    BY <2>5, <2>6 DEF ScheduleStep
<1>5. CASE WorkerCountsReaders
  <2>1. /\ pc[Worker] = "count" /\ pc' = [pc EXCEPT ![Worker] = "counted"]
        /\ n' = Len(readerQ) /\ UNCHANGED <<readerQ, done>>
    BY <1>5 DEF WorkerCountsReaders, Goto
  <2>2. Unfinished' = Unfinished /\ pc'[Worker] = "counted" /\ Unfinished = {}
    BY <1>1, <2>1 DEF RoundInv, QuietInv
  <2>3. Counted = 0 /\ Counted' = Len(readerQ) /\ WriterHasIt /\ ~WriterHasIt'
    BY <2>1, <2>2 DEF Counted, WriterHasIt
  <2>4. ReadersIn' = ReadersWaiting
    BY <2>1, <2>2, <2>3 DEF ReadersIn, ReadersWaiting
  <2>5. ReadersWaiting' = {}
    BY <1>0, <2>1, <2>3 DEF ReadersWaiting, Owners
  <2> QED
    BY <2>3, <2>4, <2>5 DEF ScheduleStep
<1>6. CASE WorkerGrantsReader
  <2>1. /\ pc[Worker] = "grant" /\ pc' = [pc EXCEPT ![Worker] = "grant"]
        /\ toGrant > 0 /\ readerQ # <<>> /\ toGrant' = toGrant - 1
        /\ readerQ' = Tail(readerQ)
        /\ done' = [done EXCEPT ![Head(readerQ)] = @ + 1]
    BY <1>6 DEF WorkerGrantsReader, Complete, Goto
  <2>2. /\ Head(readerQ) = readerQ[1] /\ Len(readerQ') = Len(readerQ) - 1
        /\ \A i \in 1 .. Len(readerQ') : readerQ'[i] = readerQ[i + 1]
        /\ 1 \in 1 .. Len(readerQ)
    BY <1>0, <2>1, TailProperties, HeadTailProperties
  <2>3. PICK r \in Readers : Head(readerQ) = FileOf[r]
    BY <2>2 DEF GrantInv, QueueOwners
  <2>4. \A t \in (Readers \cup Writers) \ {r} : FileOf[t] # FileOf[r]
    BY OwnFile
  <2>5. /\ pc'[Worker] = "grant" /\ \A t \in Readers : pc'[t] = pc[t]
        /\ done'[FileOf[r]] = done[FileOf[r]] + 1 /\ FileOf[r] \in Sleepers
        /\ \A t \in Readers \ {r} : done'[FileOf[t]] = done[FileOf[t]]
    BY <1>0, <2>1, <2>3, <2>4
  <2>6. Unfinished' = Unfinished \cup {r}
    BY <1>0, <2>5 DEF Unfinished
  <2>7. /\ Counted = toGrant /\ Counted' = toGrant - 1
        /\ WriterHasIt' = WriterHasIt
    BY <2>1, <2>5 DEF Counted, WriterHasIt
  <2>8. Owners(readerQ, 0, toGrant) = Owners(readerQ', 0, toGrant - 1) \cup {r}
    <3>1. ASSUME NEW s \in Owners(readerQ, 0, toGrant)
          PROVE  s \in Owners(readerQ', 0, toGrant - 1) \cup {r}
      <4>1. PICK i \in 1 .. Len(readerQ) : i <= toGrant /\ readerQ[i] = FileOf[s]
        BY DEF Owners
      <4>2. CASE i = 1
        BY <2>2, <2>3, <2>4, <4>1, <4>2 DEF Owners
      <4>3. CASE i # 1
        <5>1. i - 1 \in 1 .. Len(readerQ') /\ readerQ'[i - 1] = FileOf[s] /\ i - 1 <= toGrant - 1
          BY <1>0, <2>2, <4>1, <4>3
        <5> QED
          BY <5>1 DEF Owners
      <4> QED
        BY <4>2, <4>3
    <3>2. ASSUME NEW s \in Owners(readerQ', 0, toGrant - 1)
          PROVE  s \in Owners(readerQ, 0, toGrant)
      <4>1. PICK i \in 1 .. Len(readerQ') : i <= toGrant - 1 /\ readerQ'[i] = FileOf[s]
        BY DEF Owners
      <4>2. i + 1 \in 1 .. Len(readerQ) /\ readerQ[i + 1] = FileOf[s] /\ i + 1 <= toGrant
        BY <1>0, <2>2, <4>1
      <4> QED
        BY <4>2 DEF Owners
    <3>3. r \in Owners(readerQ, 0, toGrant)
      BY <1>0, <2>1, <2>2, <2>3 DEF Owners
    <3> QED
      BY <3>1, <3>2, <3>3
  <2>9. ReadersWaiting' = ReadersWaiting
    <3>1. ASSUME NEW s \in ReadersWaiting PROVE s \in ReadersWaiting'
      <4>1. PICK i \in 1 .. Len(readerQ) : toGrant < i /\ readerQ[i] = FileOf[s]
        BY <2>7 DEF ReadersWaiting, Owners
      <4>2. i - 1 \in 1 .. Len(readerQ') /\ readerQ'[i - 1] = FileOf[s] /\ toGrant - 1 < i - 1
        BY <1>0, <2>1, <2>2, <4>1
      <4> QED
        BY <1>0, <2>2, <2>7, <4>2 DEF ReadersWaiting, Owners
    <3>2. ASSUME NEW s \in ReadersWaiting' PROVE s \in ReadersWaiting
      <4>1. PICK i \in 1 .. Len(readerQ') : toGrant - 1 < i /\ readerQ'[i] = FileOf[s]
        BY <2>7 DEF ReadersWaiting, Owners
      <4>2. i + 1 \in 1 .. Len(readerQ) /\ readerQ[i + 1] = FileOf[s] /\ toGrant < i + 1
        BY <1>0, <2>2, <4>1
      <4> QED
        BY <1>0, <2>7, <4>2 DEF ReadersWaiting, Owners
    <3> QED
      BY <3>1, <3>2
  <2>10. ReadersIn' = ReadersIn
    BY <2>6, <2>7, <2>8 DEF ReadersIn
  <2> QED
    BY <2>7, <2>9, <2>10 DEF ScheduleStep
<1> QED
  BY <1>2, <1>3, <1>4, <1>5, <1>6 DEF WorkerStep, WorkerServesReader

(* The worker's queue, completions and count implement the schedule of     *)
(* ReadersWriters: one writer at a time, then the readers that were        *)
(* waiting when it was done, all of them, before the next writer.          *)
THEOREM SchedulerImplements == ~Preemptible /\ OneThreadPerFile => (Spec => ScheduleSpec)
<1> SUFFICES ASSUME ~Preemptible, OneThreadPerFile PROVE Spec => ScheduleSpec
  OBVIOUS
<1>1. Init => Schedule!Init
  <2> SUFFICES ASSUME Init PROVE Schedule!Init
    OBVIOUS
  <2> USE SchedulerAssumption, FileOfType DEF Init
  <2>1. /\ pc[Worker] = "check" /\ readerQ = <<>>
        /\ \A r \in Readers : pc[r] = "idle" /\ done[FileOf[r]] = 0
    BY DEF Threads, Sleepers
  <2>2. Unfinished = {}
    BY <2>1 DEF Unfinished, ExitSection
  <2> QED
    BY <2>1, <2>2 DEF Schedule!Init
<1>2. TypeOK /\ GrantInv /\ RoundInv /\ (TypeOK /\ RoundInv)' /\ [Next]_vars
        => [Schedule!Next]_(Schedule!vars)
  <2> SUFFICES ASSUME TypeOK, GrantInv, RoundInv, (TypeOK /\ RoundInv)', [Next]_vars
               PROVE  [Schedule!Next]_(Schedule!vars)
    OBVIOUS
  <2>1. CASE UNCHANGED vars
    <3>1. UNCHANGED <<readerQ, n, toGrant>> /\ UNCHANGED <<pc, done>>
      BY <2>1 DEF vars
    <3> QED
      BY <3>1, OthersSchedule, MappedStep
  <2>2. CASE Next
    <3>1. ScheduleStep
      BY <2>2, ReaderSchedules, WriterSchedules, PollerSchedules, WorkerSchedules DEF Next
    <3> QED
      BY <3>1, MappedStep
  <2> QED
    BY <2>1, <2>2
<1> QED
  BY <1>1, <1>2, RoundsAreSound, PTL DEF Spec, ScheduleSpec, Schedule!Spec
-----------------------------------------------------------------------------
(* The last reader of a round is the only one left in it.                  *)
LEMMA LastIsAlone ==
  ASSUME TypeOK, RoundInv, NEW r \in Readers, pc[r] \in {"last", "free", "signal"}
  PROVE  /\ Unfinished = {r} /\ Granted = {}
         /\ pc[Worker] \in {"grant", "withReaders"} /\ done[Worker] = 0
<1>1. r \in Unfinished
  BY InHandler DEF ExitSection
<1>2. pc[Worker] \in {"grant", "withReaders"}
  BY <1>1, Stage
<1>3. /\ IsFiniteSet(Unfinished) /\ n = toGrant + Cardinality(Unfinished) /\ Granted = {}
  BY <1>2 DEF RoundInv, ReaderRound
<1>4. n = 1 /\ done[Worker] = 0
  BY DEF RoundInv, ExitRound
<1>5. Cardinality(Unfinished) \in Nat /\ Cardinality(Unfinished) # 0
  BY <1>1, <1>3, FS_CardinalityType, FS_EmptySet
<1>6. Cardinality(Unfinished) = 1
  BY <1>3, <1>4, <1>5 DEF TypeOK, RoundOK
<1> QED
  BY <1>1, <1>2, <1>3, <1>4, <1>6, FS_Singleton

(* What the steps of each kind of thread leave alone.                      *)
LEMMA WriterLeavesAlone ==
  ASSUME TypeOK, NEW w \in Writers, WriterEnqueues(w) \/ WriterStep(w)
  PROVE  /\ UNCHANGED <<vectorVars, readerVars, n, toGrant, cnt>>
         /\ \A r \in Readers : pc'[r] = pc[r]
         /\ \A v \in Writers \ {w} : pc'[v] = pc[v]
         /\ pc'[Worker] = pc[Worker] \/ (pc[Worker] = "asleep" /\ pc'[Worker] = "check")
<1> USE SchedulerAssumption
<1>0. /\ DOMAIN pc = Threads /\ w # Worker
      /\ \A t \in Readers \cup Writers \cup {Worker} : t \in Threads
      /\ \A t \in Readers : t # w /\ t # Worker
      /\ \A t \in Writers : t # Worker
  BY DEF Threads, TypeOK, PcOK
<1>1. UNCHANGED <<vectorVars, readerVars, n, toGrant, cnt>>
  BY DEF WriterStep, WriterLockStep, WriterEnqueues, WriterWakesWorker, WriterGranted,
     WriterLocks, WriterLockInterrupted, WriterBegins, WriterUpdates, WriterSignals
<1>2. CASE WriterWakesWorker(w)
  BY <1>0, <1>1, <1>2 DEF WriterWakesWorker
<1>3. CASE ~WriterWakesWorker(w)
  <2>1. \E to : pc' = [pc EXCEPT ![w] = to]
    BY <1>3 DEF WriterStep, WriterLockStep, WriterEnqueues, WriterGranted, Goto,
       WriterLocks, WriterLockInterrupted, WriterBegins, WriterUpdates, WriterSignals
  <2> QED
    BY <1>0, <1>1, <2>1
<1> QED
  BY <1>2, <1>3

LEMMA WorkerLeavesAlone ==
  ASSUME TypeOK, WorkerStep
  PROVE  /\ \A t \in Readers \cup Writers : pc'[t] = pc[t]
         /\ UNCHANGED <<readerVars, table>>
<1>1. \E to : pc' = [pc EXCEPT ![Worker] = to]
  BY DEF WorkerStep, WorkerServesReader, WorkerSleeps, WorkerGrantsWriter, WriterIsDone,
     WorkerCountsReaders, NoReaders, WorkerAllocates, WorkerAllocFails, WorkerFills,
     WorkerGrantsReader, WorkerAwaitsReaders, ReadersAreDone, WorkerOops, Goto
<1>2. UNCHANGED <<readerVars, table>>
  BY DEF WorkerStep, WorkerServesReader, WorkerSleeps, WorkerGrantsWriter, WriterIsDone,
     WorkerCountsReaders, NoReaders, WorkerAllocates, WorkerAllocFails, WorkerFills,
     WorkerGrantsReader, WorkerAwaitsReaders, ReadersAreDone, WorkerOops,
     rt_empty_change_list
<1> QED
  BY <1>1, <1>2, SchedulerAssumption

LEMMA PollerLeavesAlone ==
  ASSUME TypeOK, NEW p \in Pollers, PollerLocks(p) \/ PollerStep(p)
  PROVE  /\ \A t \in Readers \cup Writers \cup {Worker} : pc'[t] = pc[t]
         /\ UNCHANGED <<listVars, vectorVars, readerVars, roundVars, done>>
<1>1. /\ \E to : pc' = [pc EXCEPT ![p] = to]
      /\ UNCHANGED <<listVars, vectorVars, readerVars, roundVars, done>>
  BY DEF PollerLocks, PollerStep, PollerLocksTable, PollerInterrupted, PollerQueries,
     PollerLeaves, Goto
<1> QED
  BY <1>1, SchedulerAssumption

LEMMA ReaderLeavesAlone ==
  ASSUME TypeOK, NEW r \in Readers, ReaderEnters(r) \/ ReaderStep(r)
  PROVE  /\ \A t \in (Readers \cup Writers \cup {Worker}) \ {r} : pc'[t] = pc[t]
         /\ UNCHANGED <<table, body>>
         /\ changes' = changes \/ LastReaderEmptiesList(r)
<1>1. \E to : pc' = [pc EXCEPT ![r] = to]
  BY DEF ReaderEnters, ReaderStep, ReaderEnqueues, ReaderEnqueueInterrupted,
     ReaderWakes, ReaderCopies, ReaderCopied, ReaderLocksExit, ReaderExitInterrupted,
     ReaderTests, LastReaderEmptiesList, LastReaderFrees, LastReaderSignals,
     ReaderReadsCount, ReaderLeaves, Goto
<1>2. UNCHANGED <<table, body>> /\ (changes' = changes \/ LastReaderEmptiesList(r))
  <2>1. CASE LastReaderEmptiesList(r)
    BY <2>1 DEF LastReaderEmptiesList, rt_empty_change_list
  <2>2. CASE ~LastReaderEmptiesList(r)
    BY <2>2 DEF ReaderEnters, ReaderStep, ReaderEnqueues, ReaderEnqueueInterrupted,
       ReaderWakes, ReaderCopies, ReaderCopied, ReaderLocksExit, ReaderExitInterrupted,
       ReaderTests, LastReaderFrees, FreeVector, LastReaderSignals,
       ReaderReadsCount, ReaderLeaves
  <2> QED
    BY <2>1, <2>2
<1> QED
  BY <1>1, <1>2, SchedulerAssumption DEF TypeOK, PcOK, Threads
-----------------------------------------------------------------------------
(* A round starts with no change, the round's writer adds one at most, and *)
(* the list is empty again before the worker takes the next writer.        *)
ChangeInv ==
    /\ pc[Worker] \in {"check", "asleep"} => changes = <<>>
    /\ \A w \in Granted : pc[w] # "tell" => changes = <<>>
    /\ pc[Worker] \in {"grant", "withReaders"} /\ done[Worker] = 1 => changes = <<>>
    /\ \A r \in Readers : pc[r] \in {"free", "signal"} => changes = <<>>
    /\ Len(changes) <= 1
    /\ NoDanglingChange

(* An emptied list needs no argument.                                      *)
LEMMA NoChange == ASSUME changes' = <<>> PROVE ChangeInv'
BY DEF ChangeInv, NoDanglingChange

LEMMA ReaderChanges ==
  ASSUME TypeOK, OneThreadPerFile, GrantInv, RoundInv, ChangeInv,
         NEW r \in Readers, ReaderEnters(r) \/ ReaderStep(r)
  PROVE  ChangeInv'
<1> USE SchedulerAssumption, FileOfType
<1>0. /\ r \in Threads /\ DOMAIN pc = Threads /\ r # Worker /\ r \notin Writers
      /\ done \in [Sleepers -> Nat] /\ Worker \in Sleepers
  BY DEF Threads, TypeOK, PcOK, QueuesOK, Sleepers
<1>1. CASE LastReaderEmptiesList(r)
  BY <1>1, NoChange DEF LastReaderEmptiesList, rt_empty_change_list
<1>2. CASE ~LastReaderEmptiesList(r)
  <2>1. UNCHANGED <<table, changes>> /\ \A t \in (Readers \cup Writers \cup {Worker}) \ {r} : pc'[t] = pc[t]
    BY <1>2, ReaderLeavesAlone
  <2>2. CASE changes = <<>>
    BY <2>1, <2>2, NoChange
  <2>3. CASE changes # <<>>
    <3>1. ~LastReaderFrees(r) /\ ~LastReaderSignals(r)
      BY <2>3 DEF ChangeInv, LastReaderFrees, LastReaderSignals, Goto
    <3>2. pc'[r] \notin {"free", "signal"}
      BY <1>0, <1>2, <3>1 DEF ReaderEnters, ReaderStep, ReaderEnqueues,
         ReaderEnqueueInterrupted, ReaderWakes, ReaderCopies, ReaderCopied,
         ReaderLocksExit, ReaderExitInterrupted, ReaderTests, ReaderReadsCount,
         ReaderLeaves, Goto
    <3>3. done' = done \/ ReaderWakes(r)
      BY <1>2, <3>1 DEF ReaderEnters, ReaderStep, ReaderEnqueues,
         ReaderEnqueueInterrupted, ReaderCopies, ReaderCopied,
         ReaderLocksExit, ReaderExitInterrupted, ReaderTests, ReaderReadsCount,
         ReaderLeaves
    <3>4. /\ done'[Worker] = done[Worker]
          /\ \A w \in Writers : done'[FileOf[w]] = done[FileOf[w]]
      BY <1>0, <3>3 DEF ReaderWakes, Take, OneThreadPerFile
    <3>5. Granted' = Granted
      BY <1>0, <2>1, <3>4 DEF Granted
    <3> QED
      BY <1>0, <2>1, <3>2, <3>4, <3>5 DEF ChangeInv, NoDanglingChange, Granted
  <2> QED
    BY <2>2, <2>3
<1> QED
  BY <1>1, <1>2

LEMMA WriterChanges ==
  ASSUME TypeOK, OneThreadPerFile, GrantInv, RoundInv, RoundInv', TypeOK', ChangeInv,
         NEW w \in Writers, WriterEnqueues(w) \/ WriterStep(w)
  PROVE  ChangeInv'
<1> USE SchedulerAssumption, FileOfType
<1>0. /\ w \in Threads /\ DOMAIN pc = Threads /\ w # Worker
      /\ done \in [Sleepers -> Nat] /\ Worker \in Sleepers
      /\ \A v \in Writers \ {w} : FileOf[v] # FileOf[w]
  BY DEF Threads, TypeOK, PcOK, QueuesOK, Sleepers, OneThreadPerFile
<1>1. /\ \A r \in Readers : pc'[r] = pc[r]
      /\ \A v \in Writers \ {w} : pc'[v] = pc[v]
      /\ pc'[Worker] = pc[Worker] \/ (pc[Worker] = "asleep" /\ pc'[Worker] = "check")
  BY WriterLeavesAlone
<1>2. CASE WriterUpdates(w)
  <2>1. /\ pc[w] = "update" /\ pc'[w] = "tell" /\ done' = done
    BY <1>0, <1>2 DEF WriterUpdates, Goto
  <2>2. w \in Granted /\ pc[Worker] = "withWriter"
    BY <2>1, Stage DEF Granted
  <2>3. changes = <<>> /\ Unfinished = {} /\ \A v \in Granted : v = w
    BY <2>1, <2>2 DEF ChangeInv, RoundInv, WriterRound
  <2>4. \A v \in Granted' : v = w
    BY <1>1, <2>1, <2>2, <2>3 DEF Granted
  <2>5. \A r \in Readers : pc'[r] \notin {"free", "signal"}
    BY <1>1, <2>3, InHandler DEF ExitSection
  <2>6. /\ changes' = <<>> \/ (changes' = <<w>> /\ w \in table')
        /\ Len(changes') <= 1
    <3>1. \/ changes' = <<w>> \o <<>> /\ table' = table \cup {w}
          \/ changes' = <<>>
      BY <1>2, <2>3 DEF WriterUpdates, Apply, add_rt_table_entry_by_val, purge_rt_table
    <3>2. <<w>> \o <<>> = <<w>> /\ Len(<<w>>) = 1 /\ Len(<<>>) = 0
      OBVIOUS
    <3>3. CASE changes' = <<>>
      BY <3>2, <3>3
    <3>4. CASE changes' # <<>>
      <4>1. changes' = <<w>> /\ w \in table'
        BY <3>1, <3>2, <3>4
      <4> QED
        BY <3>2, <4>1
    <3> QED
      BY <3>3, <3>4
  <2>7. NoDanglingChange'
    BY <2>6 DEF NoDanglingChange
  <2> QED
    BY <1>1, <2>1, <2>2, <2>4, <2>5, <2>6, <2>7 DEF ChangeInv
<1>3. CASE ~WriterUpdates(w)
  <2>1. UNCHANGED <<table, changes>>
    BY <1>3 DEF WriterStep, WriterLockStep, WriterEnqueues, WriterWakesWorker, WriterGranted,
       WriterLocks, WriterLockInterrupted, WriterBegins, WriterSignals
  <2>2. CASE changes = <<>>
    BY <2>1, <2>2, NoChange
  <2>3. CASE changes # <<>>
    <3>1. w \in Granted => pc[w] = "tell"
      BY <2>3 DEF ChangeInv
    <3>2. CASE WriterSignals(w)
      <4>1. pc[w] = "tell" /\ w \in Granted
        BY <3>2 DEF WriterSignals, Goto, Granted
      <4>2. pc[Worker] = "withWriter" /\ \A v \in Granted : v = w
        BY <4>1, Stage DEF RoundInv, WriterRound
      <4>3. /\ pc'[w] = "idle" /\ \A v \in Writers : done'[FileOf[v]] = done[FileOf[v]]
        BY <1>0, <3>2 DEF WriterSignals, Goto, Complete
      <4>4. done[FileOf[w]] = 0
        BY <1>0, <4>1 DEF GrantInv, WritersGranted, GrantedOnce
      <4>5. Granted' = {}
        BY <1>1, <4>2, <4>3, <4>4 DEF Granted
      <4> QED
        BY <1>1, <2>1, <4>2, <4>5 DEF ChangeInv, NoDanglingChange
    <3>3. CASE ~WriterSignals(w)
      <4>1. \/ WriterEnqueues(w) \/ WriterWakesWorker(w) \/ WriterGranted(w)
            \/ WriterLocks(w) \/ WriterLockInterrupted(w) \/ WriterBegins(w)
        BY <1>3, <3>3 DEF WriterStep, WriterLockStep
      <4>2. ~WriterGranted(w) /\ ~WriterLocks(w) /\ ~WriterLockInterrupted(w) /\ ~WriterBegins(w)
        <5>1. WriterGranted(w) => w \in Granted /\ pc[w] = "wait"
          BY DEF WriterGranted, Take, Goto, Granted
        <5>2. WriterLocks(w) \/ WriterLockInterrupted(w) \/ WriterBegins(w)
                => w \in Granted /\ pc[w] = "granted"
          BY DEF WriterLocks, WriterLockInterrupted, WriterBegins, Goto, Granted
        <5> QED
          BY <3>1, <5>1, <5>2
      <4>3. done' = done /\ pc'[w] \in {"wake", "wait"} /\ pc[w] \in {"idle", "wake"}
        BY <1>0, <4>1, <4>2 DEF WriterEnqueues, WriterWakesWorker, Goto
      <4>4. Granted' = Granted /\ w \notin Granted
        BY <1>1, <3>1, <4>3 DEF Granted
      <4> QED
        BY <1>1, <2>1, <4>3, <4>4 DEF ChangeInv, NoDanglingChange, Granted
    <3> QED
      BY <3>2, <3>3
  <2> QED
    BY <2>2, <2>3
<1> QED
  BY <1>2, <1>3

LEMMA WorkerChanges ==
  ASSUME TypeOK, OneThreadPerFile, GrantInv, RoundInv, RoundInv', ChangeInv, WorkerStep
  PROVE  ChangeInv'
<1> USE SchedulerAssumption, FileOfType
<1>0. /\ Worker \in Threads /\ DOMAIN pc = Threads /\ Worker \in Sleepers
      /\ \A t \in Readers \cup Writers : t # Worker /\ FileOf[t] # Worker
      /\ done \in [Sleepers -> Nat]
  BY DEF Threads, TypeOK, PcOK, QueuesOK, Sleepers
<1>1. (\A t \in Readers \cup Writers : pc'[t] = pc[t]) /\ UNCHANGED table
  BY WorkerLeavesAlone
<1>2. CASE NoReaders
  BY <1>2, NoChange DEF NoReaders, rt_empty_change_list
<1>3. CASE ~NoReaders
  <2>1. changes' = changes
    BY <1>3 DEF WorkerStep, WorkerServesReader, WorkerSleeps, WorkerGrantsWriter, WriterIsDone,
       WorkerCountsReaders, WorkerAllocates, WorkerAllocFails, WorkerFills,
       WorkerGrantsReader, WorkerAwaitsReaders, ReadersAreDone, WorkerOops
  <2>2. CASE changes = <<>>
    BY <2>1, <2>2, NoChange
  <2>3. CASE changes # <<>>
    <3>1. ~WorkerGrantsWriter /\ ~WorkerSleeps
      BY <2>3 DEF ChangeInv, WorkerGrantsWriter, WorkerSleeps, Goto
    <3>2. ~ReadersAreDone
      <4>1. ReadersAreDone => pc[Worker] = "withReaders" /\ done[Worker] > 0
        BY DEF ReadersAreDone, Goto, Take
      <4> QED
        BY <2>3, <4>1 DEF ChangeInv, RoundInv, ReaderRound
    <3>3. /\ pc'[Worker] \notin {"check", "asleep"}
          /\ pc'[Worker] \in {"grant", "withReaders"} =>
               /\ pc[Worker] \in {"counted", "fill", "grant"}
               /\ done' = done \/ WorkerGrantsReader
      BY <1>0, <1>3, <3>1, <3>2 DEF WorkerStep, WorkerServesReader, WriterIsDone,
         WorkerCountsReaders, WorkerAllocates, WorkerAllocFails, WorkerFills,
         WorkerGrantsReader, WorkerAwaitsReaders, WorkerOops, Goto
    <3>4. /\ \A w \in Writers : done'[FileOf[w]] = done[FileOf[w]]
          /\ WorkerGrantsReader => done'[Worker] = done[Worker]
      <4>1. CASE WorkerGrantsReader
        <5>1. readerQ # <<>> /\ done' = [done EXCEPT ![Head(readerQ)] = @ + 1]
          BY <4>1 DEF WorkerGrantsReader, Complete
        <5>2. PICK r \in Readers : Head(readerQ) = FileOf[r]
          BY <5>1, TailProperties DEF GrantInv, QueueOwners, TypeOK, QueuesOK
        <5> QED
          BY <1>0, <5>1, <5>2 DEF OneThreadPerFile
      <4>2. CASE ~WorkerGrantsReader
        <5>1. done' = done \/ done' = [done EXCEPT ![Worker] = @ - 1]
          BY <1>3, <3>1, <4>2 DEF WorkerStep, WorkerServesReader, WriterIsDone,
             WorkerCountsReaders, WorkerAllocates, WorkerAllocFails, WorkerFills,
             WorkerAwaitsReaders, ReadersAreDone, WorkerOops, Take
        <5> QED
          BY <1>0, <4>2, <5>1
      <4> QED
        BY <4>1, <4>2
    <3>5. Granted' = Granted
      BY <1>1, <3>4 DEF Granted
    <3>6. pc'[Worker] \in {"grant", "withReaders"} /\ done'[Worker] = 1 =>
             pc[Worker] = "grant" /\ done[Worker] = 1
      BY <3>3, <3>4 DEF RoundInv, QuietInv
    <3> QED
      BY <1>1, <2>1, <3>3, <3>5, <3>6 DEF ChangeInv, NoDanglingChange, Granted
  <2> QED
    BY <2>2, <2>3
<1> QED
  BY <1>2, <1>3

LEMMA ChangesStep ==
  ASSUME TypeOK, TypeOK', OneThreadPerFile, GrantInv, RoundInv, RoundInv', ChangeInv,
         [Next]_vars
  PROVE  ChangeInv'
<1>1. ASSUME NEW p \in Pollers, PollerLocks(p) \/ PollerStep(p) PROVE ChangeInv'
  BY <1>1, PollerLeavesAlone DEF ChangeInv, NoDanglingChange, Granted
<1>2. CASE UNCHANGED vars
  BY <1>2 DEF vars, ChangeInv, NoDanglingChange, Granted
<1> QED
  BY <1>1, <1>2, ReaderChanges, WriterChanges, WorkerChanges DEF Next

(* The list of changes is in step with the rounds.                         *)
LEMMA ChangesAreRounds ==
  ~Preemptible /\ OneThreadPerFile
      => (Spec => [](TypeOK /\ GrantInv /\ RoundInv /\ ChangeInv))
<1> SUFFICES ASSUME ~Preemptible, OneThreadPerFile
             PROVE  Spec => [](TypeOK /\ GrantInv /\ RoundInv /\ ChangeInv)
  OBVIOUS
<1>1. Init => ChangeInv
  <2>1. Init => changes = <<>>
    BY DEF Init, TableInit
  <2>2. changes = <<>> => ChangeInv
    BY DEF ChangeInv, NoDanglingChange
  <2> QED
    BY <2>1, <2>2
<1>2. TypeOK /\ GrantInv /\ RoundInv /\ (TypeOK /\ RoundInv)' /\ ChangeInv /\ [Next]_vars
         => ChangeInv'
  <2> SUFFICES ASSUME TypeOK, GrantInv, RoundInv, TypeOK', RoundInv', ChangeInv, [Next]_vars
               PROVE  ChangeInv'
    OBVIOUS
  <2> QED
    BY ChangesStep
<1> QED
  BY <1>1, <1>2, RoundsAreSound, PTL DEF Spec

(* The worker's walk of the change list never meets an entry a purge has   *)
(* freed (rt_table.c:269-274): the list is empty whenever a writer purges. *)
THEOREM ChangesArePresent ==
    ~Preemptible /\ OneThreadPerFile => (Spec => []NoDanglingChange)
<1>1. TypeOK /\ GrantInv /\ RoundInv /\ ChangeInv => NoDanglingChange
  BY DEF ChangeInv
<1> QED
  BY <1>1, ChangesAreRounds, PTL
-----------------------------------------------------------------------------
(* The vector belongs to the round of readers: the worker makes it before  *)
(* it lets them in, each of them holds it only while it copies, and it is  *)
(* gone when the last of them signals.                                     *)
VectorInv ==
    /\ vec \notin freed
    /\ pc[Worker] \in {"check", "asleep", "withWriter", "count", "counted"} => vec = Null
    /\ IF pc[Worker] = "fill" THEN vec # Null /\ hold[Worker] = vec ELSE hold[Worker] = Null
    /\ \A r \in Readers : IF pc[r] = "copying" THEN hold[r] = vec ELSE hold[r] = Null
    /\ \A r \in Readers : pc[r] = "signal" => vec = Null
    /\ pc[Worker] \in {"grant", "withReaders"} /\ done[Worker] = 1 => vec = Null

LEMMA VectorStep ==
  ASSUME TypeOK, TypeOK', OneThreadPerFile, GrantInv, RoundInv, RoundInv', VectorInv,
         [Next]_vars
  PROVE  VectorInv'
<1> USE SchedulerAssumption, TableAssumption, FileOfType
<1>0. /\ DOMAIN pc = Threads /\ DOMAIN hold = Copiers /\ Worker \in Copiers
      /\ freed \subseteq Vectors /\ Null \notin freed
      /\ done \in [Sleepers -> Nat] /\ Worker \in Sleepers
      /\ \A r \in Readers : r \in Threads /\ r # Worker /\ r \in Copiers
      /\ \A w \in Writers : w \in Threads /\ w # Worker /\ w \notin Readers
      /\ Worker \in Threads
  BY DEF TypeOK, TableTypeOK, QueuesOK, PcOK, Threads, Sleepers
<1>1. CASE UNCHANGED vars
  BY <1>1 DEF vars, VectorInv
<1>2. ASSUME NEW p \in Pollers, PollerLocks(p) \/ PollerStep(p) PROVE VectorInv'
  BY <1>2, PollerLeavesAlone DEF VectorInv
<1>3. ASSUME NEW w \in Writers, WriterEnqueues(w) \/ WriterStep(w) PROVE VectorInv'
  <2>1. /\ UNCHANGED vectorVars /\ \A r \in Readers : pc'[r] = pc[r]
        /\ pc'[Worker] = pc[Worker] \/ (pc[Worker] = "asleep" /\ pc'[Worker] = "check")
    BY <1>3, WriterLeavesAlone
  <2>2. pc[Worker] \in {"grant", "withReaders"} => done'[Worker] = done[Worker]
    <3>1. CASE WriterSignals(w)
      <4>1. w \in Granted
        BY <3>1 DEF WriterSignals, Goto, Granted
      <4> QED
        BY <4>1, Stage
    <3>2. CASE ~WriterSignals(w)
      <4>1. done' = done \/ done' = [done EXCEPT ![FileOf[w]] = @ - 1]
        BY <1>3, <3>2 DEF WriterStep, WriterLockStep, WriterEnqueues, WriterWakesWorker,
           WriterGranted, WriterLocks, WriterLockInterrupted, WriterBegins, WriterUpdates,
           Take
      <4> QED
        BY <1>0, <4>1
    <3> QED
      BY <3>1, <3>2
  <2> QED
    BY <2>1, <2>2 DEF VectorInv
<1>4. ASSUME NEW r \in Readers, ReaderEnters(r) \/ ReaderStep(r) PROVE VectorInv'
  <2>1. /\ \A s \in Readers \ {r} : pc'[s] = pc[s]
        /\ pc'[Worker] = pc[Worker]
    BY <1>0, <1>4, ReaderLeavesAlone
  <2>2. CASE ReaderCopies(r)
    <3>1. /\ pc'[r] = "copying" /\ pc[r] = "copy" /\ UNCHANGED <<vec, freed, done>>
          /\ hold' = [hold EXCEPT ![r] = vec]
      BY <1>0, <2>2 DEF ReaderCopies, Goto
    <3> QED
      BY <1>0, <2>1, <3>1 DEF VectorInv
  <2>3. CASE ReaderCopied(r)
    <3>1. /\ pc'[r] = "exit" /\ pc[r] = "copying" /\ UNCHANGED <<vec, freed, done>>
          /\ hold' = [hold EXCEPT ![r] = Null]
      BY <1>0, <2>3 DEF ReaderCopied, Goto
    <3> QED
      BY <1>0, <2>1, <3>1 DEF VectorInv
  <2>4. CASE LastReaderFrees(r)
    <3>1. /\ pc'[r] = "signal" /\ pc[r] = "free" /\ UNCHANGED <<hold, done>>
          /\ vec' = Null /\ freed' = freed \cup ({vec} \ {Null})
      BY <1>0, <2>4 DEF LastReaderFrees, FreeVector, Goto
    <3>2. Unfinished = {r} /\ pc[Worker] \in {"grant", "withReaders"}
      BY <3>1, LastIsAlone
    <3>3. \A s \in Readers : pc'[s] # "copying" /\ hold[s] = Null
      <4>1. \A s \in Readers : pc[s] = "copying" => s = r
        BY <3>2, InHandler
      <4> QED
        BY <2>1, <3>1, <4>1 DEF VectorInv
    <3> QED
      BY <1>0, <2>1, <3>1, <3>2, <3>3 DEF VectorInv
  <2>5. CASE LastReaderSignals(r)
    <3>1. /\ pc'[r] = "dec" /\ pc[r] = "signal" /\ UNCHANGED vectorVars
      BY <1>0, <2>5 DEF LastReaderSignals, Goto
    <3> QED
      BY <2>1, <3>1 DEF VectorInv
  <2>6. CASE /\ ~ReaderCopies(r) /\ ~ReaderCopied(r)
             /\ ~LastReaderFrees(r) /\ ~LastReaderSignals(r)
    <3>1. /\ UNCHANGED <<vec, freed, hold>>
          /\ done' = done \/ ReaderWakes(r)
      BY <1>4, <2>6 DEF ReaderEnters, ReaderStep, ReaderEnqueues, ReaderEnqueueInterrupted,
         ReaderWakes, ReaderLocksExit, ReaderExitInterrupted, ReaderTests,
         LastReaderEmptiesList, ReaderReadsCount, ReaderLeaves
    <3>2. done'[Worker] = done[Worker]
      BY <1>0, <3>1 DEF ReaderWakes, Take
    <3>3. pc[r] # "copying" /\ pc'[r] # "copying" /\ pc'[r] # "signal"
      BY <1>0, <1>4, <2>6 DEF ReaderEnters, ReaderStep, ReaderEnqueues,
         ReaderEnqueueInterrupted, ReaderWakes, ReaderLocksExit, ReaderExitInterrupted,
         ReaderTests, LastReaderEmptiesList, ReaderReadsCount, ReaderLeaves, Goto
    <3> QED
      BY <2>1, <3>1, <3>2, <3>3 DEF VectorInv
  <2> QED
    BY <2>2, <2>3, <2>4, <2>5, <2>6
<1>5. CASE WorkerStep
  <2>1. \A r \in Readers : pc'[r] = pc[r]
    BY <1>5, WorkerLeavesAlone
  <2>2. CASE WorkerAllocates
    <3>1. pc[Worker] = "counted" /\ pc'[Worker] = "fill" /\ done' = done
      BY <1>0, <2>2 DEF WorkerAllocates, Goto
    <3>2. Unfinished = {}
      BY <3>1 DEF RoundInv, QuietInv
    <3>3. \A r \in Readers : pc[r] # "copying"
      BY <3>2, InHandler
    <3>4. PICK v \in Available :
             /\ vec' = v /\ hold' = [hold EXCEPT ![Worker] = v] /\ freed' = freed \ {v}
      BY <2>2 DEF WorkerAllocates, AllocateVector
    <3>5. v # Null /\ \A r \in Readers : hold'[r] = Null
      BY <1>0, <3>3, <3>4 DEF VectorInv, Available
    <3>6. \A r \in Readers : pc'[r] # "signal"
      BY <2>1, <3>2, InHandler DEF ExitSection
    <3> QED
      BY <1>0, <2>1, <3>1, <3>3, <3>4, <3>5, <3>6 DEF VectorInv
  <2>3. CASE WorkerAllocFails
    <3>1. pc[Worker] = "counted" /\ pc'[Worker] = "grant" /\ UNCHANGED <<done, hold, freed>> /\ vec' = Null
      BY <1>0, <2>3 DEF WorkerAllocFails, NoVector, Goto
    <3> QED
      BY <1>0, <2>1, <3>1 DEF VectorInv
  <2>4. CASE WorkerFills
    <3>1. /\ pc[Worker] = "fill" /\ pc'[Worker] # "fill" /\ UNCHANGED <<done, vec, freed>>
          /\ hold' = [hold EXCEPT ![Worker] = Null]
          /\ pc'[Worker] \in {"grant", "dead"}
      BY <1>0, <2>4 DEF WorkerFills, FillVector, Goto
    <3>2. done[Worker] = 0
      BY <3>1 DEF RoundInv, QuietInv
    <3> QED
      BY <1>0, <2>1, <3>1, <3>2 DEF VectorInv
  <2>5. CASE ReadersAreDone
    <3>1. pc[Worker] = "withReaders" /\ pc'[Worker] = "check" /\ UNCHANGED <<vec, freed, hold>> /\ done[Worker] > 0
      BY <1>0, <2>5 DEF ReadersAreDone, Take, Goto
    <3>2. done[Worker] = 1
      BY <3>1 DEF RoundInv, ReaderRound
    <3> QED
      BY <2>1, <3>1, <3>2 DEF VectorInv
  <2>6. CASE \/ WorkerSleeps \/ WorkerGrantsWriter \/ WriterIsDone
             \/ WorkerCountsReaders \/ NoReaders
    <3>1. /\ UNCHANGED <<vec, freed, hold>>
          /\ pc[Worker] \in {"check", "withWriter", "count", "counted"}
          /\ pc'[Worker] \in {"asleep", "check", "withWriter", "count", "counted"}
      BY <1>0, <2>6 DEF WorkerSleeps, WorkerGrantsWriter, WriterIsDone, WorkerCountsReaders,
         NoReaders, Goto
    <3> QED
      BY <2>1, <3>1 DEF VectorInv
  <2>7. CASE WorkerGrantsReader \/ WorkerAwaitsReaders \/ WorkerOops
    <3>1. /\ UNCHANGED <<vec, freed, hold>> /\ pc[Worker] = "grant"
          /\ pc'[Worker] \in {"grant", "withReaders", "dead"}
      BY <1>0, <2>7 DEF WorkerGrantsReader, WorkerAwaitsReaders, WorkerOops, Goto
    <3>2. done'[Worker] = done[Worker]
      <4>1. CASE WorkerGrantsReader
        <5>1. readerQ # <<>> /\ done' = [done EXCEPT ![Head(readerQ)] = @ + 1]
          BY <4>1 DEF WorkerGrantsReader, Complete
        <5>2. PICK s \in Readers : Head(readerQ) = FileOf[s]
          BY <5>1, TailProperties DEF GrantInv, QueueOwners, TypeOK, QueuesOK
        <5> QED
          BY <1>0, <5>1, <5>2
      <4>2. CASE WorkerAwaitsReaders \/ WorkerOops
        BY <4>2 DEF WorkerAwaitsReaders, WorkerOops
      <4> QED
        BY <2>7, <4>1, <4>2
    <3> QED
      BY <2>1, <3>1, <3>2 DEF VectorInv
  <2> QED
    BY <1>5, <2>2, <2>3, <2>4, <2>5, <2>6, <2>7 DEF WorkerStep, WorkerServesReader
<1> QED
  BY <1>1, <1>2, <1>3, <1>4, <1>5 DEF Next

LEMMA VectorsAreRounds ==
  ~Preemptible /\ OneThreadPerFile
      => (Spec => [](TypeOK /\ GrantInv /\ RoundInv /\ VectorInv))
<1> SUFFICES ASSUME ~Preemptible, OneThreadPerFile
             PROVE  Spec => [](TypeOK /\ GrantInv /\ RoundInv /\ VectorInv)
  OBVIOUS
<1>1. Init => VectorInv
  BY SchedulerAssumption DEF Init, TableInit, VectorInv, Threads
<1>2. TypeOK /\ GrantInv /\ RoundInv /\ (TypeOK /\ RoundInv)' /\ VectorInv /\ [Next]_vars
         => VectorInv'
  <2> SUFFICES ASSUME TypeOK, GrantInv, RoundInv, TypeOK', RoundInv', VectorInv, [Next]_vars
               PROVE  VectorInv'
    OBVIOUS
  <2> QED
    BY VectorStep
<1> QED
  BY <1>1, <1>2, RoundsAreSound, PTL DEF Spec

(* The worker overwrites no vector that has not been freed                 *)
(* (rt_table.c:261-262, rt_fops.c:228 and 467-469).                        *)
THEOREM VectorsAreFreed == ~Preemptible /\ OneThreadPerFile => (Spec => []NoLeak)
<1>1. TypeOK /\ GrantInv /\ RoundInv /\ VectorInv => NoLeak
  BY DEF VectorInv, NoLeak
<1> QED
  BY <1>1, VectorsAreRounds, PTL

(* Nobody copies to or from a vector that has been freed (rt_fops.c:457,   *)
(* 468).                                                                   *)
THEOREM VectorsAreLive == ~Preemptible /\ OneThreadPerFile => (Spec => []VectorLive)
<1>1. TypeOK /\ GrantInv /\ RoundInv /\ VectorInv => VectorLive
  BY SchedulerAssumption, TableAssumption DEF VectorInv, VectorLive, TypeOK, TableTypeOK
<1> QED
  BY <1>1, VectorsAreRounds, PTL
-----------------------------------------------------------------------------
(* While readers are in, and until the last of them empties it, the vector *)
(* holds the changes and its count is theirs.                              *)
Delivering == /\ pc[Worker] \in {"grant", "withReaders"} /\ done[Worker] = 0
              /\ \A r \in Readers : pc[r] \notin {"last", "free", "signal"}

DeliverInv ==
    /\ Delivering => vec # Null /\ body[vec] = changes /\ vecCount = Len(changes)
    /\ \A r \in Readers : pc[r] = "copying" => want[r] = Len(changes)
    /\ Delivered

LEMMA ReadersAreServed ==
  ASSUME TypeOK, RoundInv, NEW r \in Readers, pc[r] \in {"copy", "copying", "exit", "test"}
  PROVE  Delivering
<1>1. r \in Unfinished
  BY InHandler DEF ExitSection
<1>2. pc[Worker] \in {"grant", "withReaders"}
  BY <1>1, Stage
<1>3. done[Worker] = 0
  BY <1>1, <1>2 DEF RoundInv, ReaderRound, Leaving
<1>4. ASSUME NEW s \in Readers, pc[s] \in {"last", "free", "signal"} PROVE FALSE
  <2>1. Unfinished = {s}
    BY <1>4, LastIsAlone
  <2> QED
    BY <1>1, <1>4, <2>1
<1> QED
  BY <1>2, <1>3, <1>4 DEF Delivering

(* With no reader in the middle of its copy there is nothing to deliver.   *)
LEMMA NobodyServed ==
  ASSUME ~Delivering', \A r \in Readers : pc'[r] \notin {"copying", "exit"}
  PROVE  DeliverInv'
BY DEF DeliverInv, Delivered

(* A copy of the whole list is the list.                                   *)
LEMMA WholeCopy ==
  ASSUME changes \in Seq(Updates), NEW k, k = Least(Len(changes), Len(changes))
  PROVE  k = Len(changes) /\ SubSeq(changes, 1, k) = changes
<1>1. k = Len(changes) /\ Len(changes) \in Nat
  BY DEF Least
<1>2. \A i \in 1 .. Len(changes) : changes[i] \in Updates
  BY ElementOfSeq
<1>3. SubSeq(changes, 1, Len(changes)) = changes
  BY <1>1, <1>2
<1> QED
  BY <1>1, <1>3

(* A buffer filled from a vector that holds some updates holds them.       *)
LEMMA CopyHolds ==
  ASSUME NEW q \in Seq(Updates), NEW r, hold[r] # Null, body[hold[r]] = q
  PROVE  Holds(Copied(r, Len(q)), q)
<1> DEFINE piece(i) == [update |-> q[i], bytes |-> Arrives(i, Len(q))]
<1>1. Len(q) \in Nat /\ Least(Len(q), Len(q)) = Len(q)
  BY DEF Least
<1>2. Copied(r, Len(q)) = [i \in 1 .. Len(q) |-> piece(i)]
  BY <1>1 DEF Copied
<1>3. Len(Copied(r, Len(q))) = Len(q)
  <2> HIDE DEF piece
  <2> QED
    BY <1>1, <1>2
<1>4. ASSUME NEW i \in 1 .. Len(q)
      PROVE  /\ Copied(r, Len(q))[i].update = q[i]
             /\ Copied(r, Len(q))[i].bytes = UpdateSize
                   <=> i * UpdateSize <= Len(q) * EntrySize
  <2>1. Copied(r, Len(q))[i].update = q[i] /\ Copied(r, Len(q))[i].bytes = Arrives(i, Len(q))
    BY <1>2
  <2>2. i \in Nat \ {0}
    BY <1>1
  <2>3. Arrives(i, Len(q)) = UpdateSize <=> i * UpdateSize <= Len(q) * EntrySize
    BY <1>1, <2>2, ArrivesProperties
  <2> QED
    BY <2>1, <2>3
<1> QED
  BY <1>3, <1>4 DEF Holds

LEMMA ReaderDelivers ==
  ASSUME MaxFetch >= 1, TypeOK, TypeOK', RoundInv, RoundInv', ChangeInv, VectorInv, DeliverInv,
         NEW r \in Readers, ReaderEnters(r) \/ ReaderStep(r)
  PROVE  DeliverInv'
<1> USE SchedulerAssumption, TableAssumption, FileOfType
<1>0. /\ DOMAIN pc = Threads /\ r \in Threads /\ r # Worker /\ r \notin Writers
      /\ done \in [Sleepers -> Nat] /\ Worker \in Sleepers
      /\ changes \in Seq(Updates) /\ Len(changes) \in Nat /\ vecCount \in Nat
      /\ DOMAIN want = Readers /\ DOMAIN got = Readers /\ DOMAIN rc = Readers
  <2>1. changes \in Seq(Updates) /\ vecCount \in Nat
    BY DEF TypeOK, TableTypeOK
  <2>2. DOMAIN pc = Threads /\ r \in Threads /\ done \in [Sleepers -> Nat] /\ Worker \in Sleepers
    BY DEF TypeOK, PcOK, QueuesOK, Threads, Sleepers
  <2> QED
    BY <2>1, <2>2 DEF TypeOK, LocalsOK
<1>1. /\ \A s \in Readers \ {r} : pc'[s] = pc[s]
      /\ pc'[Worker] = pc[Worker] /\ body' = body
  BY <1>0, ReaderLeavesAlone
<1>2. CASE ReaderEnters(r)
  <2>1. /\ pc[r] = "idle" /\ pc'[r] = "enter" /\ vecCount' = Least(vecCount, MaxFetch)
        /\ UNCHANGED <<changes, vec, done, want, got, rc>>
    BY <1>0, <1>2 DEF ReaderEnters, Goto
  <2>2. Delivering' => Delivering
    BY <1>1, <2>1 DEF Delivering
  <2>3. Delivering => vecCount' = vecCount
    BY <1>0, <2>1 DEF DeliverInv, ChangeInv, Least
  <2> QED
    BY <1>1, <2>1, <2>2, <2>3 DEF DeliverInv, Delivered
<1>3. CASE ReaderCopies(r)
  <2>1. /\ pc[r] = "copy" /\ pc'[r] = "copying" /\ want' = [want EXCEPT ![r] = vecCount]
        /\ UNCHANGED <<changes, vec, vecCount, done, got, rc>>
    BY <1>0, <1>3 DEF ReaderCopies, Goto
  <2>2. Delivering
    BY <2>1, ReadersAreServed
  <2> QED
    BY <1>0, <1>1, <2>1, <2>2 DEF DeliverInv, Delivered
<1>4. CASE ReaderCopied(r)
  <2>1. /\ pc[r] = "copying" /\ pc'[r] = "exit"
        /\ got' = [got EXCEPT ![r] = Copied(r, want[r])] /\ rc' = [rc EXCEPT ![r] = vecCount]
        /\ UNCHANGED <<changes, vec, vecCount, done, want>>
    BY <1>0, <1>4 DEF ReaderCopied, Goto
  <2>2. Delivering
    BY <2>1, ReadersAreServed
  <2>3. /\ hold[r] = vec /\ vec # Null /\ body[vec] = changes /\ vecCount = Len(changes)
        /\ want[r] = Len(changes)
    BY <2>1, <2>2 DEF DeliverInv, VectorInv
  <2>4. Holds(Copied(r, want[r]), changes)
    BY <1>0, <2>3, CopyHolds
  <2> QED
    BY <1>0, <1>1, <2>1, <2>2, <2>3, <2>4 DEF DeliverInv, Delivered
<1>5. CASE LastReaderEmptiesList(r) \/ LastReaderFrees(r) \/ LastReaderSignals(r)
  <2>1. pc[r] \in {"last", "free", "signal"} /\ pc'[r] \in {"free", "signal", "dec"}
    BY <1>0, <1>5 DEF LastReaderEmptiesList, LastReaderFrees, LastReaderSignals, Goto
  <2>2. Unfinished = {r} /\ done[Worker] = 0
    BY <2>1, LastIsAlone
  <2>3. \A s \in Readers : pc'[s] \notin {"copying", "exit"}
    <3>1. \A s \in Readers : pc[s] \in {"copying", "exit"} => s = r
      BY <2>2, InHandler
    <3> QED
      BY <1>1, <2>1, <3>1
  <2>4. ~Delivering'
    <3>1. CASE LastReaderSignals(r)
      BY <1>0, <2>2, <3>1 DEF LastReaderSignals, Complete, Delivering
    <3>2. CASE ~LastReaderSignals(r)
      <4>1. pc'[r] \in {"free", "signal"}
        BY <1>0, <1>5, <3>2 DEF LastReaderEmptiesList, LastReaderFrees, Goto
      <4> QED
        BY <4>1 DEF Delivering
    <3> QED
      BY <3>1, <3>2
  <2> QED
    BY <2>3, <2>4, NobodyServed
<1>6. CASE ReaderLeaves(r)
  <2>1. /\ pc[r] = "store" /\ pc'[r] = "idle"
        /\ UNCHANGED <<changes, vec, vecCount, done>>
        /\ \A s \in Readers \ {r} : want'[s] = want[s] /\ got'[s] = got[s] /\ rc'[s] = rc[s]
    BY <1>0, <1>6 DEF ReaderLeaves, Goto
  <2>2. Delivering' => Delivering
    BY <1>1, <2>1 DEF Delivering
  <2> QED
    BY <1>1, <2>1, <2>2 DEF DeliverInv, Delivered
<1>7. CASE \/ ReaderEnqueues(r) \/ ReaderEnqueueInterrupted(r) \/ ReaderWakes(r)
           \/ ReaderLocksExit(r) \/ ReaderExitInterrupted(r) \/ ReaderTests(r)
           \/ ReaderReadsCount(r)
  <2>1. /\ UNCHANGED <<changes, vec, vecCount, want, got, rc>>
        /\ pc[r] \notin {"last", "free", "signal"} /\ pc'[r] \notin {"copying", "exit"}
        /\ done' = done \/ ReaderWakes(r)
    BY <1>0, <1>7 DEF ReaderEnqueues, ReaderEnqueueInterrupted, ReaderWakes,
       ReaderLocksExit, ReaderExitInterrupted, ReaderTests, ReaderReadsCount, Goto
  <2>2. done'[Worker] = done[Worker]
    BY <1>0, <2>1 DEF ReaderWakes, Take
  <2>3. Delivering' => Delivering
    BY <1>1, <2>1, <2>2 DEF Delivering
  <2> QED
    BY <1>1, <2>1, <2>3 DEF DeliverInv, Delivered
<1> QED
  BY <1>2, <1>3, <1>4, <1>5, <1>6, <1>7 DEF ReaderStep

LEMMA DeliverStep ==
  ASSUME MaxFetch >= 1, ~AllocMayFail, OneThreadPerFile, GrantInv,
         TypeOK, TypeOK', RoundInv, RoundInv', ChangeInv, VectorInv, DeliverInv,
         [Next]_vars
  PROVE  DeliverInv'
<1> USE SchedulerAssumption, TableAssumption, FileOfType
<1>0. /\ DOMAIN pc = Threads /\ Worker \in Threads /\ Worker \in Sleepers
      /\ done \in [Sleepers -> Nat] /\ DOMAIN body = Vectors
      /\ \A t \in Readers \cup Writers : t # Worker
  BY DEF TypeOK, TableTypeOK, QueuesOK, PcOK, Threads, Sleepers
<1>1. CASE UNCHANGED vars
  BY <1>1 DEF vars, DeliverInv, Delivering, Delivered
<1>2. ASSUME NEW p \in Pollers, PollerLocks(p) \/ PollerStep(p) PROVE DeliverInv'
  BY <1>2, PollerLeavesAlone DEF DeliverInv, Delivering, Delivered
<1>3. ASSUME NEW w \in Writers, WriterEnqueues(w) \/ WriterStep(w) PROVE DeliverInv'
  <2>1. /\ UNCHANGED <<vectorVars, readerVars>> /\ \A r \in Readers : pc'[r] = pc[r]
        /\ pc'[Worker] = pc[Worker] \/ (pc[Worker] = "asleep" /\ pc'[Worker] = "check")
    BY <1>3, WriterLeavesAlone
  <2>2. CASE pc[Worker] \in {"grant", "withReaders"}
    <3>1. w \notin Granted
      BY <2>2, Stage
    <3>2. ~WriterUpdates(w) /\ ~WriterSignals(w)
      BY <3>1 DEF WriterUpdates, WriterSignals, Goto, Granted
    <3>3. /\ changes' = changes
          /\ done' = done \/ done' = [done EXCEPT ![FileOf[w]] = @ - 1]
      BY <1>3, <3>2 DEF WriterStep, WriterLockStep, WriterEnqueues, WriterWakesWorker,
         WriterGranted, WriterLocks, WriterLockInterrupted, WriterBegins, Take
    <3>4. done'[Worker] = done[Worker]
      BY <1>0, <3>3
    <3> QED
      BY <2>1, <2>2, <3>3, <3>4 DEF DeliverInv, Delivering, Delivered
  <2>3. CASE pc[Worker] \notin {"grant", "withReaders"}
    <3>1. \A r \in Readers : pc[r] \notin {"copying", "exit"}
      BY <2>3, Stage, InHandler
    <3>2. ~Delivering'
      BY <2>1, <2>3 DEF Delivering
    <3> QED
      BY <2>1, <3>1, <3>2, NobodyServed
  <2> QED
    BY <2>2, <2>3
<1>4. CASE WorkerStep
  <2>1. (\A r \in Readers : pc'[r] = pc[r]) /\ UNCHANGED readerVars
    BY <1>4, WorkerLeavesAlone
  <2>2. CASE WorkerFills
    <3>1. /\ pc[Worker] = "fill" /\ UNCHANGED <<changes, vec, done>>
          /\ vecCount' = Least(cnt, Len(changes))
          /\ body' = [body EXCEPT ![hold[Worker]] = SubSeq(changes, 1, Least(cnt, Len(changes)))]
      BY <2>2 DEF WorkerFills, FillVector, Goto
    <3>2. cnt = Len(changes) /\ hold[Worker] = vec /\ vec # Null /\ vec \in Vectors
      BY <3>1 DEF RoundInv, CountInv, VectorInv, TypeOK, TableTypeOK
    <3>3. vecCount' = Len(changes) /\ body'[vec] = changes
      <4>1. changes \in Seq(Updates)
        BY DEF TypeOK, TableTypeOK
      <4>2. /\ Least(cnt, Len(changes)) = Len(changes)
            /\ SubSeq(changes, 1, Least(cnt, Len(changes))) = changes
        BY <3>2, <4>1, WholeCopy
      <4> QED
        BY <1>0, <3>1, <3>2, <4>2
    <3>4. \A r \in Readers : pc[r] \notin {"copying", "exit"}
      BY <3>1, Stage, InHandler
    <3> QED
      BY <2>1, <3>1, <3>2, <3>3, <3>4 DEF DeliverInv, Delivered
  <2>3. CASE WorkerGrantsReader \/ WorkerAwaitsReaders \/ WorkerOops
    <3>1. /\ UNCHANGED <<changes, vec, vecCount, body>> /\ pc[Worker] = "grant"
      BY <2>3 DEF WorkerGrantsReader, WorkerAwaitsReaders, WorkerOops, Goto
    <3>2. done'[Worker] = done[Worker]
      <4>1. CASE WorkerGrantsReader
        <5>1. readerQ # <<>> /\ done' = [done EXCEPT ![Head(readerQ)] = @ + 1]
          BY <4>1 DEF WorkerGrantsReader, Complete
        <5>2. PICK s \in Readers : Head(readerQ) = FileOf[s]
          BY <5>1, TailProperties DEF GrantInv, QueueOwners, TypeOK, QueuesOK
        <5> QED
          BY <1>0, <5>1, <5>2
      <4>2. CASE WorkerAwaitsReaders \/ WorkerOops
        BY <4>2 DEF WorkerAwaitsReaders, WorkerOops
      <4> QED
        BY <2>3, <4>1, <4>2
    <3>3. Delivering' => Delivering
      BY <2>1, <3>1, <3>2 DEF Delivering
    <3> QED
      BY <2>1, <3>1, <3>3 DEF DeliverInv, Delivered
  <2>4. CASE \/ WorkerSleeps \/ WorkerGrantsWriter \/ WriterIsDone \/ WorkerCountsReaders
             \/ NoReaders \/ WorkerAllocates \/ ReadersAreDone
    <3>1. pc'[Worker] \notin {"grant", "withReaders"}
      BY <1>0, <2>4 DEF WorkerSleeps, WorkerGrantsWriter, WriterIsDone, WorkerCountsReaders,
         NoReaders, WorkerAllocates, ReadersAreDone, Goto
    <3>2. Unfinished' = {}
      BY <3>1 DEF TypeOK, PcOK, WorkerAt, RoundInv, QuietInv, WriterRound, WorkerAlive
    <3>3. \A r \in Readers : pc'[r] \notin {"copying", "exit"}
      BY <3>2 DEF Unfinished
    <3>4. ~Delivering'
      BY <3>1 DEF Delivering
    <3> QED
      BY <3>3, <3>4, NobodyServed
  <2>5. ~WorkerAllocFails
    BY DEF WorkerAllocFails
  <2> QED
    BY <1>4, <2>2, <2>3, <2>4, <2>5 DEF WorkerStep, WorkerServesReader
<1> QED
  BY <1>1, <1>2, <1>3, <1>4, ReaderDelivers DEF Next

(* Every reader let in returns the number of pending changes and finds     *)
(* them at their places in its buffer (rt_fops.c:432, 457-459), if memory  *)
(* does not run out: each whole as far as EntrySize bytes for each reach.  *)
THEOREM ReadersGetTheChange ==
    ~Preemptible /\ OneThreadPerFile /\ ~AllocMayFail /\ MaxFetch >= 1 => (Spec => []Delivered)
<1> SUFFICES ASSUME ~Preemptible, OneThreadPerFile, ~AllocMayFail, MaxFetch >= 1
             PROVE  Spec => []Delivered
  OBVIOUS
<1>1. Init => DeliverInv
  BY SchedulerAssumption DEF Init, DeliverInv, Delivering, Delivered, Threads
<1>2. /\ TypeOK /\ GrantInv /\ RoundInv /\ ChangeInv /\ VectorInv
      /\ (TypeOK /\ RoundInv)' /\ DeliverInv /\ [Next]_vars
      => DeliverInv'
  <2> SUFFICES ASSUME TypeOK, GrantInv, RoundInv, ChangeInv, VectorInv,
                      TypeOK', RoundInv', DeliverInv, [Next]_vars
               PROVE  DeliverInv'
    OBVIOUS
  <2> QED
    BY DeliverStep
<1>3. DeliverInv => Delivered
  BY DEF DeliverInv
<1> QED
  BY <1>1, <1>2, <1>3, ChangesAreRounds, VectorsAreRounds, PTL DEF Spec
=============================================================================
