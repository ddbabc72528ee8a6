---------------------------- MODULE PollReaders ----------------------------
(***************************************************************************)
(* The asynchronous access path of RT/rt_fops.c: processes that select()   *)
(* on the device and read() it (dr_test's poll_rt_mac_table), and writers  *)
(* that write() to it.  Each poller has its own open file, and stands for  *)
(* it in the two lists the driver keeps: the pollers an update is waiting  *)
(* for, and the black list of those that have read it.                     *)
(*                                                                         *)
(* select() calls rt_poll, sleeps if it answers 0, and calls it again when *)
(* it is woken; a wake-up between the two is remembered (triggered).       *)
(***************************************************************************)
EXTENDS RibTable, SequencesExt

CONSTANTS Pollers,      \* processes in the select-and-read loop
          Writers,      \* processes that call write()
          NonBlock,     \* pollers whose file has O_NONBLOCK
          Signalled,    \* pollers a signal may kill
          Paced,        \* whether writers wait until every poller sleeps
          Preemptible,  \* whether taking the snapshot can be interleaved
          AllocMayFail, \* whether kzalloc may fail
          MaxWrites     \* bound on the updates written

ASSUME PollAssumption ==
    /\ Pollers \cap Writers = {}
    /\ NonBlock \subseteq Pollers /\ Signalled \subseteq Pollers
    /\ MaxWrites \in Nat /\ Updates = 1 .. MaxWrites /\ Copiers = Pollers
    /\ Paced \in BOOLEAN /\ Preemptible \in BOOLEAN /\ AllocMayFail \in BOOLEAN

VARIABLES pc,
          pollList,     \* rt->poll_readers_list, newest first
          blackList,    \* black_listed_poll_readers_list, newest first
          registered,   \* whether a poller is on the wait queue rt->readerQ
          triggered,    \* whether it was woken since it went to sleep
          missed,       \* history: pollers a wake-up came too early for
          rwReaders,    \* pollers that hold rt->rw_sem
          rwWriter,     \* whether a writer holds it
          written,      \* the updates written so far
          want,         \* the size a poller read before it copied
          got,          \* what it copied
          last          \* the newest update it has received

listsOfFiles == <<pollList, blackList>>
waitVars == <<registered, triggered, missed>>
rwVars == <<rwReaders, rwWriter>>
readVars == <<want, got, last>>
vars == <<tableVars, pc, listsOfFiles, waitVars, rwVars, written, readVars>>

Init == /\ TableInit
        /\ pc = [t \in Pollers \cup Writers |->
                     IF t \in Pollers THEN "user" ELSE "idle"]
        /\ pollList = <<>> /\ blackList = <<>>
        /\ registered = [p \in Pollers |-> FALSE]
        /\ triggered = [p \in Pollers |-> FALSE]
        /\ missed = {}
        /\ rwReaders = {} /\ rwWriter = FALSE
        /\ written = 0
        /\ want = [p \in Pollers |-> 0]
        /\ got = [p \in Pollers |-> <<>>]
        /\ last = [p \in Pollers |-> 0]
-----------------------------------------------------------------------------
(* Between kzalloc and the release of the semaphore nothing sleeps.        *)
Snapshot == {"fill", "clamp"}

MayRun(t) == Preemptible \/ \A p \in Pollers \ {t} : pc[p] \notin Snapshot

Goto(t, from, to) == /\ pc[t] = from /\ MayRun(t)
                     /\ pc' = [pc EXCEPT ![t] = to]

down == csSem > 0 /\ csSem' = csSem - 1
up == csSem' = csSem + 1

(* mutex_is_rt_updated.  Its semaphore is taken under csSem only.          *)
Updated == changes # <<>>

(* poll_freewait, when select() returns.                                   *)
Deregister(p) == /\ registered' = [registered EXCEPT ![p] = FALSE]
                 /\ triggered' = [triggered EXCEPT ![p] = FALSE]
                 /\ UNCHANGED missed
-----------------------------------------------------------------------------
(* rt_poll, called first by select() and then after every wake-up.         *)
PollEnters(p) ==
    /\ Goto(p, "user", "query") \/ Goto(p, "woken", "query")
    /\ down
    /\ missed' = missed \ {p}
    /\ UNCHANGED <<listVars, vectorVars, rtSem, listsOfFiles, registered,
                   triggered, rwVars, written, readVars>>

(* Data, or the -EAGAIN of a non-blocking file, whose bits include POLLIN: *)
(* select() returns.                                                       *)
PollReady(p) ==
    /\ Goto(p, "query", "ready")
    /\ ~Contains(blackList, p)
    /\ Updated \/ p \in NonBlock
    /\ up
    /\ Deregister(p)
    /\ UNCHANGED <<listVars, vectorVars, rtSem, listsOfFiles, rwVars, written,
                   readVars>>

(* Fault: the file is added whether or not it is in the list.              *)
add_rt_table_poll_reader(p) ==
    pollList' = <<p>> \o pollList

add_rt_table_unique_poll_reader(p) ==
    pollList' = IF Contains(pollList, p) THEN pollList ELSE <<p>> \o pollList

PollJoins(p) ==
    /\ Goto(p, "query", "register")
    /\ ~Contains(blackList, p) /\ ~Updated /\ p \notin NonBlock
    /\ add_rt_table_unique_poll_reader(p)
    /\ UNCHANGED <<tableVars, blackList, waitVars, rwVars, written, readVars>>

(* Black-listed, and there is an update: it must be the one already read.  *)
PollDenied(p) ==
    /\ Goto(p, "query", "register")
    /\ Contains(blackList, p) /\ Updated
    /\ UNCHANGED <<tableVars, listsOfFiles, waitVars, rwVars, written, readVars>>

(* Fault: the black list is moved whatever the other list holds.           *)
PollRejoinsAnyway(p) ==
    /\ Goto(p, "query", "register")
    /\ Contains(blackList, p) /\ ~Updated
    /\ pollList' = blackList
    /\ blackList' = <<>>
    /\ UNCHANGED <<tableVars, waitVars, rwVars, written, readVars>>

(* Black-listed, and the update is gone: if nobody waits for an update the *)
(* whole black list becomes the list of pollers.                           *)
PollRejoins(p) ==
    /\ Goto(p, "query", "register")
    /\ Contains(blackList, p) /\ ~Updated
    /\ IF pollList = <<>> THEN pollList' = blackList /\ blackList' = <<>>
                          ELSE UNCHANGED listsOfFiles
    /\ UNCHANGED <<tableVars, waitVars, rwVars, written, readVars>>

(* poll_wait, then the semaphore is released and select() sleeps.          *)
PollSleeps(p) ==
    /\ Goto(p, "register", "asleep")
    /\ registered' = [registered EXCEPT ![p] = TRUE]
    /\ up
    /\ UNCHANGED <<listVars, vectorVars, rtSem, listsOfFiles, triggered, missed,
                   rwVars, written, readVars>>

Wakes(p) ==
    /\ Goto(p, "asleep", "woken")
    /\ triggered[p]
    /\ triggered' = [triggered EXCEPT ![p] = FALSE]
    /\ UNCHANGED <<tableVars, listsOfFiles, registered, missed, rwVars, written,
                   readVars>>

(* A signal ends the process outside rt_read: rt_release leaves the lists. *)
Killed(p) ==
    /\ p \in Signalled
    /\ \E at \in {"user", "asleep", "woken", "ready"} : Goto(p, at, "gone")
    /\ Deregister(p)
    /\ UNCHANGED <<tableVars, listsOfFiles, rwVars, written, readVars>>
-----------------------------------------------------------------------------
(* rt_read, called when select() has answered that there is data.          *)
ReadEnters(p) ==
    /\ Goto(p, "ready", "first")
    /\ ~rwWriter
    /\ rwReaders' = rwReaders \cup {p}
    /\ UNCHANGED <<tableVars, listsOfFiles, waitVars, rwWriter, written, readVars>>

(* While nobody is black-listed a reader takes itself for the first, and   *)
(* makes the snapshot.                                                     *)
FirstReads(p) ==
    /\ Goto(p, "first", "snapshot")
    /\ blackList = <<>>
    /\ down
    /\ UNCHANGED <<listVars, vectorVars, rtSem, listsOfFiles, waitVars, rwVars,
                   written, readVars>>

(* Fault: the semaphore is released twice.                                 *)
NextReadsReleasesTwice(p) ==
    /\ Goto(p, "first", "copy")
    /\ blackList # <<>> /\ csSem > 0
    /\ up
    /\ UNCHANGED <<listVars, vectorVars, rtSem, listsOfFiles, waitVars, rwVars,
                   written, readVars>>

NextReads(p) ==
    /\ Goto(p, "first", "copy")
    /\ blackList # <<>> /\ csSem > 0
    /\ UNCHANGED <<tableVars, listsOfFiles, waitVars, rwVars, written, readVars>>

ReadAllocates(p) ==
    /\ Goto(p, "snapshot", "fill")
    /\ AllocateVector(p)
    /\ UNCHANGED <<listVars, vecCount, semVars, listsOfFiles, waitVars, rwVars,
                   written, readVars>>

ReadAllocFails(p) ==
    /\ Goto(p, "snapshot", "clamp")
    /\ AllocMayFail
    /\ NoVector
    /\ UNCHANGED <<listVars, body, freed, hold, semVars, listsOfFiles, waitVars,
                   rwVars, written, readVars>>

ReadFills(p) ==
    /\ Goto(p, "fill", "clamp")
    /\ FillVector(p, Len(changes))
    /\ UNCHANGED <<listVars, vec, freed, semVars, listsOfFiles, waitVars, rwVars,
                   written, readVars>>

ReadClamps(p) ==
    /\ Goto(p, "clamp", "copy")
    /\ vecCount' = Least(vecCount, MaxFetch)
    /\ up
    /\ UNCHANGED <<listVars, vec, body, freed, hold, rtSem, listsOfFiles,
                   waitVars, rwVars, written, readVars>>

(* The arguments of copy_to_user are read, then it may sleep on a fault.   *)
ReadCopies(p) ==
    /\ Goto(p, "copy", "copying")
    /\ hold' = [hold EXCEPT ![p] = vec]
    /\ want' = [want EXCEPT ![p] = vecCount]
    /\ UNCHANGED <<listVars, vec, vecCount, body, freed, semVars, listsOfFiles,
                   waitVars, rwVars, written, got, last>>

ReadCopied(p) ==
    /\ Goto(p, "copying", "exit")
    /\ got' = [got EXCEPT ![p] = Copied(p, want[p])]
    /\ hold' = [hold EXCEPT ![p] = Null]
    /\ want' = [want EXCEPT ![p] = 0]
    /\ UNCHANGED <<listVars, vec, vecCount, body, freed, semVars, listsOfFiles,
                   waitVars, rwVars, written, last>>

(* Faults: the last reader but one takes itself for the last, or the test  *)
(* expects that the reader has left the list.                              *)
IsLastReaderEarly == Len(pollList) <= 2
IsLastReaderLate == Len(pollList) = 0

(* The only file left in the list is taken to be the reader's own.         *)
IsLastReader == Len(pollList) = 1

(* The last reader empties the change list and frees the vector; every     *)
(* reader leaves the list of pollers, if it was there, for the black list. *)
(* All of it under the semaphore.                                          *)
ReadLeaves(p) ==
    /\ Goto(p, "exit", "user")
    /\ csSem > 0
    /\ IF IsLastReader
       THEN rt_empty_change_list /\ vecCount' = 0 /\ FreeVectorOnly
       ELSE UNCHANGED <<listVars, vec, vecCount, freed>>
    /\ pollList' = RemoveFirst(pollList, p)
    /\ blackList' = <<p>> \o blackList
    /\ rwReaders' = rwReaders \ {p}
    /\ last' = [last EXCEPT ![p] = IF got[p] = <<>> THEN @ ELSE got[p][1].update]
    /\ got' = [got EXCEPT ![p] = <<>>]
    /\ UNCHANGED <<body, hold, semVars, waitVars, rwWriter, written, want>>

(* SEM_LOCK returns -ERESTARTSYS, and rt->rw_sem stays held.               *)
KilledInRead(p) ==
    /\ p \in Signalled /\ csSem = 0
    /\ Goto(p, "first", "gone") \/ Goto(p, "exit", "gone")
    /\ UNCHANGED <<tableVars, listsOfFiles, waitVars, rwVars, written, readVars>>
-----------------------------------------------------------------------------
(* rt_write.                                                               *)

(* Every poller sleeps in select() and is waiting for an update.           *)
Quiet == \A p \in Pollers : /\ pc[p] = "asleep" /\ ~triggered[p]
                            /\ Contains(pollList, p)

WriteLocks(w) ==
    /\ Goto(w, "idle", "apply")
    /\ written < MaxWrites
    /\ Paced => Quiet
    /\ ~rwWriter /\ rwReaders = {}
    /\ rwWriter' = TRUE
    /\ UNCHANGED <<tableVars, listsOfFiles, waitVars, rwReaders, written, readVars>>

WriteApplies(w) ==
    /\ Goto(w, "apply", "wake")
    /\ add_rt_table_entry_by_val(written + 1)
    /\ written' = written + 1
    /\ rwWriter' = FALSE
    /\ UNCHANGED <<vectorVars, semVars, listsOfFiles, waitVars, rwReaders, readVars>>

(* The other op codes change nothing, but wake the pollers all the same.   *)
WriteIgnores(w) ==
    /\ Goto(w, "apply", "wake")
    /\ rwWriter' = FALSE
    /\ UNCHANGED <<tableVars, listsOfFiles, waitVars, rwReaders, written, readVars>>

(* Fault: nobody is woken.                                                 *)
WriteWakesNobody(w) ==
    /\ Goto(w, "wake", "idle")
    /\ UNCHANGED <<tableVars, listsOfFiles, waitVars, rwVars, written, readVars>>

(* Those on the wait queue are woken.  Who has asked and is not there yet, *)
(* between rt_poll's look at the change list and poll_wait, misses it.     *)
WriteWakes(w) ==
    /\ Goto(w, "wake", "idle")
    /\ triggered' = [p \in Pollers |-> triggered[p] \/ registered[p]]
    /\ missed' = missed \cup {p \in Pollers : pc[p] = "register" /\ ~registered[p]}
    /\ UNCHANGED <<tableVars, listsOfFiles, registered, rwVars, written, readVars>>
-----------------------------------------------------------------------------
PollStep(p) == \/ PollReady(p) \/ PollJoins(p) \/ PollDenied(p) \/ PollRejoins(p)
               \/ PollSleeps(p) \/ Wakes(p)
EntersRead(p) == FirstReads(p) \/ NextReads(p)
ReadStep(p) == \/ ReadEnters(p) \/ EntersRead(p) \/ ReadAllocates(p)
               \/ ReadAllocFails(p) \/ ReadFills(p) \/ ReadClamps(p)
               \/ ReadCopies(p) \/ ReadCopied(p) \/ ReadLeaves(p)
WriteStep(w) == WriteApplies(w) \/ WriteIgnores(w) \/ WriteWakes(w)

Next == \/ \E p \in Pollers : \/ PollEnters(p) \/ PollStep(p) \/ ReadStep(p)
                              \/ Killed(p) \/ KilledInRead(p)
        \/ \E w \in Writers : WriteLocks(w) \/ WriteStep(w)

Spec == Init /\ [][Next]_vars

(* The pollers never leave their loop, the kernel runs who can run, and    *)
(* its semaphores are first come, first served.  Nobody has to write, but a*)
(* writer in the call gets on with it.                                     *)
Fairness ==
    /\ \A p \in Pollers :
        /\ WF_vars(PollEnters(p) \/ PollStep(p) \/ ReadStep(p))
        /\ SF_vars(PollEnters(p)) /\ SF_vars(ReadEnters(p))
        /\ SF_vars(EntersRead(p)) /\ SF_vars(ReadLeaves(p))
    /\ \A w \in Writers : WF_vars(WriteStep(w))

FairSpec == Spec /\ Fairness
-----------------------------------------------------------------------------
InRead == {"first", "snapshot", "fill", "clamp", "copy", "copying", "exit"}
PollerAt == {"user", "query", "register", "asleep", "woken", "ready", "gone"}
                \cup InRead

(* Each process stays in its own handler, and the two semaphores are never *)
(* released more often than taken.                                         *)
TypeOK == /\ TableTypeOK
          /\ csSem \in {0, 1} /\ rtSem = 1
          /\ DOMAIN pc = Pollers \cup Writers
          /\ \A p \in Pollers : pc[p] \in PollerAt
          /\ \A w \in Writers : pc[w] \in {"idle", "apply", "wake"}
          /\ pollList \in Seq(Pollers) /\ blackList \in Seq(Pollers)
          /\ registered \in [Pollers -> BOOLEAN]
          /\ triggered \in [Pollers -> BOOLEAN]
          /\ missed \subseteq Pollers
          /\ rwReaders \subseteq Pollers /\ rwWriter \in BOOLEAN
          /\ written \in 0 .. MaxWrites
          /\ want \in [Pollers -> Nat]
          /\ got \in [Pollers -> Seq(Pieces)]
          /\ last \in [Pollers -> 0 .. MaxWrites]

(* A file is counted once: no file is twice in a list or in both.          *)
(* RT_GET_POLL_READER_COUNT (rt_fops.c:98, 550) is compared with 1 and 0.  *)
CountedOnce == /\ IsInjective(pollList) /\ IsInjective(blackList)
               /\ ToSet(pollList) \cap ToSet(blackList) = {}

(* A process that sleeps in select() is in one of the lists and will be    *)
(* woken by the next write: no move between the lists loses it.            *)
SleepersKnown == \A p \in Pollers :
    pc[p] = "asleep" => /\ registered[p]
                        /\ Contains(pollList \o blackList, p)

(* A poller that sleeps beside an update it is not refused has been woken, *)
(* or is about to be, or missed a wake-up between rt_poll's look at the    *)
(* change list and poll_wait (rt_fops.c:514, 529), before it was on the    *)
(* wait queue: no other wake-up is lost (rt_fops.c:146), whatever moves    *)
(* between the lists.                                                      *)
OnlyEarlyWakeLost == \A p \in Pollers :
    pc[p] = "asleep" /\ ~Contains(blackList, p) /\ Updated =>
        \/ triggered[p] \/ p \in missed
        \/ \E w \in Writers : pc[w] = "wake"

(* A reader copies nothing out of a vector that has been freed.            *)
CopiesLive == \A p \in Pollers : want[p] > 0 => hold[p] \notin freed

(* A reader that is about to free the vector, as the last, finds it live:  *)
(* rt_read leaves the pointer to a freed vector (rt_fops.c:104), and no    *)
(* second reader takes itself for the last before the next snapshot.       *)
FreedOnce == \A p \in Pollers :
    pc[p] = "exit" /\ csSem > 0 /\ IsLastReader => vec \notin freed

(* Every reader finds in its buffer the updates that follow the last one it*)
(* has received, up to the newest written, each once and at its place,     *)
(* whole as far as EntrySize bytes for each reach (rt_fops.c:81, 92).      *)
EachUpdateOnce == \A p \in Pollers :
    pc[p] = "exit" => Holds(got[p], [i \in 1 .. written - last[p] |-> written + 1 - i])

(* Only the black-listed who have it are refused: the list is of "poll     *)
(* readers who attempt to read the same  update again" (rt_fops.c:31).     *)
RefusesOnlyTheSame ==
    [][\A p \in Pollers : PollDenied(p) => last[p] >= changes[1]]_vars

(* A poller that sleeps while there is an update it has not received will  *)
(* be told, "poll fn is called again" (rt_fops.c:146), and reads it.       *)
UpdateReaches == \A p \in Pollers, u \in Updates :
    pc[p] = "asleep" /\ written >= u ~> last[p] >= u

(* After an update every poller waits for the next one.                    *)
QuietAgain == written > 0 ~> Quiet
=============================================================================
