----------------------------- MODULE TwoTables -----------------------------
(***************************************************************************)
(* Both tables under one select(), as in dr_test's poll_rt_mac_table: every*)
(* poller has /dev/rt and /dev/mac open, sleeps on both, and reads those   *)
(* that select() reports, RT first.  select() asks the files in the order  *)
(* of their descriptors, which is taken to be the same.  The MAC driver is *)
(* the RT driver with other names, so RT is PollReaders, and MAC an        *)
(* instance of it with its own state; they share the pollers and nothing   *)
(* else.                                                                   *)
(*                                                                         *)
(* A poller's two program counters say where select() is: both "woken" when*)
(* it starts a pass over the files, "asleep" or "ready" at a file it has   *)
(* passed, both "asleep" when it sleeps, and "ready" or "user" when it has *)
(* returned.                                                               *)
(***************************************************************************)
EXTENDS PollReaders

CONSTANTS MacWriters,     \* processes that write() to /dev/mac
          MacMaxWrites,   \* bound on the updates written to it
          MacEntrySize,   \* sizeof(struct mac_entry)
          MacUpdateSize   \* sizeof(struct mac_update_t)

ASSUME BothAssumption == /\ Pollers \cap MacWriters = {} /\ MacMaxWrites \in Nat
                         /\ MacEntrySize \in Nat \ {0} /\ MacUpdateSize \in Nat
                         /\ MacEntrySize <= MacUpdateSize

VARIABLES macTable, macChanges, macVec, macVecCount, macBody, macFreed, macHold,
          macCsSem, macSem, macPc, macPollList, macBlackList, macRegistered,
          macTriggered, macMissed, macRwReaders, macRwWriter, macWritten, macWant, macGot,
          macLast

rtRest == <<tableVars, listsOfFiles, rwVars, written, readVars>>
macRest == <<macTable, macChanges, macVec, macVecCount, macBody, macFreed,
             macHold, macCsSem, macSem, macPollList, macBlackList, macRwReaders,
             macRwWriter, macWritten, macWant, macGot, macLast>>
macWaitVars == <<macRegistered, macTriggered, macMissed>>
macVars == <<macRest, macPc, macWaitVars>>
bothVars == <<vars, macVars>>

Mac == INSTANCE PollReaders WITH
    Writers <- MacWriters, MaxWrites <- MacMaxWrites, Updates <- 1 .. MacMaxWrites,
    EntrySize <- MacEntrySize, UpdateSize <- MacUpdateSize,
    table <- macTable, changes <- macChanges, vec <- macVec,
    vecCount <- macVecCount, body <- macBody, freed <- macFreed,
    hold <- macHold, csSem <- macCsSem, rtSem <- macSem, pc <- macPc,
    pollList <- macPollList, blackList <- macBlackList,
    registered <- macRegistered, triggered <- macTriggered, missed <- macMissed,
    rwReaders <- macRwReaders, rwWriter <- macRwWriter, written <- macWritten,
    want <- macWant, got <- macGot, last <- macLast

BothInit == Init /\ Mac!Init
-----------------------------------------------------------------------------
(* select().                                                               *)

BothGoto(p, rtTo, macTo) == /\ pc' = [pc EXCEPT ![p] = rtTo]
                            /\ macPc' = [macPc EXCEPT ![p] = macTo]

SelectBegins(p) ==
    /\ pc[p] = "user" /\ macPc[p] = "user"
    /\ BothGoto(p, "woken", "woken")
    /\ UNCHANGED <<rtRest, macRest, waitVars, macWaitVars>>

(* One pass asks RT, then MAC, also when RT has data.  mac_poll then counts*)
(* the process among those that wait for an update, though it will not     *)
(* sleep.                                                                  *)
RtPolls(p) ==
    /\ macPc[p] = "woken"
    /\ \/ PollEnters(p) \/ PollReady(p) \/ PollJoins(p)
       \/ PollDenied(p) \/ PollRejoins(p) \/ PollSleeps(p)
    /\ UNCHANGED macVars

MacPolls(p) ==
    /\ pc[p] \in {"asleep", "ready"} /\ macPc[p] # "user"
    /\ \/ Mac!PollEnters(p) \/ Mac!PollReady(p) \/ Mac!PollJoins(p)
       \/ Mac!PollDenied(p) \/ Mac!PollRejoins(p) \/ Mac!PollSleeps(p)
    /\ UNCHANGED vars

(* Either wait queue wakes the process, and it asks both files again.      *)
SelectWakes(p) ==
    /\ pc[p] = "asleep" /\ macPc[p] = "asleep"
    /\ triggered[p] \/ macTriggered[p]
    /\ BothGoto(p, "woken", "woken")
    /\ triggered' = [triggered EXCEPT ![p] = FALSE]
    /\ macTriggered' = [macTriggered EXCEPT ![p] = FALSE]
    /\ UNCHANGED <<rtRest, macRest, registered, missed, macRegistered, macMissed>>

(* One file has data: the process leaves the wait queue of the other.      *)
SelectReturns(p) ==
    /\ {pc[p], macPc[p]} = {"asleep", "ready"}
    /\ BothGoto(p, IF pc[p] = "ready" THEN "ready" ELSE "user",
                   IF macPc[p] = "ready" THEN "ready" ELSE "user")
    /\ Deregister(p) /\ Mac!Deregister(p)
    /\ UNCHANGED <<rtRest, macRest>>

(* The loop reads RT before it looks whether MAC was reported.             *)
RtReads(p) == /\ macPc[p] \in {"user", "ready"}
              /\ ReadStep(p)
              /\ UNCHANGED macVars

MacReads(p) == /\ pc[p] = "user"
               /\ Mac!ReadStep(p)
               /\ UNCHANGED vars
-----------------------------------------------------------------------------
(* Updates.  Each table is written to at the pace of its own readers: all  *)
(* are counted and none has an update to read, but they may be busy with   *)
(* the other table, or in rt_poll of this one.                             *)
Settled(pending, counted) ==
    pending = <<>> /\ \A p \in Pollers : Contains(counted, p)

RtWrites(w) == /\ \/ WriteLocks(w) /\ Settled(changes, pollList)
                  \/ WriteStep(w)
               /\ UNCHANGED macVars

MacWrites(w) == /\ \/ Mac!WriteLocks(w) /\ Settled(macChanges, macPollList)
                   \/ Mac!WriteStep(w)
                /\ UNCHANGED vars
-----------------------------------------------------------------------------
PollerStep(p) == \/ SelectBegins(p) \/ RtPolls(p) \/ MacPolls(p)
                 \/ SelectWakes(p) \/ SelectReturns(p)
                 \/ RtReads(p) \/ MacReads(p)

BothNext == \/ \E p \in Pollers : PollerStep(p)
            \/ \E w \in Writers : RtWrites(w)
            \/ \E w \in MacWriters : MacWrites(w)

BothSpec == BothInit /\ [][BothNext]_bothVars

-----------------------------------------------------------------------------
(* Every poller finds each update of either table once and at its place,   *)
(* as far as the copy reaches (Holds), though it may be reading one table  *)
(* while the other is written to (dr_test.c:71-84).                        *)
EachUpdateOfBothOnce == EachUpdateOnce /\ Mac!EachUpdateOnce

(* What select() has reported is still there when read() is called, though *)
(* the other table is read first and other pollers read meanwhile          *)
(* (dr_test.c:69, 80): no reader takes itself for the last before.         *)
ReportedStays == \A p \in Pollers : /\ pc[p] = "ready" => changes # <<>>
                                    /\ macPc[p] = "ready" => macChanges # <<>>

(* No process sleeps with an update of either table it has not read, unless*)
(* its wake-up is under way or came too early, between that table's query  *)
(* and poll_wait: not even when the update came while it was reading the   *)
(* other table (rt_fops.c:146), or asking it.                              *)
SleepsInformed == \A p \in Pollers :
    pc[p] = "asleep" /\ macPc[p] = "asleep" =>
        \/ triggered[p] \/ macTriggered[p]
        \/ /\ \/ last[p] = written \/ p \in missed
              \/ \E w \in Writers : pc[w] = "wake"
           /\ \/ macLast[p] = macWritten \/ p \in macMissed
              \/ \E w \in MacWriters : macPc[w] = "wake"
=============================================================================
