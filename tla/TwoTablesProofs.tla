-------------------------- MODULE TwoTablesProofs --------------------------
(***************************************************************************)
(* Both tables, with any number of pollers, and of writers of either.  Each*)
(* table by itself behaves as one file of several does in PollReadersProofs*)
(* (FileSpec), so that what is proved there of one file holds of RT, and,  *)
(* through an instance of those proofs, of MAC.                            *)
(***************************************************************************)
EXTENDS TwoTables, PollReadersProofs

USE DEF listVars, vectorVars, semVars, tableVars, listsOfFiles, waitVars, rwVars,
        readVars

MacP == INSTANCE PollReadersProofs WITH
    Writers <- MacWriters, MaxWrites <- MacMaxWrites, Updates <- 1 .. MacMaxWrites,
    EntrySize <- MacEntrySize, UpdateSize <- MacUpdateSize,
    table <- macTable, changes <- macChanges, vec <- macVec,
    vecCount <- macVecCount, body <- macBody, freed <- macFreed,
    hold <- macHold, csSem <- macCsSem, rtSem <- macSem, pc <- macPc,
    pollList <- macPollList, blackList <- macBlackList,
    registered <- macRegistered, triggered <- macTriggered, missed <- macMissed,
    rwReaders <- macRwReaders, rwWriter <- macRwWriter, written <- macWritten,
    want <- macWant, got <- macGot, last <- macLast

LEMMA MacAssumptions == MacP!PollAssumption /\ MacP!TableAssumption
BY PollAssumption, TableAssumption, BothAssumption

(* RT is one file of the two.                                              *)
LEMMA RtStep ==
  ASSUME [BothNext]_bothVars
  PROVE  [FileNext]_vars
<1>1. ASSUME NEW p \in Pollers, PollerStep(p) PROVE [FileNext]_vars
  <2>1. CASE SelectBegins(p) \/ SelectWakes(p) \/ SelectReturns(p)
    <3>1. /\ \E from \in {"user", "asleep", "ready"}, to \in {"user", "woken", "ready"} :
                /\ pc[p] = from /\ pc' = [pc EXCEPT ![p] = to]
                /\ to = "ready" => from = "ready"
          /\ UNCHANGED <<rtRest, missed>>
      BY <2>1 DEF SelectBegins, SelectWakes, SelectReturns, BothGoto, Deregister
    <3>2. /\ registered' \in {registered, [registered EXCEPT ![p] = FALSE]}
          /\ triggered' \in {triggered, [triggered EXCEPT ![p] = FALSE]}
      BY <2>1 DEF SelectBegins, SelectWakes, SelectReturns, Deregister
    <3> QED
      BY <3>1, <3>2 DEF SelectMoves, rtRest, FilePolled, FileNext
  <2>2. CASE RtPolls(p) \/ RtReads(p)
    BY <2>2 DEF RtPolls, RtReads, PollStep, FilePolled, FileNext
  <2>3. CASE MacPolls(p) \/ MacReads(p)
    BY <2>3 DEF MacPolls, MacReads
  <2> QED
    BY <1>1, <2>1, <2>2, <2>3 DEF PollerStep
<1>2. ASSUME NEW w \in Writers, RtWrites(w) PROVE [FileNext]_vars
  BY <1>2 DEF RtWrites, Settled, Counted, FileWritten, FileNext
<1>3. ASSUME NEW w \in MacWriters, MacWrites(w) PROVE [FileNext]_vars
  BY <1>3 DEF MacWrites
<1>4. CASE UNCHANGED bothVars
  BY <1>4 DEF bothVars
<1> QED
  BY <1>1, <1>2, <1>3, <1>4 DEF BothNext

LEMMA RtIsAFile == BothSpec => FileSpec
<1>1. BothInit => Init
  BY DEF BothInit
<1> QED
  BY <1>1, RtStep, PTL DEF BothSpec, FileSpec
-----------------------------------------------------------------------------
(* MAC is the other: TwoTables takes the handlers from PollReaders, and    *)
(* the proofs from an instance of theirs; both mean the same.              *)
LEMMA SamePolls ==
  ASSUME NEW p \in Pollers
  PROVE  /\ Mac!PollEnters(p) => MacP!PollEnters(p)
         /\ Mac!PollReady(p) => MacP!PollReady(p)
         /\ Mac!PollJoins(p) => MacP!PollJoins(p)
         /\ Mac!PollDenied(p) => MacP!PollDenied(p)
         /\ Mac!PollRejoins(p) => MacP!PollRejoins(p)
         /\ Mac!PollSleeps(p) => MacP!PollSleeps(p)
BY DEF Mac!PollEnters, MacP!PollEnters, Mac!PollReady, MacP!PollReady,
         Mac!PollJoins, MacP!PollJoins, Mac!PollDenied, MacP!PollDenied,
         Mac!PollRejoins, MacP!PollRejoins, Mac!PollSleeps,
         MacP!PollSleeps, Mac!Goto, MacP!Goto, Mac!MayRun, MacP!MayRun,
         Mac!Snapshot, MacP!Snapshot, Mac!down, MacP!down, Mac!up,
         MacP!up, Mac!Updated, MacP!Updated, Mac!Deregister,
         MacP!Deregister, Mac!add_rt_table_unique_poll_reader,
         MacP!add_rt_table_unique_poll_reader, Mac!Contains,
         MacP!Contains, Mac!listVars, MacP!listVars, Mac!vectorVars,
         MacP!vectorVars, Mac!semVars, MacP!semVars, Mac!tableVars,
         MacP!tableVars, Mac!listsOfFiles, MacP!listsOfFiles,
         Mac!waitVars, MacP!waitVars, Mac!rwVars, MacP!rwVars,
         Mac!readVars, MacP!readVars

LEMMA SameReads ==
  ASSUME NEW p \in Pollers
  PROVE  Mac!ReadStep(p) => MacP!ReadStep(p)
BY DEF Mac!ReadStep, MacP!ReadStep, Mac!EntersRead, MacP!EntersRead,
         Mac!ReadEnters, MacP!ReadEnters, Mac!FirstReads,
         MacP!FirstReads, Mac!NextReads, MacP!NextReads,
         Mac!ReadAllocates, MacP!ReadAllocates, Mac!ReadAllocFails,
         MacP!ReadAllocFails, Mac!ReadFills, MacP!ReadFills,
         Mac!ReadClamps, MacP!ReadClamps, Mac!ReadCopies,
         MacP!ReadCopies, Mac!ReadCopied, MacP!ReadCopied,
         Mac!ReadLeaves, MacP!ReadLeaves, Mac!AllocateVector,
         MacP!AllocateVector, Mac!Available, MacP!Available,
         Mac!NoVector, MacP!NoVector, Mac!FillVector, MacP!FillVector,
         Mac!Least, MacP!Least, Mac!Copied, MacP!Copied,
         Mac!Arrives, MacP!Arrives,
         Mac!FreeVectorOnly, MacP!FreeVectorOnly,
         Mac!rt_empty_change_list, MacP!rt_empty_change_list,
         Mac!RemoveFirst, MacP!RemoveFirst, Mac!SelectInSeq,
         MacP!SelectInSeq, Mac!Min, MacP!Min, Mac!RemoveAt,
         MacP!RemoveAt, Mac!IsLastReader, MacP!IsLastReader, Mac!Goto,
         MacP!Goto, Mac!MayRun, MacP!MayRun, Mac!Snapshot,
         MacP!Snapshot, Mac!down, MacP!down, Mac!up, MacP!up,
         Mac!listVars, MacP!listVars, Mac!vectorVars, MacP!vectorVars,
         Mac!semVars, MacP!semVars, Mac!tableVars, MacP!tableVars,
         Mac!listsOfFiles, MacP!listsOfFiles, Mac!waitVars,
         MacP!waitVars, Mac!rwVars, MacP!rwVars, Mac!readVars,
         MacP!readVars

LEMMA SameWrites ==
  ASSUME NEW w \in MacWriters
  PROVE  /\ Mac!WriteLocks(w) => MacP!WriteLocks(w)
         /\ Mac!WriteStep(w) => MacP!WriteStep(w)
BY DEF Mac!WriteLocks, MacP!WriteLocks, Mac!WriteStep, MacP!WriteStep,
         Mac!WriteApplies, MacP!WriteApplies, Mac!WriteIgnores,
         MacP!WriteIgnores, Mac!WriteWakes, MacP!WriteWakes,
         Mac!add_rt_table_entry_by_val, MacP!add_rt_table_entry_by_val,
         Mac!Quiet, MacP!Quiet, Mac!Contains, MacP!Contains, Mac!Goto,
         MacP!Goto, Mac!MayRun, MacP!MayRun, Mac!Snapshot,
         MacP!Snapshot, Mac!listVars, MacP!listVars, Mac!vectorVars,
         MacP!vectorVars, Mac!semVars, MacP!semVars, Mac!tableVars,
         MacP!tableVars, Mac!listsOfFiles, MacP!listsOfFiles,
         Mac!waitVars, MacP!waitVars, Mac!rwVars, MacP!rwVars,
         Mac!readVars, MacP!readVars

LEMMA MacStep ==
  ASSUME [BothNext]_bothVars
  PROVE  [MacP!FileNext]_(MacP!vars)
<1> USE DEF MacP!vars, MacP!tableVars, MacP!listVars, MacP!vectorVars, MacP!semVars,
            MacP!listsOfFiles, MacP!waitVars, MacP!rwVars, MacP!readVars
<1>1. ASSUME NEW p \in Pollers, PollerStep(p) PROVE [MacP!FileNext]_(MacP!vars)
  <2>1. CASE SelectBegins(p) \/ SelectWakes(p) \/ SelectReturns(p)
    <3>1. /\ \E from \in {"user", "asleep", "ready"}, to \in {"user", "woken", "ready"} :
                /\ macPc[p] = from /\ macPc' = [macPc EXCEPT ![p] = to]
                /\ to = "ready" => from = "ready"
          /\ UNCHANGED <<macRest, macMissed>>
      BY <2>1 DEF SelectBegins, SelectWakes, SelectReturns, BothGoto, Mac!Deregister, macWaitVars
    <3>2. /\ macRegistered' \in {macRegistered, [macRegistered EXCEPT ![p] = FALSE]}
          /\ macTriggered' \in {macTriggered, [macTriggered EXCEPT ![p] = FALSE]}
      BY <2>1 DEF SelectBegins, SelectWakes, SelectReturns, Mac!Deregister, macWaitVars
    <3>3. MacP!SelectMoves(p)
      BY <3>1, <3>2 DEF MacP!SelectMoves, macRest
    <3> QED
      BY <3>3 DEF MacP!FilePolled, MacP!FileNext
  <2>2. CASE MacPolls(p) \/ MacReads(p)
    <3>1. MacP!FilePolled(p)
      BY <2>2, SamePolls, SameReads DEF MacPolls, MacReads, MacP!PollStep, MacP!FilePolled
    <3> QED
      BY <3>1 DEF MacP!FileNext
  <2>3. CASE RtPolls(p) \/ RtReads(p)
    BY <2>3 DEF RtPolls, RtReads, macVars, macRest, macWaitVars
  <2> QED
    BY <1>1, <2>1, <2>2, <2>3 DEF PollerStep
<1>2. ASSUME NEW w \in MacWriters, MacWrites(w) PROVE [MacP!FileNext]_(MacP!vars)
  <2>1. Settled(macChanges, macPollList) => MacP!Counted
    BY DEF Settled, MacP!Counted, Contains, MacP!Contains
  <2>2. MacP!FileWritten(w)
    BY <1>2, <2>1, SameWrites DEF MacWrites, MacP!FileWritten
  <2> QED
    BY <2>2 DEF MacP!FileNext
<1>3. ASSUME NEW w \in Writers, RtWrites(w) PROVE [MacP!FileNext]_(MacP!vars)
  BY <1>3 DEF RtWrites, macVars, macRest, macWaitVars
<1>4. CASE UNCHANGED bothVars
  BY <1>4 DEF bothVars, macVars, macRest, macWaitVars
<1> QED
  BY <1>1, <1>2, <1>3, <1>4 DEF BothNext

LEMMA MacIsAFile == BothSpec => MacP!FileSpec
<1>1. BothInit => MacP!Init
  BY DEF BothInit, Mac!Init, MacP!Init, Mac!TableInit, MacP!TableInit
<1> QED
  BY <1>1, MacStep, PTL DEF BothSpec, MacP!FileSpec
-----------------------------------------------------------------------------
(* Both files keep their invariants.                                       *)
FilesInv == /\ TypeInv /\ PacedInv /\ LiveInv /\ AwakeInv
            /\ MacP!TypeInv /\ MacP!PacedInv /\ MacP!LiveInv /\ MacP!AwakeInv

LEMMA FilesInvariance == NonBlock = {} => (BothSpec => []FilesInv)
<1> SUFFICES ASSUME NonBlock = {} PROVE BothSpec => []FilesInv
  OBVIOUS
<1>1. FileSpec => []TypeInv /\ [](PacedInv /\ LiveInv /\ AwakeInv)
  BY FileTyping, FileReaders, PTL
<1>2. MacP!FileSpec => []MacP!TypeInv
  BY MacAssumptions, MacP!FileTyping
<1>3. MacP!FileSpec => [](MacP!PacedInv /\ MacP!LiveInv /\ MacP!AwakeInv)
  BY MacAssumptions, MacP!FileReaders
<1>4. TypeInv /\ (PacedInv /\ LiveInv /\ AwakeInv) /\ MacP!TypeInv
        /\ (MacP!PacedInv /\ MacP!LiveInv /\ MacP!AwakeInv) => FilesInv
  BY DEF FilesInv
<1> QED
  BY RtIsAFile, MacIsAFile, <1>1, <1>2, <1>3, <1>4, PTL

(* What select() has reported is still there when read() is called, though *)
(* the other table is read first and other pollers read meanwhile          *)
(* (dr_test.c:69, 80), with any number of pollers, and writers of either.  *)
THEOREM ReportsHold == NonBlock = {} => (BothSpec => []ReportedStays)
<1> SUFFICES ASSUME NonBlock = {} PROVE BothSpec => []ReportedStays
  OBVIOUS
<1>1. FilesInv => ReportedStays
  BY DEF FilesInv, PacedInv, MacP!PacedInv, ReportedStays
<1> QED
  BY FilesInvariance, <1>1, PTL

BothSound == /\ CountedOnce /\ SleepersKnown /\ CopiesLive
             /\ Mac!CountedOnce /\ Mac!SleepersKnown /\ Mac!CopiesLive

(* Neither table's pollers are counted twice or lost between its lists     *)
(* (rt_fops.c:93-118, 540-557, and mac_fops.c alike), and no poller copies *)
(* out of a vector that has been freed (rt_fops.c:92, 104), while pollers  *)
(* of one table are away reading the other.                                *)
THEOREM EachTableSound == NonBlock = {} => (BothSpec => []BothSound)
<1> SUFFICES ASSUME NonBlock = {} PROVE BothSpec => []BothSound
  OBVIOUS
<1>1. FilesInv => CountedOnce /\ SleepersKnown /\ CopiesLive
  BY ListsCount, LiveCopies DEF FilesInv, TypeInv
<1>2. FilesInv => MacP!CountedOnce /\ MacP!SleepersKnown /\ MacP!CopiesLive
  BY MacAssumptions, MacP!ListsCount, MacP!LiveCopies DEF FilesInv, MacP!TypeInv
<1>3. /\ MacP!CountedOnce => Mac!CountedOnce
      /\ MacP!SleepersKnown => Mac!SleepersKnown
      /\ MacP!CopiesLive => Mac!CopiesLive
  BY DEF MacP!CountedOnce, Mac!CountedOnce, MacP!SleepersKnown, Mac!SleepersKnown,
     MacP!CopiesLive, Mac!CopiesLive, MacP!IsInjective, Mac!IsInjective,
     MacP!ToSet, Mac!ToSet, MacP!Contains, Mac!Contains
<1>4. FilesInv => BothSound
  BY <1>1, <1>2, <1>3 DEF BothSound
<1> QED
  BY FilesInvariance, <1>4, PTL
-----------------------------------------------------------------------------
(* What is pending of either table fits a read of it.                      *)
BothFitMode == FitMode /\ MacMaxWrites <= MaxFetch

LEMMA BothFit ==
  NonBlock = {} /\ BothFitMode => (BothSpec => [](FitInv /\ MacP!FitInv))
<1> SUFFICES ASSUME NonBlock = {}, BothFitMode
             PROVE  BothSpec => [](FitInv /\ MacP!FitInv)
  OBVIOUS
<1>1. FileSpec => []FitInv
  BY FilesFit DEF BothFitMode
<1>2. MacP!FileSpec => []MacP!FitInv
  BY MacAssumptions, MacP!FilesFit DEF BothFitMode, FitMode, MacP!FitMode
<1> QED
  BY RtIsAFile, MacIsAFile, <1>1, <1>2, PTL

(* Every poller gets each update of either table once and at its place, as *)
(* far as the copy reaches, though it may be reading one table while the   *)
(* other is written to (dr_test.c:71-84), with any number of pollers and   *)
(* writers, if updates fit a read and the snapshot is neither interrupted  *)
(* nor fails.                                                              *)
THEOREM UpdatesOfBoth ==
  NonBlock = {} /\ BothFitMode => (BothSpec => []EachUpdateOfBothOnce)
<1> SUFFICES ASSUME NonBlock = {}, BothFitMode PROVE BothSpec => []EachUpdateOfBothOnce
  OBVIOUS
<1>1. FilesInv /\ FitInv => EachUpdateOnce
  BY FitUpdates DEF FilesInv
<1>2. FilesInv /\ MacP!FitInv => MacP!EachUpdateOnce
  BY MacAssumptions, MacP!FitUpdates DEF FilesInv
<1>3. MacP!EachUpdateOnce => Mac!EachUpdateOnce
  BY DEF MacP!EachUpdateOnce, Mac!EachUpdateOnce, MacP!Holds, Mac!Holds
<1>4. FilesInv /\ (FitInv /\ MacP!FitInv) => EachUpdateOfBothOnce
  BY <1>1, <1>2, <1>3 DEF EachUpdateOfBothOnce
<1> QED
  BY FilesInvariance, BothFit, <1>4, PTL

(* No process sleeps with an unread update of either table unless its      *)
(* wake-up is under way or came before it was on that table's wait queue,  *)
(* also when the update came while it was reading the other table          *)
(* (rt_fops.c:146), with any number of pollers and writers.                *)
THEOREM SleepersAreTold ==
  NonBlock = {} /\ BothFitMode => (BothSpec => []SleepsInformed)
<1> SUFFICES ASSUME NonBlock = {}, BothFitMode PROVE BothSpec => []SleepsInformed
  OBVIOUS
<1>1. ASSUME FilesInv, FitInv, NEW p \in Pollers, pc[p] = "asleep", ~triggered[p]
      PROVE  last[p] = written \/ p \in missed \/ \E w \in Writers : pc[w] = "wake"
  <2>1. written \in Int
    BY <1>1, PollAssumption DEF FilesInv, TypeInv, DataOK
  <2>2. changes = <<>> => Len(changes) = 0
    OBVIOUS
  <2>3. Contains(pollList, p) => ~Contains(blackList, p)
    BY <1>1 DEF FilesInv, TypeInv, ListInv, ListsDisjoint
  <2> QED
    BY <1>1, <2>1, <2>2, <2>3 DEF FilesInv, AwakeInv, FitInv, LastInv
<1>2. ASSUME FilesInv, MacP!FitInv, NEW p \in Pollers,
             macPc[p] = "asleep", ~macTriggered[p]
      PROVE  \/ macLast[p] = macWritten \/ p \in macMissed
             \/ \E w \in MacWriters : macPc[w] = "wake"
  <2>1. macWritten \in Int
    BY <1>2, PollAssumption DEF FilesInv, MacP!TypeInv, MacP!DataOK
  <2>2. macChanges = <<>> => Len(macChanges) = 0
    OBVIOUS
  <2>3. MacP!Contains(macPollList, p) => ~MacP!Contains(macBlackList, p)
    BY <1>2 DEF FilesInv, MacP!TypeInv, MacP!ListInv, MacP!ListsDisjoint
  <2> QED
    BY <1>2, <2>1, <2>2, <2>3 DEF FilesInv, MacP!AwakeInv, MacP!FitInv, MacP!LastInv
<1>3. FilesInv /\ (FitInv /\ MacP!FitInv) => SleepsInformed
  BY <1>1, <1>2 DEF SleepsInformed
<1> QED
  BY FilesInvariance, BothFit, <1>3, PTL
=============================================================================
