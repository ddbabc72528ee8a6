-------------------------- MODULE ThreadPoolProofs --------------------------
(* Theorems about ThreadPool, for any threads, ids and size of the pool.   *)
EXTENDS ThreadPool, FiniteSetTheorems, TLAPS

(* Who is inside wait_t with the mutex holds it, and so is who signals, if *)
(* callers are disciplined; a thread that is being marked is not blocked.  *)
MutexInv == \A t \in Threads :
    /\ pc[t] = "locked" => mutex = t
    /\ Disciplined /\ pc[t] \in {"signals", "marks"} => mutex = t

SignalInv == \A s \in Threads : pc[s] \in {"signals", "marks"} =>
    /\ signalled[s] \in Threads \ {s}
    /\ Disciplined /\ pc[s] = "marks" => pc[signalled[s]] # "blocked"

WaitInv == Disciplined => \A t \in Threads : pc[t] = "locked" => isWaiting[t]

IInv == TypeOK /\ PoolSound /\ MutexInv /\ SignalInv /\ WaitInv /\ BlockedKnown

LEMMA InitIInv == Init => IInv
  BY PoolAssumption DEF Init, IInv, TypeOK, PoolSound, MutexInv, SignalInv, WaitInv,
     BlockedKnown, Slots

LEMMA AddStep == ASSUME IInv, NEW t \in Threads, Add(t) PROVE IInv'
  <1> USE PoolAssumption DEF IInv, TypeOK, Slots, waitVars
  <1>1. PICK i \in Empty : pool' = [pool EXCEPT ![i] = t]
    BY DEF Add
  <1>2. TypeOK' /\ MutexInv' /\ SignalInv' /\ WaitInv' /\ BlockedKnown'
    BY <1>1 DEF Add, Empty, MutexInv, SignalInv, WaitInv, BlockedKnown
  <1>3. PoolSound'
    BY <1>1 DEF Add, Found, Empty, PoolSound, Fits
  <1> QED BY <1>2, <1>3

LEMMA RemoveStep == ASSUME IInv, NEW t \in Threads, Remove(t) PROVE IInv'
  <1> USE PoolAssumption DEF IInv, TypeOK, Slots, waitVars
  <1>1. PICK i \in Found(t) : pool' = [pool EXCEPT ![i] = NULL]
    BY DEF Remove
  <1>2. TypeOK' /\ MutexInv' /\ SignalInv' /\ WaitInv' /\ BlockedKnown'
    BY <1>1 DEF Remove, Found, MutexInv, SignalInv, WaitInv, BlockedKnown
  <1>3. PoolSound'
    BY <1>1 DEF Found, PoolSound, Fits
  <1> QED BY <1>2, <1>3

LEMMA WaitStep ==
  ASSUME IInv, NEW t \in Threads,
         WaitLocks(t) \/ WaitSleeps(t) \/ WakesUnasked(t) \/ WaitReturns(t)
  PROVE  IInv'
  <1> USE PoolAssumption DEF IInv, TypeOK, MutexInv, SignalInv, WaitInv, BlockedKnown, Goto
  <1>1. PoolSound'
    BY DEF PoolSound, Fits, WaitLocks, WaitSleeps, WakesUnasked, WaitReturns
  <1>2. CASE WaitLocks(t)
    BY <1>1, <1>2 DEF WaitLocks
  <1>3. CASE WaitSleeps(t)
    BY <1>1, <1>3 DEF WaitSleeps
  <1>4. CASE WakesUnasked(t)
    BY <1>1, <1>4 DEF WakesUnasked
  <1>5. CASE WaitReturns(t)
    BY <1>1, <1>5 DEF WaitReturns
  <1> QED BY <1>2, <1>3, <1>4, <1>5

LEMMA SignalStep ==
  ASSUME IInv, NEW s \in Threads,
         \/ \E t \in Threads : SignalBegins(s, t)
         \/ SignalSends(s) \/ SignalMarks(s)
  PROVE  IInv'
  <1> USE PoolAssumption DEF IInv, TypeOK, MutexInv, SignalInv, WaitInv, BlockedKnown, Goto
  <1>1. PoolSound'
    BY DEF PoolSound, Fits, SignalBegins, SignalSends, SignalMarks
  <1>2. CASE \E t \in Threads : SignalBegins(s, t)
    BY <1>1, <1>2 DEF SignalBegins
  <1>3. CASE SignalSends(s)
    BY <1>1, <1>3 DEF SignalSends
  <1>4. CASE SignalMarks(s)
    BY <1>1, <1>4 DEF SignalMarks
  <1> QED BY <1>2, <1>3, <1>4

LEMMA Inductive == Spec => []IInv
  <1>1. IInv /\ [Next]_vars => IInv'
    <2> SUFFICES ASSUME IInv, [Next]_vars PROVE IInv'
      OBVIOUS
    <2>1. CASE UNCHANGED vars
      BY <2>1 DEF vars, IInv, TypeOK, PoolSound, Fits, MutexInv, SignalInv, WaitInv,
         BlockedKnown
    <2>2. CASE Next
      BY <2>2, AddStep, RemoveStep, WaitStep, SignalStep DEF Next
    <2> QED BY <2>1, <2>2
  <1> QED BY InitIInv, <1>1, PTL DEF Spec

(* A full pool would hold PoolSize different ids, all of them less than    *)
(* PoolSize, so every id that fits would be in it.                         *)
LEMMA NotFull == IInv => NeverFull
  <1> SUFFICES ASSUME IInv, NEW t \in Threads, Fits(t), Found(t) = {}, Empty = {}
               PROVE  FALSE
    BY DEF NeverFull
  <1> USE PoolAssumption
  <1> DEFINE others == Slots \ {SelfId[t]}
             idIn == [i \in Slots |-> SelfId[pool[i]]]
  <1>1. SelfId[t] \in Slots
    BY DEF Fits, Slots
  <1>2. \A i \in Slots : pool[i] \in Threads /\ SelfId[pool[i]] # SelfId[t]
    BY DEF Empty, Found, IInv, TypeOK
  <1>3. \A i \in Slots : SelfId[pool[i]] \in Slots
    BY <1>2 DEF IInv, PoolSound, Fits, Slots
  <1>4. idIn \in [Slots -> others]
    BY <1>2, <1>3
  <1>5. IsFiniteSet(Slots) /\ Cardinality(Slots) = PoolSize
    <2>1. PoolSize - 1 \in Int /\ ~(0 > PoolSize - 1) /\ PoolSize - 1 - 0 + 1 = PoolSize
      OBVIOUS
    <2> QED BY <2>1, FS_Interval, SMT DEF Slots
  <1>6. IsFiniteSet(others) /\ Cardinality(others) = PoolSize - 1
    BY <1>1, <1>5, FS_RemoveElement
  <1>7. PICK i, j \in Slots : i # j /\ idIn[i] = idIn[j]
    <2> HIDE DEF others, idIn
    <2>1. Cardinality(others) < Cardinality(Slots)
      BY <1>5, <1>6
    <2> QED BY <1>4, <1>5, <1>6, <2>1, FS_PigeonHole
  <1> QED BY <1>2, <1>7 DEF IInv, PoolSound

(* For every size, every thread and every assignment of ids, a thread whose*)
(* id fits and is not in the pool finds a slot.                            *)
THEOREM PoolNeverFull == Spec => []NeverFull
  BY Inductive, NotFull, PTL

(* When signallers hold the mutex, whoever is blocked is marked.           *)
THEOREM BlockedAreMarked == Spec => []BlockedKnown
  <1>1. IInv => BlockedKnown
    BY DEF IInv
  <1> QED BY <1>1, Inductive, PTL

(* Types, and ids in the pool that fit and differ.                         *)
THEOREM PoolIsSound == Spec => [](TypeOK /\ PoolSound)
  <1>1. IInv => TypeOK /\ PoolSound
    BY DEF IInv
  <1> QED BY <1>1, Inductive, PTL
=============================================================================
