-------------------------- MODULE DriverLoadProofs --------------------------
(* Theorems about DriverLoad, for any number of processes and insmods.     *)
EXTENDS DriverLoad, TLAPS

(* The stages in which rt is the table of this insmod, those in which there*)
(* is such a table at all, and those in which the device can be opened.    *)
Published == {"add", "semaphore", "list", "loaded", "unload"}
Allocated == Published \cup {"worker", "publish"}
Opened == {"semaphore", "list", "loaded"}

StageInv ==
    /\ stage # "out" => load \in Loads
    /\ stage \in {"table", "worker"} => \A i \in Loads : worker[i] = "none"
    /\ stage \in Published => dev = 1 /\ rt = load
    /\ tables = IF stage \in Allocated THEN {load} ELSE {}
    /\ stage \in {"table", "worker", "publish", "add", "semaphore"} => sem = NULL
    /\ stage \in {"list", "loaded"} => sem # NULL
    /\ device => stage \in Opened \cup {"unload"}

(* The number stays registered once a worker has been started.             *)
RegionInv ==
    /\ stage \notin {"out", "dead"} => 0 \in regions
    /\ \A i \in Loads : worker[i] # "none" => 0 \in regions /\ stage # "dead"

ClientInv ==
    /\ \A c \in Clients : pc[c] # "out" => stage \in Opened
    /\ ~Preemptible /\ stage = "semaphore" => \A c \in Clients : pc[c] = "out"
    /\ \A c \in Clients : pc[c] = "polls" => sem = 0
    /\ \A c, d \in Clients : pc[c] = "polls" /\ pc[d] = "polls" => c = d

IInv == TypeOK /\ StageInv /\ RegionInv /\ ClientInv /\ OneWorker

LEMMA InitIInv == Init => IInv
  <1> SUFFICES ASSUME Init PROVE IInv
    OBVIOUS
  <1> USE LoadAssumption DEF Init
  <1>1. TypeOK
    <2>1. load \in 0 .. MaxLoads
      OBVIOUS
    <2>2. regions \subseteq {0} /\ tables \subseteq Loads
      OBVIOUS
    <2>3. worker \in [Loads -> {"none", "started", "waits", "early", "late"}]
      OBVIOUS
    <2>4. pc \in [Clients -> {"out", "open", "polls"}]
      OBVIOUS
    <2>5. rt \in Loads \cup {NULL} /\ sem \in {NULL, 0, 1}
      OBVIOUS
    <2> QED BY <2>1, <2>2, <2>3, <2>4, <2>5 DEF TypeOK
  <1>2. StageInv
    BY DEF StageInv, Published, Allocated, Opened
  <1>3. RegionInv
    BY DEF RegionInv
  <1>4. ClientInv
    BY DEF ClientInv
  <1>5. OneWorker
    BY DEF OneWorker
  <1> QED BY <1>1, <1>2, <1>3, <1>4, <1>5 DEF IInv

(* What insmod does up to the worker: nobody has the device open.          *)
LEMMA EarlyStep ==
  ASSUME IInv, Register \/ RegisterFails \/ AllocTable \/ AllocFails \/ StartWorker
  PROVE  IInv'
  <1> USE LoadAssumption DEF IInv, TypeOK, StageInv, RegionInv, ClientInv, OneWorker,
        Loads, Published, Allocated, Opened,
        kernelVars, stateVars, loadVars
  <1>1. CASE Register
    <2>1. CASE 0 \in regions
      <3>1. TypeOK'
        <4>1. load' \in 0 .. MaxLoads
          BY <1>1, <2>1 DEF Register
        <4>2. regions' \subseteq {0} /\ dev' \in {0, 1} /\ device' \in BOOLEAN
          BY <1>1, <2>1 DEF Register
        <4>3. rt' \in Loads \cup {NULL} /\ tables' \subseteq Loads
          BY <1>1, <2>1 DEF Register
        <4> QED BY <1>1, <2>1, <4>1, <4>2, <4>3 DEF Register
      <3>2. StageInv'
        BY <1>1, <2>1 DEF Register
      <3>3. RegionInv'
        BY <1>1, <2>1 DEF Register
      <3>4. ClientInv'
        BY <1>1, <2>1 DEF Register
      <3>5. OneWorker'
        BY <1>1, <2>1 DEF Register
      <3> QED BY <3>1, <3>2, <3>3, <3>4, <3>5
    <2>2. CASE 0 \notin regions
      <3>1. TypeOK'
        <4>1. load' \in 0 .. MaxLoads
          BY <1>1, <2>2 DEF Register
        <4>2. regions' \subseteq {0} /\ dev' \in {0, 1} /\ device' \in BOOLEAN
          BY <1>1, <2>2 DEF Register
        <4>3. rt' \in Loads \cup {NULL} /\ tables' \subseteq Loads
          BY <1>1, <2>2 DEF Register
        <4> QED BY <1>1, <2>2, <4>1, <4>2, <4>3 DEF Register
      <3>2. StageInv'
        BY <1>1, <2>2 DEF Register
      <3>3. RegionInv'
        BY <1>1, <2>2 DEF Register
      <3>4. ClientInv'
        BY <1>1, <2>2 DEF Register
      <3>5. OneWorker'
        BY <1>1, <2>2 DEF Register
      <3> QED BY <3>1, <3>2, <3>3, <3>4, <3>5
    <2> QED BY <2>1, <2>2
  <1>2. CASE RegisterFails
    BY <1>2 DEF RegisterFails
  <1>3. CASE AllocTable
    BY <1>3 DEF AllocTable
  <1>4. CASE AllocFails
    BY <1>4 DEF AllocFails
  <1>5. CASE StartWorker
    BY <1>5 DEF StartWorker
  <1> QED BY <1>1, <1>2, <1>3, <1>4, <1>5

(* The rest of insmod, and rmmod.                                          *)
LEMMA LateStep ==
  ASSUME IInv, \/ Publish \/ AddDevice \/ AddFails \/ InitSemaphore \/ InitList
               \/ UnloadBegins \/ Unload
  PROVE  IInv'
  <1> USE LoadAssumption DEF IInv, TypeOK, StageInv, RegionInv, ClientInv, OneWorker,
        Loads, Published, Allocated, Opened,
        kernelVars, stateVars, loadVars
  <1>1. CASE Publish
    BY <1>1 DEF Publish
  <1>2. CASE AddDevice
    <2>1. TypeOK'
      BY <1>2 DEF AddDevice
    <2>2. StageInv'
      BY <1>2 DEF AddDevice
    <2>3. RegionInv'
      BY <1>2 DEF AddDevice
    <2>4. ClientInv'
      BY <1>2 DEF AddDevice
    <2>5. OneWorker'
      BY <1>2 DEF AddDevice
    <2> QED BY <2>1, <2>2, <2>3, <2>4, <2>5
  <1>3. CASE AddFails
    <2>1. TypeOK'
      BY <1>3 DEF AddFails, CleanUp
    <2>2. StageInv'
      BY <1>3 DEF AddFails, CleanUp
    <2>3. RegionInv'
      BY <1>3 DEF AddFails, CleanUp
    <2>4. ClientInv'
      BY <1>3 DEF AddFails, CleanUp
    <2>5. OneWorker'
      BY <1>3 DEF AddFails, CleanUp
    <2> QED BY <2>1, <2>2, <2>3, <2>4, <2>5
  <1>4. CASE InitSemaphore
    BY <1>4 DEF InitSemaphore
  <1>5. CASE InitList
    BY <1>5 DEF InitList
  <1>6. CASE UnloadBegins
    BY <1>6 DEF UnloadBegins, NotInUse
  <1>7. CASE Unload
    <2>1. TypeOK'
      BY <1>7 DEF Unload, CleanUp
    <2>2. StageInv'
      BY <1>7 DEF Unload, CleanUp
    <2>3. RegionInv'
      BY <1>7 DEF Unload, CleanUp
    <2>4. ClientInv'
      BY <1>7 DEF Unload, CleanUp
    <2>5. OneWorker'
      BY <1>7 DEF Unload, CleanUp
    <2> QED BY <2>1, <2>2, <2>3, <2>4, <2>5
  <1> QED BY <1>1, <1>2, <1>3, <1>4, <1>5, <1>6, <1>7

(* The worker's first look at rt disturbs nobody.                          *)
LEMMA WorkerStep == ASSUME IInv, NEW i \in Loads, WorkerLooks(i) PROVE IInv'
  <1> USE LoadAssumption DEF IInv, TypeOK, StageInv, kernelVars, stateVars, loadVars
  <1>1. TypeOK' /\ StageInv'
    BY DEF WorkerLooks
  <1>2. RegionInv' /\ ClientInv' /\ OneWorker'
    BY DEF WorkerLooks, RegionInv, ClientInv, OneWorker
  <1> QED BY <1>1, <1>2

LEMMA ClientStep == ASSUME IInv, NEW c \in Clients, Client(c) PROVE IInv'
  <1> USE LoadAssumption DEF IInv, TypeOK, StageInv, RegionInv, ClientInv, OneWorker,
        Loads, Published, Allocated, Opened, Goto, MayRun,
        kernelVars, stateVars, loadVars
  <1>1. CASE Open(c)
    BY <1>1 DEF Open
  <1>2. CASE PollEnters(c)
    BY <1>2 DEF PollEnters
  <1>3. CASE PollLeaves(c)
    BY <1>3 DEF PollLeaves
  <1>4. CASE PollDies(c)
    BY <1>4 DEF PollDies
  <1>5. CASE Close(c)
    BY <1>5 DEF Close
  <1> QED BY <1>1, <1>2, <1>3, <1>4, <1>5 DEF Client

LEMMA Inductive == Spec => []IInv
  <1>1. IInv /\ [Next]_vars => IInv'
    <2> SUFFICES ASSUME IInv, [Next]_vars PROVE IInv'
      OBVIOUS
    <2>1. CASE UNCHANGED vars
      BY <2>1 DEF vars, kernelVars, stateVars, loadVars, IInv, TypeOK, StageInv,
         RegionInv, ClientInv, OneWorker
    <2>2. CASE Load
      BY <2>2, EarlyStep, LateStep DEF Load
    <2>3. CASE UnloadBegins \/ Unload
      BY <2>3, LateStep
    <2>4. CASE \E i \in Loads : WorkerLooks(i)
      BY <2>4, WorkerStep
    <2>5. CASE \E c \in Clients : Client(c)
      BY <2>5, ClientStep
    <2> QED BY <2>1, <2>2, <2>3, <2>4, <2>5 DEF Next
  <1> QED BY InitIInv, <1>1, PTL DEF Spec

(* Type correctness; with it, that the semaphore has one holder.           *)
THEOREM Typing == Spec => []TypeOK
  <1>1. IInv => TypeOK
    BY DEF IInv
  <1> QED BY <1>1, Inductive, PTL

(* An open file has its table and its semaphore, for any number of them.   *)
THEOREM OpenFilesAreReady == Spec => []HandlersReady
  <1>1. IInv => HandlersReady
    BY DEF IInv, HandlersReady, ClientInv, StageInv, Opened, Published, Allocated
  <1> QED BY <1>1, Inductive, PTL

(* However often the driver is loaded, a worker is started once.           *)
THEOREM StartedOnce == Spec => []OneWorker
  <1>1. IInv => OneWorker
    BY DEF IInv
  <1> QED BY <1>1, Inductive, PTL
=============================================================================
