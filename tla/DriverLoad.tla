----------------------------- MODULE DriverLoad -----------------------------
(***************************************************************************)
(* Loading and unloading a driver (rt_register_drv.c; mac_register_drv.c is*)
(* the same with other names), against the worker thread that loading      *)
(* starts, and processes that open and poll the device.                    *)
(*                                                                         *)
(* stage is where insmod or rmmod is.  Each insmod loads a fresh image of  *)
(* the module, so a table, and the worker that looks for it, are told apart*)
(* by the number of the insmod that made them.  What outlives an image is  *)
(* what it leaves behind: workers, and numbers still registered.           *)
(*                                                                         *)
(* A thread that has met memory that is not there is not followed further. *)
(***************************************************************************)
EXTENDS Integers

CONSTANTS
    Clients,        \* processes that open and poll the device
    MayFail,        \* register_chrdev_region, kmalloc and cdev_add may fail
    Preemptible,    \* insmod may be interrupted anywhere, not only where it sleeps
    MaxLoads,       \* bound on the number of insmods
    NULL

ASSUME LoadAssumption ==
    /\ MayFail \in BOOLEAN
    /\ Preemptible \in BOOLEAN
    /\ MaxLoads \in Nat
    /\ NULL \notin Nat

VARIABLES
    stage,
    load,           \* how many insmods there have been
    regions,        \* minor numbers of the major that are registered
    dev,            \* the minor number in the global dev
    rt,             \* the global rt, NULL or the table of an insmod
    tables,         \* the tables that are allocated
    device,         \* the character device can be opened
    sem,            \* rt_serialize_readers_cs_sem: NULL until sema_init
    listed,         \* black_listed_poll_readers_list has been created
    worker,         \* worker[i]: the thread started by insmod i
    pc              \* pc[c]: where a process is

kernelVars == <<regions, dev, device>>
stateVars == <<rt, tables, sem, listed>>
loadVars == <<stage, load>>
vars == <<kernelVars, stateVars, loadVars, worker, pc>>

Loads == 1 .. MaxLoads

Init == /\ stage = "out" /\ load = 0
        /\ regions = {} /\ dev = 0 /\ device = FALSE
        /\ rt = NULL /\ tables = {} /\ sem = NULL /\ listed = FALSE
        /\ worker = [i \in Loads |-> "none"]
        /\ pc = [c \in Clients |-> "out"]

(* From the moment the device is there to the kmalloc of the black list    *)
(* insmod does not sleep.                                                  *)
MayRun == stage = "semaphore" => Preemptible
-----------------------------------------------------------------------------
(* char_driver_init_module.                                                *)

Register ==
    /\ stage = "out" /\ load < MaxLoads
    /\ load' = load + 1
    /\ dev' = 0 /\ rt' = NULL /\ sem' = NULL /\ listed' = FALSE
    /\ IF 0 \in regions THEN UNCHANGED <<regions, stage>>
                        ELSE regions' = {0} /\ stage' = "table"
    /\ UNCHANGED <<device, tables, worker, pc>>

RegisterFails == /\ MayFail
                 /\ stage = "out" /\ load < MaxLoads
                 /\ load' = load + 1
                 /\ UNCHANGED <<stage, kernelVars, stateVars, worker, pc>>

AllocTable == /\ stage = "table"
              /\ tables' = tables \cup {load}
              /\ stage' = "worker"
              /\ UNCHANGED <<load, kernelVars, rt, sem, listed, worker, pc>>

(* The clean-up unregisters, and then looks into the table there is not:   *)
(* the kernel kills insmod, and the image can no longer be removed.        *)
AllocFails == /\ MayFail
              /\ stage = "table"
              /\ regions' = regions \ {dev}
              /\ stage' = "dead"
              /\ UNCHANGED <<load, dev, device, stateVars, worker, pc>>

StartWorker == /\ stage = "worker"
               /\ worker' = [worker EXCEPT ![load] = "started"]
               /\ stage' = "publish"
               /\ UNCHANGED <<load, kernelVars, stateVars, pc>>

(* Fault: the number registered is the one the device is added under.      *)
PublishRegistered == /\ stage = "publish"
                     /\ rt' = load
                     /\ stage' = "add"
                     /\ UNCHANGED <<load, kernelVars, tables, sem, listed, worker, pc>>

Publish == /\ stage = "publish"
           /\ rt' = load
           /\ dev' = 1
           /\ stage' = "add"
           /\ UNCHANGED <<load, regions, device, tables, sem, listed, worker, pc>>

AddDevice == /\ stage = "add"
             /\ device' = TRUE
             /\ stage' = "semaphore"
             /\ UNCHANGED <<load, regions, dev, stateVars, worker, pc>>

(* char_driver_cleanup_module: unregister_chrdev_region releases the number*)
(* in dev, if it is registered; the table is freed; the worker stays.      *)
CleanUp == /\ regions' = regions \ {dev}
           /\ device' = FALSE
           /\ tables' = tables \ {rt}
           /\ stage' = "out"
           /\ UNCHANGED <<load, dev, rt, sem, listed, worker, pc>>

AddFails == MayFail /\ stage = "add" /\ CleanUp

(* rt_driver_init.                                                         *)
InitSemaphore == /\ stage = "semaphore"
                 /\ sem' = 1
                 /\ stage' = "list"
                 /\ UNCHANGED <<load, kernelVars, rt, tables, listed, worker, pc>>

InitList == /\ stage = "list"
            /\ listed' = TRUE
            /\ stage' = "loaded"
            /\ UNCHANGED <<load, kernelVars, rt, tables, sem, worker, pc>>

Load == \/ Register \/ RegisterFails \/ AllocTable \/ AllocFails \/ StartWorker
        \/ Publish \/ AddDevice \/ AddFails \/ InitSemaphore \/ InitList
-----------------------------------------------------------------------------
(* rmmod: refused while a file is open, since the device's owner is the    *)
(* module (.owner, cdev.owner), and from then on nobody can open it.       *)

(* Fault: the device has no owner.                                         *)
NotOwned == TRUE

NotInUse == \A c \in Clients : pc[c] = "out"

UnloadBegins == /\ stage = "loaded" /\ NotInUse
                /\ stage' = "unload"
                /\ UNCHANGED <<load, kernelVars, stateVars, worker, pc>>

Unload == stage = "unload" /\ CleanUp
-----------------------------------------------------------------------------
(* The worker's first look at rt: it finds nothing there, its table, or one*)
(* that has been freed.                                                    *)
WorkerLooks(i) ==
    /\ worker[i] = "started" /\ MayRun
    /\ worker' = [worker EXCEPT ![i] = IF i \notin tables THEN "late"
                                       ELSE IF rt = i THEN "waits" ELSE "early"]
    /\ UNCHANGED <<kernelVars, stateVars, loadVars, pc>>

(* A process opens the device, enters rt_poll and leaves it, and closes.   *)
Goto(c, to) == pc' = [pc EXCEPT ![c] = to]

Open(c) == /\ pc[c] = "out" /\ MayRun
           /\ device /\ stage # "unload"
           /\ Goto(c, "open")
           /\ UNCHANGED <<kernelVars, stateVars, loadVars, worker>>

PollEnters(c) == /\ pc[c] = "open" /\ MayRun
                 /\ sem \in Nat \ {0}
                 /\ sem' = sem - 1
                 /\ Goto(c, "polls")
                 /\ UNCHANGED <<kernelVars, rt, tables, listed, loadVars, worker>>

PollLeaves(c) == /\ pc[c] = "polls" /\ MayRun
                 /\ listed
                 /\ sem' = sem + 1
                 /\ Goto(c, "open")
                 /\ UNCHANGED <<kernelVars, rt, tables, listed, loadVars, worker>>

(* The black list is not there yet: the process dies with the semaphore.   *)
PollDies(c) == /\ pc[c] = "polls" /\ MayRun
               /\ ~listed
               /\ Goto(c, "out")
               /\ UNCHANGED <<kernelVars, stateVars, loadVars, worker>>

Close(c) == /\ pc[c] = "open" /\ MayRun
            /\ Goto(c, "out")
            /\ UNCHANGED <<kernelVars, stateVars, loadVars, worker>>

Client(c) == Open(c) \/ PollEnters(c) \/ PollLeaves(c) \/ PollDies(c) \/ Close(c)

Next == \/ Load \/ UnloadBegins \/ Unload
        \/ \E i \in Loads : WorkerLooks(i)
        \/ \E c \in Clients : Client(c)

Spec == Init /\ [][Next]_vars

-----------------------------------------------------------------------------
TypeOK ==
    /\ stage \in {"out", "table", "worker", "publish", "add", "semaphore", "list",
                  "loaded", "unload", "dead"}
    /\ load \in 0 .. MaxLoads
    /\ regions \subseteq {0} /\ dev \in {0, 1} /\ device \in BOOLEAN
    /\ rt \in Loads \cup {NULL} /\ tables \subseteq Loads
    /\ sem \in {NULL, 0, 1} /\ listed \in BOOLEAN
    /\ worker \in [Loads -> {"none", "started", "waits", "early", "late"}]
    /\ pc \in [Clients -> {"out", "open", "polls"}]

(* A process with an open file finds the table and the semaphore, although *)
(* the device can be opened before rt_driver_init (rt_register_drv.c:49,   *)
(* 52) and unloading frees the table (74).                                 *)
HandlersReady == ~Preemptible => \A c \in Clients :
    pc[c] # "out" => rt \in tables /\ sem # NULL

(* No second worker is ever started, although nothing stops the first: the *)
(* device is added under another number than the one registered, so that   *)
(* the number is not released and no later insmod gets past line 36.       *)
OneWorker == \A i, j \in Loads : worker[i] # "none" /\ worker[j] # "none" => i = j
=============================================================================
