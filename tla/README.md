# A TLA+ model of RIBDriver

RIBDriver is a Linux character-device module that keeps a routing table (RT) and
a MAC table and shares each of them between processes in two ways:

* **synchronously**, with `ioctl`: readers and writers queue up, and one worker
  thread per table schedules them, a writer at a time and after each writer all
  the readers that are waiting;
* **asynchronously**, with `select`/`read`/`write`: pollers sleep in `select`
  until a `write` adds to the table, and each of them reads the update.

What is checked here is the scheduling, the hand-over of updates and the life of
the memory they are handed over in. Line numbers are those of the repository.

## 1. Inventory

| Component | State it keeps | Operations | Talks to | Hard part |
|---|---|---|---|---|
| FIFO queue (`common/Queue.c`) | array of 50 pointers, front, rear, count | `enqueue`, `deque` | handlers and worker, under `q->sem` | wrap-around; refusal when full |
| RT scheduler (`RT/rt_fops.c`: `rt_worker_fn`, `ioctl_rt_handler1`) | `reader_Q`, `writer_Q`, a completion per open file and one of the worker, `n_readers_to_be_service`, `rt_update_vector` and its count | the ioctls, the worker's rounds | wait queue `writerQ`, completions, `rt_serialize_readers_cs_sem`, `rt->sem` | every hand-over between threads; who is last; signals; preemption |
| RT select path (`rt_poll`, `rt_read`, `rt_write`) | `poll_readers_list`, black list, the same vector | poll, read, write | wait queue `readerQ`, `rt->rw_sem`, the same semaphore | wake-ups, who is first and last, pollers that come late or die |
| RT table (`RT/rt_table.c`) | list of entries, list of changes pointing at them | add, purge, empty the change list, make a vector of updates | both paths | dangling change entries |
| MAC driver (`MAC/*`) | as RT | as RT | as RT, and RT itself where a process polls both | as RT: the code is the same with other names |
| Linked list (`common/LinkedListApi.c`) | head, count, nodes | add, delete, remove, reverse, clear | the tables | deletion by copying the next node |
| Registration (`rt_register_drv.c`, `mac_register_drv.c`) | the global `rt`, the device numbers, the cdev | module init and exit, each with its error paths | worker, open files | order of publication; nothing stops the worker; which number is released |
| Kernel thread wrapper (`common/kernthread.c`) | completion, busy mode | create, wake | worker, files | - |
| Test program (`userspace/dr_test.c`) | two descriptors | menu, subscriber thread, select loop | the device | threads share one descriptor |
| Thread library (`userspace/threadApi.c`) | pool of blocked threads, a mark and a condition variable each | `wait_t`, `signal_t`, adding to and removing from the pool | not called by `dr_test` | signal without predicate; ids that are shared |

What makes each correct:

* queue: no pointer lost, duplicated or reordered; a refused one changes nothing;
* scheduler: a writer is alone; readers are let in as a whole round, each gets
  the pending changes, exactly one of them is the last and frees the vector once,
  when nobody uses it; every caller is served;
* select path: each poller gets each update once; no poller is lost between the
  two lists; the vector lives as long as it is copied from; sleepers are woken;
* linked list: a sequence of values, whatever the calls; no freed node followed;
* table: the change list never points to a freed entry;
* two tables: what `select` reports is there when it is read, whatever happens to
  the other table meanwhile, and nobody sleeps on an update of either;
* registration: nobody meets a table or a semaphore that is not there yet or not
  any more, and the driver has one worker;
* thread library: a thread that fits finds a slot; a blocked thread is marked.

The hazards found while reading are listed in `PROJECT.json`, at their lines, with
the property that covers each, or the reason why none does yet.

## 2. Modules

| Module | Models | Kind |
|---|---|---|
| `FifoQueue` | what `Queue.c` promises | abstract |
| `CircularQueue` | `Queue.c` | implements `FifoQueue` |
| `CircularQueueProofs` | | proofs |
| `ValueList` | what `LinkedListApi.c` promises | abstract |
| `LinkedList` | `LinkedListApi.c`: nodes and data on the heap, loops and recursions step by step | implements `ValueList` |
| `LinkedListProofs` | | proofs: the heap, the pointers, the refinement |
| `RibTable` | state shared by both paths, operations of `rt_table.c` on it, the vector as an address that may be freed | library of operators |
| `ReadersWriters` | the schedule `rt_worker_fn` imposes | abstract |
| `Scheduler` | the worker and the ioctls, extends `RibTable` | implements `ReadersWriters` |
| `SchedulerProofs` | | proofs: types, discipline of the grants; who has access, who is counted; nobody is stranded |
| `RoundProofs` | | proofs: `Scheduler` implements `ReadersWriters`; the change list, the vector, what readers get |
| `PollReaders` | `rt_poll`, `rt_read`, `rt_write` inside `select`, extends `RibTable` | detailed |
| `PollReadersProofs` | | proofs |
| `TwoTables` | one `select` over both devices, and the loop of `poll_rt_mac_table`: `PollReaders` for RT composed with an instance of it for MAC | composition |
| `TwoTablesProofs` | | proofs, from those of `PollReaders` for each table |
| `DriverLoad` | module init and exit against the worker's start and processes that open and poll | detailed |
| `DriverLoadProofs` | | proofs |
| `ThreadPool` | `threadApi.c`: the pool, `wait_t`, `signal_t` | detailed |
| `ThreadPoolProofs` | | proofs |
| `MCCircularQueue`, `MCLinkedList`, `MCScheduler`, `MCPollReaders`, `MCTwoTables`, `MCThreadPool` | values of the constants for TLC | |

### How the state corresponds

`pc[t]` is the line a thread is about to execute; each action is the code between
two points where another thread can get in. Names in the modules are the source's
where it has one (`reader_Q` is `readerQ`, `n_readers_to_be_service` is `n`,
`rt_serialize_readers_cs_sem` is `csSem`, `rt->sem` is `rtSem`). A completion is a
number: `complete` adds one and `wait_for_completion` takes one. The linked lists
are sequences, newest first. An update is a value: in `Scheduler` the writer that
makes it, in `PollReaders` its number. The vector of updates is an address with a
body and a set `freed` of addresses; a thread in `copy_to_user` keeps the address
it read (`hold`), so that using it after it was freed can be told.

Of the bytes of an update the models keep how many of them a copy brings. The
vector's elements are `struct rt_update_t` (52 bytes), and `copy_to_user` is asked
for `sizeof(struct rt_entry)` (48) for each of them (92, 457): of element i of n
arrive the bytes that `n * EntrySize` leaves after `i - 1` elements of `UpdateSize`
(`Arrives`), so the last ones are cut. What a reader has in its buffer is a
sequence of pieces, an update and its number of bytes each, and `Holds` says what
a correct hand-over leaves there: each update at its place, and whole as far as
`EntrySize` bytes for each of them reach. `Delivered`, `EachUpdateOnce` and `EachUpdateOfBothOnce`
are stated with it. That readers get whole updates is false (`UpdateCut`).

In `Scheduler` the queues are the bounded sequences `CircularQueue` is proved to
implement. The queue semaphores are held across one call only and nothing else
happens under them, so a call is one step.

In `PollReaders` and `RibTable` the lists are the sequences of values that
`LinkedList` is checked to implement, and a call is one step there. In `LinkedList`
the domain of `next` is the set of allocated nodes and that of `cell`
the set of allocated data, so that following a freed pointer has no value and
`CursorsLive` says that it does not happen. The list seen from outside is the one
before the call until the call returns (`before`); `lost` gathers the data that
`singly_ll_remove_node_by_value` frees with nobody.

`missed` in `PollReaders` is a history variable, which no guard reads: the pollers
for whom a `write` woke the wait queue between `rt_poll`'s look at the change list
and `poll_wait` (514, 529), before they were on it. A poller leaves it when it asks again.

In `TwoTables` a poller has two program counters, one per device. Both `"woken"`
is the start of a pass over the files, both `"asleep"` is sleep, and `"ready"`
marks a file that `select` reported. The pass asks RT and then MAC, and MAC also
when RT has data, as the kernel's `do_select` does; `mac_poll` then counts a process
that will not sleep. The MAC table has variables of its own and the actions of
`PollReaders` under `INSTANCE`, because `mac_poll`, `mac_read` and `mac_write` are
those of RT with other names.

In `DriverLoad` a table is the number of the `insmod` that allocated it, and each
`insmod` starts with fresh module data; what stays behind is the worker it started
and the device number it registered. `stage` is the line of `char_driver_init_module`
reached, or of its clean-up. A thread that has met memory that is not there
(`"early"`, `"late"`, `"dead"`) is not followed further.

In `ThreadPool` adding and removing are one step each, under `pool_mutex`. `wait_t`
and `signal_t` are taken apart, and spurious wake-ups of `pthread_cond_wait` happen.
`Disciplined` says whether callers of `signal_t`, which locks nothing, hold the
mutex that waiters give `wait_t`.

### Preemption

`Scheduler`, `PollReaders` and `DriverLoad` have a constant `Preemptible`. The
handlers contain stretches that never sleep: 461-474 in the exit section of
`RT_IOC_SUBSCRIBE_RT`, and from the allocation of the vector to the release of the
semaphore in `rt_read`; and module init does not sleep from `cdev_add` to `sema_init`.
Nothing is assumed of when the worker that `insmod` starts runs first. With `Preemptible = FALSE` nobody runs while a thread is in such a stretch: a
single-processor kernel without `CONFIG_PREEMPT`, such as the user-mode Linux that
`Makefileuml` builds for. With `TRUE` they interleave like everything else.
Several properties hold only without preemption; the runs that show it are below.

### Failures in the models

* `Signalled`: threads that may have a signal pending. `down_interruptible` fails
  only when it would block. `SEM_LOCK` then returns from the handler, from wherever
  it is (`kernutils.h`), and the models do so too; `down_interruptible` at line 462
  goes on. In `PollReaders` the signal kills the process.
* `AllocMayFail`: `kzalloc` of the vector may answer NULL.
* full queue: `enqueue` drops the pointer and the caller does not look.
* a NULL pointer dereferenced is the worker's state `dead`.
* `FileOf`: threads may share an open file, and then its completion.

## 3. Runs

Each passing run has, for each of its properties, a mutant of the code that breaks it.

| Run | Instance | Shows |
|---|---|---|
| `CircularQueue` | 2 pointers, 4 slots | the indices, count and slots agree; it implements `FifoQueue` |
| `LinkedList` | memory for 3 nodes and 4 cells, 2 values | the list implements `ValueList`; no pointer to freed memory is followed, no memory is lost but by removal; every call returns |
| `SchedulerSafety` | 2 readers, 2 writers, 1 poller; additions and purges, with and without the lock; signals for all, failing allocations; no preemption | exclusion of writers, one last reader, life of the vector, no dangling change, discipline of the grants, no crash of the worker; implements `ReadersWriters` |
| `SchedulerLiveness` | the same threads, additions only, no signals | every writer is served, every reader queued beside a writer too, and nobody waits for a wake-up that is not under way; each reader finds the pending changes in its buffer, as far as the copy reaches; leaving readers and asking pollers exclude each other; no deadlock |
| `PollPaced` | 2 pollers, 2 writers, 2 updates | each update reaches each poller once and in order, as far as the copy reaches, from a vector that is live and freed once; afterwards all wait again |
| `PollAnytime` | 2 pollers (one non-blocking), 2 writers, 2 updates; kills, preemption, failing allocations | no file is counted twice, no sleeping poller is forgotten, and no wake-up is lost but one that comes before `poll_wait` |
| `TwoTables` | 2 pollers of both tables, a writer for each, 2 updates of RT and 1 of MAC | each update of either table reaches each poller once, as far as the copy reaches; what `select` reported is there; nobody sleeps on an update, unless its wake-up came before `poll_wait` |
| `DriverLoad` | 3 processes, 3 `insmod`s; registration, allocation and `cdev_add` may fail; no preemption | open files find table and semaphore, one worker is ever started |
| `ThreadPool` | 4 threads with ids 0, 1, 1, 2 and a pool of 2; signals under the mutex | a thread that fits finds a slot; a blocked thread is marked as waiting |

Bounds. Two readers are the fewest with a last and a not-last one, and two writers
the fewest for which one waits while the other's round is under way. Threads call
again and again, so rounds follow each other without end. The queues have as many
slots as threads of a kind, which is the ordinary case (50 slots). Four slots of
`CircularQueue` wrap many times over. Three nodes have a first, an inner and a last
one, and two values may be equal or not; the fourth cell is there to be lost.
`UintMax` (4) only stands for a number no counter reaches by counting up. `EntrySize`
and `UpdateSize` are the sizes of the structures. `MaxFetch` stands for the 20 updates a reader can
take; in `PollAnytime` it is smaller than the list can be, so the clamp bites.
Three `insmod`s are one that loads, one that is refused and one more; the ids of
`ThreadPool` are one alone, one shared and one too large for the pool.
`MaxWrites` bounds the updates; the runs of `PollReaders` and those with signals or
preemption may stop, because the bound is reached or because the code gets stuck,
and do not check for deadlock.

`Paced` in `PollReaders` lets a writer in only when every poller sleeps and waits
for an update, which is how the menu of `dr_test` is used by hand (14 in one
terminal, 15 in another). Two writers may still follow each other before anyone is
awake. Without pacing most properties of `PollPaced` fail, as is said below.
`TwoTables` paces each table by itself: its pollers are all counted and have read
what there is, but they may be busy with the other table (`Settled`), or in
`rt_poll` of this one: nothing keeps a `write` out of the window before `poll_wait`.

Disagreements between the code and what it says of itself, each a run that TLC must
find violated:

| Run | Property | What happens |
|---|---|---|
| `PreemptedLastReader` (3 readers, 1 writer, preemption) | `VectorLive` | the last reader signals (470) and is preempted before it decrements (472); the worker sets the count of the next round to 2, the late decrement makes it 1, and the first of the two readers takes itself for the last and frees the vector while the other copies from it. Line 228 says the vector is freed by the last reader |
| `NewUpdateDenied` (1 poller, 1 writer, 2 updates) | `RefusesOnlyTheSame` | a black-listed poller is refused an update it has not read: it read the first one without being counted, so the change list stays, and when the second is added `rt_poll` denies both. Line 31 says the list is of pollers who attempt to read the same update again |
| `UpdateCut` (1 reader, 1 writer) | `UpdatesAreWhole` | a reader gets 48 of the 52 bytes of an update, since the copy is counted in entries (457). `rtkernusr.h:51` says the structure is what is sent to user space |

With other values of the constants the same modules show what the notes of the
hazards say. None of this is a run of its own:

* `WriterServed` and `NobodyStranded` fail with `QSize` below the number of
  writers, with a signalled writer, and with `FileOf` mapping reader and writer to one file, where each takes
  the other's grant;
* the comments at 288 and 506 have queries of the table and updates exclude each
  other by `rt->sem`. `RT_IOC_CR_RTENTRY` and `RT_IOC_RTPURGE` update without it
  (354), so the model has states with a poller in `"query"` and a writer in `"update"`
  as soon as one of them is in `Ops`, and no property says otherwise;
* `ExclusiveExit` fails with a signalled reader (line 462 ignores that `down`
  failed), and `VectorLive` with two readers that are signalled and preempted too;
* `WriterServed`, `RoundCount` and `WorkerAlive` fail with preemption: the late
  decrement of line 472 leaves a round without a last reader, or, between lines 213
  and 217, makes a count of 0 the largest unsigned int, so that the worker takes
  from an empty queue;
* `CopiesLive` and `FreedOnce` fail without `Paced`: a poller that joins while an
  update is being read is not counted (`rt_fops.c:98`), and copies from, or frees,
  a vector that the last of those counted has freed (104);
* `UpdateReaches` fails with one unpaced write between `rt_poll`'s query and
  `poll_wait`: `OnlyEarlyWakeLost`, which is checked unpaced, says that no other
  wake-up is lost. `EachUpdateOnce` fails with preemption between the allocation of a
  vector and its filling;
* `HandlersReady`, without its premise, fails with preemption of module init;
* `BlockedKnown`, without its premise, fails when signals come without the mutex: a
  signal between lines 188 and 189 of `threadApi.c` is lost, and the thread blocks
  with its mark cleared.

`DriverLoad` also records what its properties accept. The device is added under
minor 1 while minor 0 was registered (`rt_register_drv.c:35`, 43), and the clean-up
unregisters what `dev` then holds: number 0 is never released, and a second `insmod`
is refused with `-EBUSY`. `OneWorker` rests on that alone, since nothing stops the
first worker, whose table is freed under it. It waits there for ever: the comment of
`cleanup_rt_table` (`rt_table.c:187`) asks for the wait queues to be empty, and no
code sees to it. The worker may look at `rt` before line 39 assigns it (`"early"`): what
it dereferences then is NULL, and no line makes it wait. When `cdev_add` fails it may
even look for the first time after its table is gone (`"late"`). And while `rt_driver_init` allocates the black
list a process that polls finds none (`PollDies`).

## 4. Fairness

`Scheduler`: weak fairness of every thread once it is in a handler, and of the
worker: the kernel runs what is runnable. Strong fairness for taking a semaphore,
because a semaphore of the kernel wakes its waiters in order, so that one who
waits gets it although others come and go. Entering a handler is not fair: nobody
has to call. `PollReaders` adds that a poller goes on with its loop, as
`poll_rt_mac_table` does without end, and that a writer inside `write` goes on.
`LinkedList`: a call that has begun goes on; no loop waits for anything.

`ReaderServed` is stated for a reader queued while a writer waits: readers are let
in after a writer only, so without one a reader waits for ever, by design.

## 5. Proofs

All for every value of the constants that meets the named assumptions, and checked
by TLAPS to the last leaf.

* `CircularQueueProofs`: `QueueInvariance` (the two parts of `QueueInv`, `TypeOK` and
  `WindowInv`, are inductive together: the slot of a pointer k places behind `front`
  is a function of `front` and k only, so a call changes the window at one end) and
  `QueueRefinement`, step by step from it: an `enqueue` appends to the window, a
  `deque` takes its head.
* `SchedulerProofs`, first `Typing`, action by action, and `GrantsAreDisciplined`. Its
  invariant, `GrantDiscipline`, is inductive given `Typing`: a file enters a queue
  only when its thread starts to wait, moves from the queue to its completion in one
  step of the worker, and leaves the completion in the step that lets the thread go
  on. It holds in every mode, signals, preemption and failures included, provided
  no two threads share an open file; with a shared one the premise is seen to be
  needed (above).

  Then exclusion. `RoundInv` ties the count to the threads. Between rounds nobody
  has access (`QuietInv`); in a writer's round one writer at most is granted and no
  reader is in (`WriterRound`); in a readers' round `n_readers_to_be_service` is the
  number still to be granted plus the number granted and not yet out, until the last
  has signalled (`ReaderRound`); one reader at a time is in its exit section and takes
  itself for the last exactly when it is (`ExitRound`). It is inductive with `TypeOK`
  and `GrantInv` when the exit section is not preempted and files are not shared;
  `PreemptedLastReader` shows the first premise to be needed. Signals and failing
  allocations are allowed: an interrupted writer stops the rounds and spoils none.
  `WritersExclude`, `RoundsAreCounted` and `WorkerSurvives` follow. `ExitIsExclusive`
  rests on the semaphore alone and holds with preemption and shared files, for
  readers without signals, because line 462 ignores that `down` failed.

  Then that nobody waits for what will not come (`NoneStranded`): a waiting caller is
  in a queue or has been granted (`CallersKept`), and while a writer waits the worker
  is not asleep for good: it has been woken, or the next thread of the round is in
  and will signal it (`WorkerNotLost`). This is what `WriterServed` needs of safety,
  and, spelled out without ENABLED, why the callers never deadlock. The queues must be as
  long as there are threads of a kind (`QueuesSuffice`): by the pigeonhole principle
  one who is about to enqueue then finds room (`Room`, from the files in a queue
  being different ones). Besides that, writers must not be signalled, because one that
  leaves by `SEM_LOCK` never tells the worker, and the exit section must not be
  preempted: the runs above show each premise to be needed.
* `RoundProofs`, first `SchedulerImplements`. The readers waiting and reading of
  `ReadersWriters` are the owners of the queue's elements beyond and within the count
  of the round; every step of a thread is a step of `ScheduleStep`, one lemma per
  kind of thread, and `MappedStep` turns that into the abstract action.
  Then the data: a round has one change at most, made by its writer, and the list
  is empty again before the next writer (`ChangeInv`); the vector is the round's, is
  live until its last reader frees it and NULL after (`VectorInv`); the vector holds
  the changes counted (`DeliverInv`), and a copy of them brings what `Holds` says
  (`CopyHolds`). From these `ChangesArePresent`,
  `VectorsAreFreed`, `VectorsAreLive` and, if allocations succeed,
  `ReadersGetTheChange`.
* `LinkedListProofs`: `ListTyped`, `HeapIsSound`, `PointersLive` and `ListImplements`,
  for a memory of any size and any values, provided there is a value to store. The
  invariant `ListInv` says that some sequence `s` names the allocated nodes in order
  (`Order`), and for each place in the code how far the links follow `s` (`Shape`):
  all of them while a search or the way down of a recursion is under way; turned up
  to the place the loop is at (`Turning`), or behind the calls that have returned
  (`TurnedBehind`, which differs between the two recursions); gone from the front
  while the list is cleared (`Freeing`). The sequence is bound by a quantifier, not
  kept by the model: an addition gives the next state another one, with the new node
  in front, a removal one without a node (`ChainWithout`), a reversal the sequence
  read backwards (`TurnedRound`). `CellInv` adds who owns which cell, which the
  deletion by copying changes for two nodes at once (`DeleteInnerKeeps`). One lemma
  per action shows that it keeps `ListInv` and is a step of `ValueList` or none.
  `HeapSound` and the mapping speak of `NodeAt`, a recursive function; that it is the
  function it is written as, and names `s[k + 1]` at k (`NodesInOrder`), is proved
  from the least place where it would not, by the well-foundedness of `<`
  (`LeastElement`).
* `DriverLoadProofs`: `OpenFilesAreReady` and `StartedOnce`, by one invariant: the
  stage says which table there is and whether the device can be opened (`StageInv`),
  and once a worker exists the device number stays registered
  (`RegionInv`), so that no later `insmod` gets to start another.
* `ThreadPoolProofs`: `PoolNeverFull` by the pigeonhole principle: ids in the pool
  fit and differ (`PoolSound`), so a full pool holds every id that fits.
  `BlockedAreMarked` from who holds the mutex (`MutexInv`, `SignalInv`).
* `PollReadersProofs`: in every mode `EachFileOnce`, `NoSleeperLost`, `Typing`
  and `WakeUpsKept`; for paced updates `VectorsStayLive`, `VectorsFreedOnce` and
  `UpdatesOnceInOrder`. The first two follow
  from `ListInv`, which is inductive without either semaphore: a file that is past
  `rt_poll`'s query with data is not black-listed, because only its own reader
  black-lists it, on leaving (`ReadersNotBlack`), so leaving never puts a file into
  the black list twice; and from the query without data to the end of its sleep a
  poller is in a list (`WaitersListed`). `CountedOnce` is not inductive by itself: without
  `ReadersNotBlack` a reader could leave for a list it is already in. `Typing` adds
  that `rt_serialize_readers_cs_sem` has one holder (`SemInv`) and that one writer
  at a time is past `down_write` (`WriteInv`), and needs both to bound the
  semaphore and the number of updates.
  `VectorsStayLive` is about blocking pollers that nobody kills, preempted or not and
  with allocations that may fail. Its invariant says whom an update waits for
  (`PacedInv`): a reader is in the list of pollers, and there is an update; every
  poller is in a list while there is one, and all are in the list of pollers while a
  writer is at work; readers and writers exclude each other. So a reader that finds
  one file in the list (`rt_fops.c:98`) is alone (`LastIsAlone`), and the vector it
  frees is nobody else's (`LiveInv`). That it is not freed a second time
  (`VectorsFreedOnce`), although `rt_read` leaves the pointer as it is (104), needs
  that the pointer is a live one from the first reader's snapshot to the last one's
  leaving (`FreshInv`): the next to find the black list empty makes a snapshot before
  anyone leaves.
  `WakeUpsKept` is of every mode again, by `AwakeInv`: a poller that is not
  black-listed and goes to sleep or sleeps beside an update has been woken, will be, or
  is in `missed`. From the query to `poll_wait` it is said of a poller that does not
  sleep yet, which is what makes it inductive.
  `UpdatesOnceInOrder` needs besides that the snapshot is neither preempted nor
  fails, and that what is pending fits a read (`FitMode`, the mode of the run
  `PollPaced`). Then who is in the list of pollers has read all but the pending
  updates (`LastInv`), the change list is those, newest first (`NewestFirst`), and
  the vector holds them from the first reader's snapshot to the last one's leaving
  (`SnapInv`); how far each then reaches in a reader's buffer is
  `CopyHolds`, which `RoundProofs` has too. From the same `NoUpdateSleptThrough`: whoever sleeps has read all that
  is written or will be woken (`SleeperTold`), though `rt_poll` looks for an update
  before it is on the wait queue (529-531); that is what `UpdateReaches` needs of safety.

  A last part is about one file of several that a poller has open (`FileSpec`): the
  steps are those of `PollReaders`, but for three that move the poller's place in its
  `select` and not the table (`SelectMoves`), and writers are paced by the table only.
  `FileTyping`, `FileReaders` and `FilesFit` carry the invariants over.
* `TwoTablesProofs`: every step of `TwoTables` is a step of `FileSpec` for RT
  (`RtIsAFile`) and for MAC (`MacIsAFile`), the second through an instance of
  `PollReadersProofs` with the variables of MAC, so that its theorems are used and not
  repeated. From the invariants of both come `EachTableSound`, `UpdatesOfBoth`
  (`EachUpdateOfBothOnce`), `ReportsHold` (`ReportedStays`: an update goes only when
  the last of those counted leaves, and one to whom it was reported is counted) and
  `SleepersAreTold` (`SleepsInformed`: nobody sleeps on an unread update of either
  table unless the wake-up is under way or came too early). The premises of the last
  and of `UpdatesOfBoth` are those of `UpdatesOnceInOrder` for both tables
  (`BothFitMode`), and of all of them that pollers block: a non-blocking one is told `-EAGAIN`, whose bits as a mask include
  `POLLIN`, so it is reported files with nothing to read. Writers are paced by their
  own table only (`Settled`), so a file may change while its poller reads the other,
  and between the query and `poll_wait` of one `rt_poll`: then it is in `missed`.

Only model-checked: liveness (`EachReturns`, `WriterServed`, `ReaderServed`,
`UpdateReaches`, `QuietAgain`), which is outside what the prover does.

## 6. Not modelled

* The ioctls and the worker of the MAC driver. Apart from names they are those of
  RT token for token, on state of their own; only `mac_poll`, `mac_read` and
  `mac_write` meet RT's anywhere, in a process that polls both, and that is
  `TwoTables`.
* `RT_IOC_GET_RT_INFO`, which changes nothing. It reads the head of the list (382)
  before it takes the lock (389), so a purge in between leaves it on a freed node:
  the ioctls and `write` on one table would be needed to say more.
* `Scheduler` and `PollReaders` on one table. `write` takes `rw_sem` and the ioctls
  take `rt->sem` or nothing, so that by the code they exclude each other nowhere
  (the comment at line 141 takes the two locks for the same); the product of the two
  state spaces is out of TLC's reach.
* The contents of the bytes of an entry, and the size of a reader's buffer. The clamp to
  `RT_MAX_ENTRIES_FETCH` (432) is made on an older count than the one copied, so more
  than 20 changes in a round would overrun the buffer; but a round follows each ioctl
  that changes the table, and only `write` beside the ioctls could add so many.
* The ioctls with an empty case, the operations of `rt_table.c` no handler calls,
  printing; in `threadApi.c` what only reads, and `resume_thread_id`, which is
  written and only printed.
* A `read` without a `select` before it, and two processes that share a file in the
  select path (the descriptor after `fork`).
* A `kmalloc` in the list that answers NULL: it is written to at once. The failures
  of module init are those its code looks at, and the table's allocation.

## 7. Plan

What is left:

* `RibDriver`: the ioctls and `write` on one `RibTable`, reduced to one thread of
  each kind, to say what the three locks of the table exclude together and what a
  purge leaves in the change list of a poller's snapshot. With it comes the size of
  a subscriber's buffer against the changes that `write` has added meanwhile.
