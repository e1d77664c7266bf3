# A TLA+ verification of openmi-base

`openmi-base` is a C++11 library of small building blocks: a thread pool and
the blocking queues under it, a logging system with synchronous and
asynchronous files, reference counting, a count-down synchronizer, a shared
array, registries, and wrappers of system calls. It has no `main` of its own; its state lives
in objects that the threads of a host process share. This directory holds TLA+
modules that model those objects, TLC configurations that check them on small
instances, and TLAPS proofs that hold for every value of the constants.

Paths such as `thread_pool.h:72` are relative to `src/base/`.

## 1. Inventory

| Component | State | Operations | Used by |
|---|---|---|---|
| `BlockingQueue` (`threadsafe_queue.h`) | `queue_`, mutex, condition variable | `Push`, `WaitTake`, `Empty`, `Size` | `ThreadPool` |
| `BoundedBlockingQueue` (same file) | `queue_`, `capacity_size_`, two condition variables | `Push`, `WaitTake`, `Full`, `Empty` | applications |
| `ThreadPool` (`thread_pool.h`) | `stop_`, `mutex_`, `cond_`, `ready_tasks_`, `worker_threads_` | `Init`, `AddTask`, `Stop`, `Join`, destructor, the worker lambda | applications, tests |
| `AsyncLogging` (`async_logging.h`) | `current_buf_`, `next_buf_`, `buffers_`, `stop_`, the consumer's local buffers | constructor, `Start`, `Append`, `Stop`, `ConsumeLog` | `AsyncLoggingManager` |
| `AsyncLoggingManager` (same file) | one lazily created `AsyncLogging` per severity | `Append`, destructor | `send_method_` of `LogMessage` |
| `RefCounted` (`refcount.h`) | `ref_` | `Ref`, `Unref`, `RefCountIsOne` | applications |
| `Synchronizer` (`synchronizer.{h,cc}`) | `finish_num_`, `fail_num_` | `Init`, `Clear`, `Wait`, `AddFinishOne` | a coordinator and its tasks |
| `LogMessage`, `LogDestination` (`logging.{h,cc}`) | global settings, global `mutex`, `log_destinations_`, thread-local date | `LOG(...)`: construction, `Flush`; `ShutdownLogging` | everything |
| `LogFile`, `WriteOp` (same files) | the open file, its size, period, last roll and last flush | `Write`, `Flush`, `RollFile` | `LogDestination`, `AsyncLogging` |
| `Date` (`date.h`, copied in `logging.cc`) | a cached `DateInfo`, in `logging.cc` also a static table of month lengths | `HumanDate` | `LogMessage`, file names |
| `SArray` (`sarray.h`) | `ptr_` (shared), `size_`, `capacity_` | `resize`, `reserve`, `push_back`, `append`, `segment`, `CopyFrom` ... | applications |
| `Register`, `GeneralFactory` | maps from names to entries | registration, alias, look-up | static initialisers |
| `ThreadLocal`, `ThreadLocalSingleton` | a value per thread | `Value`, `Get`, destructors | `LogMessage` |
| `Status`, `Timer`, `Allocator`, `File operations`, `protobuf_op`, MurmurHash3, small helpers | values, or nothing | pure functions and system calls | applications |

### Interactions

* A pool owns a `BlockingQueue` and calls `WaitTake` on it **with its own mutex
  held**; the queue has a second mutex and a second condition variable.
* `LogMessage::Flush` holds one global mutex while it writes to the `LogFile`s of
  its severity and of all lower ones and while it calls `send_method_`, which is
  `fwrite` to stderr or `AsyncLoggingManager::Append`.
* `AsyncLogging` runs one thread; buffers are passed between it and the loggers by
  moving `unique_ptr`s under a mutex, and are written to a `LogFile` outside it.

### What is hard here

Notifications sent after the mutex is released (`ThreadPool`), tests that are
repeated in separate steps, destruction while threads sleep, two threads that own
the same buffers at different times (`AsyncLogging`), a thread that starts before
its object is constructed, a decision taken on a second read of an atomic
(`RefCounted`), counters that outlive a round (`Synchronizer`), and a file that rolls by
size, by period and by removal, at most once a second, on a date that was taken before
the lock was (`LogFile`), arrays that share, cast and cut one block of memory (`SArray`), and
tables that static initialisers fill in an order nobody fixes (`Register`, `GeneralFactory`). `PROJECT.json` lists each such hazard at its line, with the property
that would catch it or the reason why none does yet.

### What makes each component correct

* Queues: first in, first out; never above the capacity; nobody sleeps without reason.
* Pool: an accepted task runs once, also when the pool is stopped; `AddTask` never hangs;
  the destructor ends, and no worker outlives it.
* Asynchronous logger: messages reach the file once, in order, and are flushed; buffers are
  neither leaked nor shared; `Stop` returns.
* Reference count: exact; the object lives as long as a reference and is deleted, once.
* Synchronizer: `Wait` ends when all tasks of its round have reported and throws exactly if
  one failed.
* Dates: the day of the call, and later calls have later stamps; a cached part is renewed in time.
* Shared arrays: each looks like a `std::vector`, stays inside its memory, and changes another only
  where the two overlap by construction.
* Registers: a name is registered once; an alias denotes the entry of its key; an entry outlives everyone who looked it up and dies once.
* Thread-local objects: one for each running thread that used them, none left behind but those that could not be stored.
* Logging: all files, or asynchronous loggers, agree on one order; each holds exactly the messages of
  its severity and above; a logger is made once; size and period bound a file; every statement ends.

## 2. Modules and the code they model

Variables keep the names of the members they model (`stop_`, `cond_`,
`ready_tasks_`, ...). Variables without a trailing underscore are program counters
(`worker`, `owner`, `consumer`, `phase`), locals, or histories, as the declaration says.
A critical section that is held from its first line to its last is one step; where the
code reads shared state again, or acts after the unlock, there is a step of its own.
Actions whose name and comment say *Mutant* are faulty variants of the definition that follows
them. They are in no specification: each shows that some property would notice that bug.

| Module | Models | Notes |
|---|---|---|
| `BlockingQueue` | `threadsafe_queue.h:11-51` | the two effects of `WaitTake` as actions, instantiated by `ThreadPool` |
| `ThreadPool` | `thread_pool.h` | composes `BlockingQueue`. A worker's lambda is five steps: lock, wait predicate, exit test, `WaitTake`, run. `join()` on a joined thread throws; destroying a joinable one calls `std::terminate` |
| `Channel` | (abstract) | a bounded first-in first-out channel: what `BoundedBlockingQueue` promises |
| `BoundedBlockingQueue` | `threadsafe_queue.h:54-113` | shown to implement `Channel`; the capacity, an `int`, is compared as a `size_t` (`SizeModulus`) |
| `AsyncLogging` | `async_logging.h:20-220` | a moved-from `unique_ptr` is `Null`; dereferencing it, and a failed `assert`, end the process |
| `RefCounted` | `refcount.h` | `Unref` is three steps, one for each access to `ref_` |
| `Synchronizer` | `synchronizer.{h,cc}` | rounds of `Clear`, dispatch and `Wait`, as in `test/synchronizer_test.cc` |
| `LogFile` | `LogFile`, `WriteOp` of `logging.{h,cc}` | operators on a record: the object before and after a call |
| `Logging` | `LogMessage`, `LogDestination` of `logging.{h,cc}`, `AsyncLoggingManager` of `async_logging.h` | composes `LogFile`; opening a file may fail, other processes may remove it, the clock ticks between any two steps. `AsyncLoggingManager::Append` is a loop of test, creation and append, entered with the logging mutex for a message and without it for the warning after an oversized one. What a logger does with a message is the module `AsyncLogging` |
| `Date` | `Date` of `logging.{h,cc}` | the table of month lengths is state; a reference calendar is at the end of the module |
| `ThreadLocal` | `thread_local.h` | threads start and exit; `key_` and the singleton may be destroyed before they do. `pthread_key_create` and `pthread_setspecific` may fail: their `runtime_error`s are constructed and not thrown, so that the object goes on without a key, and a value goes unstored |
| `DateStore` | `Date` of `date.h` in a `ThreadLocal<DateInfo>`, as in `test/date_test.cc` | composes `Date` and `ThreadLocal`; a program uses one of the two headers |
| `SArray` | `sarray.h` | memory is a sequence of units; a block is known by one of the arrays that point to it, so that allocation has one canonical form; sizes are natural numbers (a `size_t` wraps only beyond any memory there is); undefined behaviour ends the model in `fault` |
| `Registry` | `register.h`, `general_factory.h`, the look-up of `allocator.cc` | every order of static initialisers; `LOG` before `g_date` exists, and the exception of `at()` for the alias of an unknown key, are outcomes |
| `MCAsyncLogging`, `MCLogging` | | give constants that a `.cfg` cannot write |
| `MCCounting` | | runs `RefCounted` and `Synchronizer`, one or the other |
| `*Proofs` | | theorems about the module they are named after; `CountingProofs` is about `RefCounted` and `Synchronizer` |

### Protocol the callers keep

The library leaves some obligations to its callers. They are guards of the models:

* `ThreadPool`: nobody calls into a pool whose destructor has begun; a stopped
  pool is not started again before its workers have left; `Init` starts at least one thread. (Without the
  second one, `Init` would clear `stop_` without the mutex between a worker's two tests of it.)
  `Init` on a pool that already runs is allowed, and adds workers.
* `RefCounted`: `Ref`, `Unref` and `RefCountIsOne` are called by holders of a reference.
* `Synchronizer`: one coordinator; `Clear` is called between rounds; each task reports once.
* `Logging`: the settings do not change once logging starts; `ShutdownLogging`, and the destruction
  of the manager, come when no thread is logging.
* `SArray`: `segment`, the constructor from a raw pointer and `operator[]` name elements that exist
  (the `CHECK`s for this are commented out in the source), and so do the pointers and iterators given to `CopyFrom`, which may
  point into the array itself or into one that shares its memory; a raw pointer given away with `deletable` comes from
  `new[]` and is given once; one thread at a time.
* `Registry`: registration, alias and look-up come from static initialisers or from one thread.

### Undefined behaviour and unspecified outcomes

`stop_` of `ThreadPool` and of `AsyncLogging` is a `std::atomic<bool>` without an initial value:
`Init` chooses it. Whether a base class's destructor runs after `~LogMessageFatal` has
thrown, before `std::terminate`, is left to the implementation: `FatalThrows` chooses.
In `SArray` a read or write of freed memory and a `memcpy` between overlapping ranges end the model;
`UndefinedOnlyByAliasing` says who can get there. A `ThreadLocal` whose key was never created, or is deleted, calls `pthread_setspecific` with
a number that is no key of its own: either the call fails and the new object is forgotten (`NotStored`), or the number is the
key of somebody else, which ends the model (`ForeignKey`).

## 3. Runs

| Run | Instance | Shows |
|---|---|---|
| `thread_pool` | 2 clients, 2 tasks, up to 3 workers in up to 3 calls of `Init` | `TaskConservation`, `WaitTakeNeverSleeps`, `StopDrains`, `NoWorkerOutlivesPool`, `TerminatesOnlyIfMisused`, and that accepted tasks run (`AcceptedTaskRuns`) and the destructor ends (`DestructorEnds`) |
| `bounded_queue` | 3 producers of 2 elements, 2 consumers, capacity 2 | `SleepersHaveReason`, the refinement `ImplementsChannel`, `PushesComplete` |
| `async_logging` | 5 messages of lengths 1 and 2, buffers of 3 | `ConsumerAssertions`, `FourBuffers`, `MessagesConserved`, `CrashOnlyWhenBothFull`, `MessagesFlushed`, `StopReturns` |
| `counting` | 5 references to one object; or 4 tasks, 2 rounds. The two components share nothing, and each behaviour is about one of them | `CountIsExact`, `HolderIsSafe`, `SoleOwnerStays`, `LastUnrefDeletes`; `VerdictIsRight`, `SleepsOnlyForReports`, `WaitEnds` |
| `logging` | 2 threads, 4 messages of 3 severities, one of them oversized, clock up to 3, 4 settings | `OneOrder`, `LoggersMadeOnce`, `PeriodRespected`, `SizeBounded`, `StatementEnds` |
| `date` | every day of 2003 to 2009, three times of day, gaps of 0, 1 and 365 days; or threads that keep their date over two days, with up to two failures to store it | `StampsSort`, `YearIsRight`, `CachedDateRight`, `ObjectsAccounted` |
| `sarray` | 2 arrays of element sizes 1 and 2, up to 2 units of elements, 10 of memory | `InBounds`, `VectorSemantics`, `NoStrayWrites`, `UndefinedOnlyByAliasing` |
| `registry` | 3 names in up to 4 registrations and 2 aliases, 2 factories for one class, one user | `AliasesAgree`, `EntriesOutliveUsers` |
| `async_logging_backlog`, `refcount_twice`, `date_calendar`, `registry_duplicates` | the same or smaller | violations, see section 6 |

The type invariants of `ThreadPool`, `BoundedBlockingQueue`, `AsyncLogging`, `RefCounted` (`RefTypeOK`) and `Synchronizer` are
theorems and are not checked again by a run. In `Registry`, `DateStore` and `SArray` the types are the first part of the invariant
that the proofs use.

### Bounds, and why they are enough

* `thread_pool`: two workers are needed for a wakeup to go to the wrong one, a third for a
  restart with `Init` after a stop; two tasks for one to be queued while the other runs; two
  clients for `Stop` to come between another client's push and its notification.
* `bounded_queue`: more producers than slots and more than one consumer, so that a
  woken thread finds its slot or element gone; two pushes each fill the queue three times.
  What a negative capacity does (it becomes a large `size_t`) is left to the theorems, where
  capacity and modulus are arbitrary.
* `async_logging`: two short messages or one long one fill a buffer; five messages fill more
  buffers than circulate, so that every kind of exchange and the null pointer happen.
  `DropLimit` is the code's 25: `FourBuffers` says that it is never reached, and TLC's and
  the proof's agreement that the branch is dead is the point.
* `counting`, references: three concurrent `Unref`s beside a holder who makes a new reference.
* `counting`, tasks: any subset of four tasks in each of two rounds, so that a second round
  meets every combination of counters the first one leaves.
* `logging`: two messages and a header exceed `RollSize`; a period is two seconds, so the clock crosses one
  boundary at least once and even and odd seconds both occur; `CheckEveryN` of two lets a write come
  late by one (reached) and not by two. Real values (1 GB, one day, 1024) only
  scale these. A FATAL message is among the four, so the process may end at any time. `Flush` asks three
  questions of the settings, and each of their answers occurs in one of the four: stderr only, nothing
  (a directory and no program name), files and stderr, the manager. One oversized message of the lowest
  severity is enough: its warning runs beside the messages that create the other loggers.
* `date`: two leap years, the years before, between and after them, and any first call, so that the
  table is in both of its states in every kind of year; the first and the last second of a day. All
  four-year cycles up to 2038, where `sec` overflows, are alike; the theorems cover every one of these days. For the cache, the times of day include the
  first second of a day, of an hour and of a minute, and seconds in between. Two failures (`MaxFailures`) let one thread fail twice,
  two threads once each, and a thread store its second object after it lost the first.
* `sarray`: a second array is what every kind of sharing needs. Elements of two units beside
  elements of one make casts in both directions; two elements are enough to cut a segment with a neighbour.
  `Spare` and the constant of `push_back` are 1 instead of 5: they only move the point at which an array moves.
* `registry`: an alias, its key and a name registered twice are three names and up to four entries.

### Fairness

Threads inside a call of the library are scheduled by the operating system: weak fairness of
their next step. `StatementEnds` needs more, strong fairness of `Flush`, because another
thread may take the mutex again and again; it is what a mutex of the platform gives
in practice, and it is stated at the action that acquires it. In the other modules acquisitions are weakly fair, because the
number of calls is bounded (tasks, pushes, rounds). `AsyncLogging`
assumes that `wait_for` returns, which it does after its timeout. Nothing obliges
a caller to log, to add tasks, to stop, to drop a reference or to destroy anything, and no spurious wakeup is assumed. Tasks
handed out by a `Synchronizer`'s coordinator are assumed to report: that is the
protocol of `Wait`.

## 4. Proofs

Each theorem holds for all values of the constants that satisfy the named `ASSUME`s of its
module: any sets of threads, tasks and messages, any capacity, any buffer and message sizes, any period and
any names. All are of the form `Spec => []P`, except the refinement and the four action properties `SizeBounded`,
`StampsSort`, `NoStrayWrites` and `UndefinedOnlyByAliasing`. None uses fairness. In every module the argument is the same: an invariant stronger than the
properties, a lemma for the initial states, one for each action, and the theorems as corollaries.

* `ThreadPoolProofs`. `TasksConserved`, `TakeNeverSleeps`, `StopDrainsQueue`, `WorkersGoneFirst`,
  `TerminationExplained`, `TypeCorrect`. The inductive invariant has four parts: *MutexInv* ties `mutex_` to the one worker inside
  the critical section (a worker between its wait and its take owns the mutex, so nobody changes
  the queue under it); *WorkerInv* ties program counters to the sets `cond_`, `joined` and
  `worker_threads_`; *DrainInv* says that once the last worker has left, the pool is stopped and its queue empty, and
  stays so until the next `Init`; *TaskInv* is conservation, with the tasks of the queue distinct. *JoinInv*, for
  `TerminationExplained`, says that the joined workers begin with the first and, inside the destructor, are
  exactly those before `next_join`, so that only the first `join()` there can throw.
* `BoundedBlockingQueueProofs`. `QueueSafe` (capacity and no lost wakeup) and `QueueIsChannel`
  (every step is a step of `Channel` or leaves it unchanged). The invariant adds to the
  types that a producer inside `Push` has a value it may push.
* `AsyncLoggingProofs`. `BuffersConserved`, `AssertionsHold`, `CrashExplained`. The key is that the four buffers
  split evenly: two on the loggers' side (*SharedInv*: `current_buf_`, and either `next_buf_` or one
  queued buffer), two on the consumer's (*LocalInv*: spares, or on their way to the file). Both
  the exchange and `Append` keep each side's number; from it follow the assertions, the bound of two
  on the backlog, and that lines 186 to 191 and 198 to 200 are dead. *FullInv* adds that a queued buffer
  had no room for some message. `NothingLost` is `MessagesConserved`: *ConservedInv* adds that the spare is empty, so that
  the message which caused the switch fits, and that a round refills only when all its buffers are in the file. It
  rests on what flattening a sequence of buffers does for one more buffer at the end (`FlattenAppend`: `Append`, the
  exchange) and at the front (`FlattenCons`: a write moves the first buffer to the file).
* `CountingProofs`, about the two components that count. `RefCounted`: `CountCorrect`, `HoldersSafe`, `SoleOwnership`. *SoleInv*: whoever was told
  `true` by `RefCountIsOne` is the only holder, and only a holder may make another.
  `Synchronizer`: `VerdictCorrect`, `NoLostWakeup`. *CountInv*: `finish_num_` and `fail_num_` are the
  cardinalities of the sets of tasks that have reported and failed in this round.
* `LoggingProofs`. `TypeCorrect`, `StoryCorrect` (`OneOrder`), `LoggersCorrect` (`LoggersMadeOnce`), `PeriodCorrect`
  (`PeriodRespected`), `SizeCorrect` (`SizeBounded`). *MutexInv*: whoever writes to a file, sends, or makes a
  logger holds `mutex`, and the holder does nothing else; so only the holder's message is partly given, which is
  what `PendingIn` adds to each file (`HolderGives`: the next write moves it from there to the file). *LoggerInv*: as
  long as the process runs a logger exists exactly if one was made, the holder has made those below its index, and whoever
  is to warn finds all it needs, so that a thread without `mutex` never makes one. *FileInv*: a file's period is that of its
  last roll, and the writes since the period ended are at most `count_`. The lemmas about one file
  (`RollFileIs`, `CheckPeriodIs`, `WriteUnlockedIs`) are operators only: a roll leaves a file of this second whether or
  not it was replaced, and a write counts, or leaves a file of the present period, and in no case one above the limit that
  was begun before this second.
* `RegistryProofs`. `AliasesCorrect` (`AliasesAgree`), `EntriesSafe` (`EntriesOutliveUsers`). *AliasInv*: names that were
  aliased stay in the map, so that only a later registration of one of them can part the two; *DeleteInv*: all entries have been deleted once, or none has, as
  the process has exited or not.
* `DateStoreProofs`. `YearCorrect` (`YearIsRight`), `StampsAreSorted` (`StampsSort`), `CacheCorrect` (`CachedDateRight`),
  `ObjectsCounted` (`ObjectsAccounted`), for every second from 2001 to the overflow in 2038. `YearIs` computes the
  year that the divisions of `HumanDate` give; `MonthAndDayIs` unfolds the month loop for both states of its table into
  the sums of month lengths, which grow with the day whatever February has, and that is why shifted months still sort.
  *DateInv*: the last date was computed with the table as it is now. `PartsStay` says that day, hour and minute do
  not change within themselves, so that a part which was right, and whose first second was not missed, is right.
  *ValueInv* (only running threads have a value, and none without a live key) makes the count of `ObjectsAccounted`
  inductive: a thread that exits takes its object along, whatever was lost before. Its bound on the singleton is not inductive
  as it stands; *TptrInv* leaves room in it for every running thread that has not called `Get` yet.
* `SArrayProofs`. `BoundsRespected` (`InBounds`), `VectorLike` (`VectorSemantics`), `WritesStay` (`NoStrayWrites`),
  `AliasingExplained` (`UndefinedOnlyByAliasing`), for any number of arrays, any sizes of elements, any spare room and any growth above
  zero: `push_back` on an empty array needs it. `InBounds` alone is not inductive. *WellFormed* adds that the units an array may write without
  moving (its *Room*) lie in the region it was given, and that memory which is gone has no owner. It is stated of any arrays, memory and
  regions, so that it can be shown before blocks get their new names: `ArrangeKeeps` and `ArrangedView` say
  that `Arrange` keeps it and that arrays whose memory lives find their elements unchanged. *Placed* is what an
  array needs to go on in its memory or in new memory: only its room was written. `Resized` gives it
  (`ResizedIs`), a write inside the capacity keeps it (`PlacedWrite`), and `ContinueKeeps` gets the invariant back
  from it. Each operation then has an *Outcome*: it fails with an *Excuse*, which is `UndefinedOnlyByAliasing` and also covers `CopyFrom` of the array's own pointers and iterators, or succeeds with
  the elements of a `std::vector` and leaves the other arrays (*Stays*, which is `NoStrayWrites`). For a cast the point is that
  a capacity divided by the new element size, rounded down, still holds the elements and ends within the old one (`AssignOutcome`).

Induction over data is avoided where it can be and done with sets where not: `NatSetInduction` is induction over the natural
numbers for a set, proved from the library's well-founded order, and carries the lemmas about `SelectIn`
(`OneOrder`) and `FlattenSeq` (`MessagesConserved`). Months are twelve, and their sum is unfolded.

### Only model-checked

Liveness (all `~>` properties and the fairness part of `ImplementsChannel`): out of the
prover's reach. Every invariant and every action property that a run checks is also a theorem.
The violations of section 6 are counterexamples of an instance and need no proof.

## 5. Mutants

For every property `PROJECT.json` names a faulty form of a definition (a dropped notification, a
test off by one, a missing reset, a lock not taken or not released) under which TLC finds that property
violated in the same instance: no property holds just because the model has no way to
violate it.

## 6. Findings

Each is a violation run of the unchanged model, with a counterexample.

1. **`AsyncLogging::Append` dereferences null when the consumer lags** (`async_logging.h:149`,
   `AppendSurvivesBacklog`). Two buffers filled between two exchanges suffice, and are necessary
   (`CrashOnlyWhenBothFull`, proved); the code that drops messages beyond 25 buffers is never
   reached (`FourBuffers`, proved).
2. **Two concurrent `Unref`s may both delete** (`refcount.h:50`, `DestroyedAtMostOnce`): the decision
   uses a second load instead of the result of `fetch_sub`.
3. **Many log lines and files carry a wrong date**, about 42 % of the days of 2003 (`logging.cc:301`, `DateIsRight`): the month loop
   starts with the length of February, so 29 January is stamped `0201` and 28 February `0231`. The stamps of a year still
   sort (`StampsSort`); the last day of a leap year is stamped as the first of the next year.
4. **A name can be registered twice** (`register.h:59`, `RegisteredOnce`): the `runtime_error` "already registered" is
   constructed and not thrown, the name denotes the last entry and the first is lost to look-ups. The same slip makes `AddAlias` (`:49`) silent
   about an alias that is taken, which it leaves alone (`AliasesAgree`), and `ThreadLocal` silent about failures (below).
   `GeneralFactory` keeps the first of two factories.

Other outcomes that the models reach, and that their properties describe rather than forbid:

* **`ThreadPool::Stop`, then destruction, aborts** (`thread_pool.h:98`): the early return skips `Join`,
  and the vector's joinable threads terminate the process. The exit handler of
  `test/thread_pool_test.cc` takes this path. So does `Join`, then destruction, whose
  own `Join` throws. `TerminatesOnlyIfMisused` shows that there is no third way.
* **The consumer of `AsyncLogging` may start before `stop_` has a value** (`async_logging.h:123`), or after an
  early `Stop`; its first assertion then fails (`crash = "assert in ConsumeLog"`).
* A FATAL message may never be written: `~LogMessageFatal` throws before the base's destructor
  writes it (`logging.cc:253`). The model has both outcomes; no document says which is meant.
* `ThreadLocal::Value` leaks an object in each call whose `pthread_setspecific` fails (`thread_local.h:34`), and
  in every call if the key could not be created (`ObjectsAccounted` counts them in `failures`).
* A class registered, or an unknown name looked up, before `logging.cc` is initialised dereferences the
  null `g_date` in `LOG`.
* `SArray::append` of an array to itself copies between overlapping ranges, and so may `CopyFrom` of a pointer into the array;
  `push_back` of an element of a full array, and `CopyFrom` of the array's own iterators, read freed memory
  (`UndefinedOnlyByAliasing`). `CopyFrom` of a pointer into the array never frees what it reads: what it copies fits the capacity.
* The comment of `SArray::resize` (`sarray.h:175`) says "If size <= capacity_, then only change the size. otherwise, append
  size - current_size entries, and then set new value to val". The code sets the new elements to `val` in both cases
  (lines 187-193), as `std::vector` does, and `VectorSemantics` holds of the code, not of the comment. It matters to arrays that share the
  memory: after `b = a; a.pop_back(); a.resize(1, 1)` the element of `b` has changed, within what `NoStrayWrites` allows.
* With `date.h`, a thread that makes no call in the first second of a day keeps yesterday's date
  (`CachedDateRight`).

## 7. Not modelled, and the plan

Left out of the modelled parts: the text and newline of a message; `InitLogging`,
which is the choice of settings; the stream's buffering, the symbolic link and the binary mode of `WriteOp`; the clock
standing still within one call on a file; `__REGISTER_OR_GET__`, whose body does not compile when it is
used; `const_list_` of `Register`, which always equals `entry_list_`; failures of `mkdir` and `opendir` in the constructor of `LogFile`,
which end the process as a failed open does; the pointers that `~AsyncLoggingManager` leaves non-null, which nobody reads any
more; printing of arrays. Left out altogether: `Status`, `Timer`, file operations, `protobuf_op` and the small helpers, which
are values or wrappers of system and library calls on one thread; MurmurHash3, whose 64-bit
arithmetic is out of reach of bounded checking except on toy widths; vendored and build files.

Done, in this order: `BlockingQueue` and `ThreadPool`; `BoundedBlockingQueue` against `Channel`;
`AsyncLogging`; `RefCounted`; `Synchronizer`; `LogFile` and `Logging`; `Date`; the proofs about the first five;
`SArray`; `Registry`; `ThreadLocal` and `DateStore`; `AsyncLoggingManager` in `Logging`; the proofs about `Registry`,
`DateStore`, `Logging`, `MessagesConserved`, and `SArray`.

Next: several coordinators in one `Synchronizer`, whose `notify_one` may wake the wrong one.
