--------------------------- MODULE ThreadPoolProofs ---------------------------
(***************************************************************************)
(* Safety of ThreadPool for any sets of clients and tasks, any number of   *)
(* workers and any sequence of Init, AddTask, Stop, Join and destruction.  *)
(***************************************************************************)
EXTENDS ThreadPool, TLAPS, SequenceTheorems

Holding == {"test", "check", "take"}

\* mutex_ is held exactly by the worker that is between its lock and its
\* unlock; what such a worker has found out about the queue is still true.
MutexInv == /\ \A w \in Workers : worker[w] \in Holding <=> mutex_ = w
            /\ \A w \in Workers : worker[w] = "check" => stop_ \/ ready_tasks_ # << >>
            /\ WaitTakeNeverSleeps

\* Workers exist in the order of the vector; the sleeping ones are in cond_.
WorkerInv == /\ \A w \in Workers : worker[w] = "none" <=> w \notin Spawned
             /\ \A w \in Workers : w \in cond_ <=> worker[w] = "asleep"
             /\ \A w \in joined : worker[w] = "exited"
             /\ fate = "destroyed" => Spawned \subseteq joined

\* The last worker leaves only a stopped pool with an empty queue, and it
\* stays both until Init.
DrainInv == worker_threads_ > 0 /\ (\A w \in Spawned : worker[w] = "exited")
                => stop_ /\ ready_tasks_ = << >>

Inv == TypeOK /\ MutexInv /\ WorkerInv /\ DrainInv

\* The initial states satisfy the invariant (the constructor).
LEMMA InitInv == PoolInit => Inv
  BY ThreadAssumption
  DEF PoolInit, Inv, TypeOK, MutexInv, WorkerInv, DrainInv, WaitTakeNeverSleeps,
      Holding, Workers, Spawned, Queue!QueueInit

\* Spawned workers are workers.
LEMMA SpawnedWorkers == TypeOK => Spawned \subseteq Workers
  BY ThreadAssumption DEF TypeOK, Spawned, Workers

\* A worker takes mutex_ only when nobody has it (line 67).
LEMMA WorkerLockInv == ASSUME Inv, NEW w \in Workers, WorkerLock(w) PROVE Inv'
  BY ThreadAssumption
  DEF Inv, TypeOK, MutexInv, WorkerInv, DrainInv, WaitTakeNeverSleeps, Holding,
      Workers, Spawned, clientVars, ownerVars, queueVars, WorkerLock, At

\* A worker falls asleep, and gives up mutex_, only if the pool runs and the
\* queue is empty (lines 68 to 70).
LEMMA WorkerTestInv == ASSUME Inv, NEW w \in Workers, WorkerTest(w) PROVE Inv'
<1> USE ThreadAssumption
    DEF Inv, TypeOK, MutexInv, WorkerInv, DrainInv, WaitTakeNeverSleeps, Holding,
        Workers, Spawned, clientVars, ownerVars, queueVars, At, Queue!Empty
<1>1. CASE stop_ \/ ready_tasks_ # << >>
  <2>1. /\ worker' = [worker EXCEPT ![w] = "check"]
        /\ worker[w] = "test"
        /\ UNCHANGED <<mutex_, cond_, stop_, ready_tasks_, queue_sleepers, worker_threads_,
                       task, client, future, owner, next_join, joined, fate>>
    BY <1>1 DEF WorkerTest
  <2>2. TypeOK'
    BY <2>1
  <2>3. MutexInv'
    BY <1>1, <2>1
  <2>4. WorkerInv'
    BY <2>1
  <2>5. DrainInv'
    BY <2>1
  <2> QED
    BY <2>2, <2>3, <2>4, <2>5
<1>2. CASE ~(stop_ \/ ready_tasks_ # << >>)
  <2>1. /\ worker' = [worker EXCEPT ![w] = "asleep"]
        /\ cond_' = cond_ \cup {w}
        /\ mutex_' = NoThread
        /\ worker[w] = "test"
        /\ UNCHANGED <<stop_, ready_tasks_, queue_sleepers, worker_threads_, task, client,
                       future, owner, next_join, joined, fate>>
    BY <1>2 DEF WorkerTest
  <2>2. TypeOK'
    BY <2>1
  <2>3. MutexInv'
    BY <2>1
  <2>4. WorkerInv'
    BY <2>1
  <2>5. DrainInv'
    BY <2>1, <1>2
  <2> QED
    BY <2>2, <2>3, <2>4, <2>5
<1> QED
  BY <1>1, <1>2

\* A worker leaves only a stopped pool with an empty queue, and goes on to
\* WaitTake only if there is a task (line 71).
LEMMA WorkerCheckInv == ASSUME Inv, NEW w \in Workers, WorkerCheck(w) PROVE Inv'
  BY ThreadAssumption
  DEF Inv, TypeOK, MutexInv, WorkerInv, DrainInv, WaitTakeNeverSleeps, Holding,
      Workers, Spawned, clientVars, ownerVars, queueVars, WorkerCheck, At, Queue!Empty

\* WaitTake removes one task, which no other worker has been promised (line 72).
LEMMA WorkerTakeInv == ASSUME Inv, NEW w \in Workers, WorkerTake(w) PROVE Inv'
<1> USE ThreadAssumption
    DEF Inv, TypeOK, MutexInv, WorkerInv, DrainInv, WaitTakeNeverSleeps, Holding,
        Workers, Spawned, clientVars, ownerVars, queueVars, At
<1>1. ready_tasks_ # << >>
  BY DEF WorkerTake
<1>2. PICK t \in Tasks : /\ ready_tasks_' = Tail(ready_tasks_)
                        /\ task' = [task EXCEPT ![w] = t]
                        /\ worker' = [worker EXCEPT ![w] = "run"]
                        /\ mutex_' = NoThread
                        /\ worker[w] = "take"
                        /\ UNCHANGED <<queue_sleepers, stop_, cond_, worker_threads_, client,
                                       future, owner, next_join, joined, fate>>
  BY <1>1 DEF WorkerTake, Queue!Empty, Queue!WaitTakeReturns
<1>3. ready_tasks_' \in Seq(Tasks)
  BY <1>1, <1>2, HeadTailProperties
<1>4. TypeOK'
  BY <1>2, <1>3
<1>5. MutexInv'
  BY <1>2
<1>6. WorkerInv'
  BY <1>2
<1>7. DrainInv'
  BY <1>2
<1> QED
  BY <1>4, <1>5, <1>6, <1>7

\* Running a task leaves mutex_ and the queue alone (line 74).
LEMMA WorkerRunInv == ASSUME Inv, NEW w \in Workers, WorkerRun(w) PROVE Inv'
<1> USE ThreadAssumption
    DEF Inv, TypeOK, MutexInv, WorkerInv, DrainInv, WaitTakeNeverSleeps, Holding,
        Workers, Spawned, clientVars, ownerVars, queueVars, At, WorkerRun
<1>1. TypeOK'
  OBVIOUS
<1>2. MutexInv'
  OBVIOUS
<1>3. WorkerInv'
  OBVIOUS
<1>4. DrainInv'
  OBVIOUS
<1> QED
  BY <1>1, <1>2, <1>3, <1>4

\* Waking sleepers, one or all, sends them back to the lock.
LEMMA WakeInv ==
  ASSUME Inv, NEW W \in SUBSET cond_, Wake(W), stop_' = stop_,
         client' \in [Clients -> {"idle", "notify_one", "notify_all"}],
         owner' \in {"idle", "join", "dtor_notify", "dtor_join"},
         next_join' \in 1..(MaxThreads + 1),
         UNCHANGED <<mutex_, queueVars, worker_threads_, task, future, joined, fate>>
  PROVE  Inv'
<1> USE ThreadAssumption
    DEF Inv, TypeOK, MutexInv, WorkerInv, DrainInv, WaitTakeNeverSleeps, Holding,
        Workers, Spawned, queueVars
<1>1. \A w \in Workers : worker'[w] = IF w \in W THEN "lock" ELSE worker[w]
  BY DEF Wake
<1>2. \A w \in W : w \in Workers /\ worker[w] = "asleep"
  OBVIOUS
<1>3. TypeOK'
  BY DEF Wake
<1>4. MutexInv'
  BY <1>1, <1>2
<1>5. WorkerInv'
  BY <1>1, <1>2 DEF Wake
<1>6. DrainInv'
  <2> SUFFICES ASSUME (worker_threads_ > 0)', \A w \in Spawned : worker'[w] = "exited"
               PROVE  stop_ /\ ready_tasks_ = << >>
    OBVIOUS
  <2>1. \A w \in Spawned : w \in Workers
    BY SpawnedWorkers
  <2>2. \A w \in Spawned : worker[w] = "exited"
    BY <1>1, <2>1
  <2> QED
    BY <2>2
<1> QED
  BY <1>3, <1>4, <1>5, <1>6

\* AddTask pushes only while no worker holds mutex_ and the pool is not
\* stopped, so a drained pool stays drained (lines 114 to 120).
LEMMA AddTaskInv == ASSUME Inv, NEW c \in Clients, NEW t \in Tasks, AddTask(c, t) PROVE Inv'
<1> USE ThreadAssumption
    DEF Inv, TypeOK, MutexInv, WorkerInv, DrainInv, WaitTakeNeverSleeps, Holding,
        Workers, Spawned, clientVars, ownerVars, queueVars
<1>1. CASE stop_
  BY <1>1 DEF AddTask
<1>2. CASE ~stop_
  <2>1. /\ ready_tasks_' = Append(ready_tasks_, t)
        /\ queue_sleepers' = {}
        /\ future' = [future EXCEPT ![t] = "pending"]
        /\ client' = [client EXCEPT ![c] = "notify_one"]
        /\ mutex_ = NoThread
        /\ UNCHANGED <<stop_, mutex_, cond_, worker_threads_, worker, task,
                       owner, next_join, joined, fate>>
    BY <1>2 DEF AddTask, Queue!Push
  <2>2. ready_tasks_' \in Seq(Tasks) /\ ready_tasks_' # << >>
    BY <2>1, AppendProperties
  <2>3. TypeOK'
    BY <2>1, <2>2
  <2>4. MutexInv'
    BY <2>1, <2>2
  <2>5. WorkerInv'
    BY <2>1
  <2>6. DrainInv'
    BY <1>2, <2>1
  <2> QED
    BY <2>3, <2>4, <2>5, <2>6
<1> QED
  BY <1>1, <1>2

\* Setting stop_ to true disturbs nothing a worker relies on (lines 88, 89).
LEMMA StopInv ==
  ASSUME Inv, stop_' = TRUE,
         client' \in [Clients -> {"idle", "notify_one", "notify_all"}],
         owner' \in {"idle", "join", "dtor_notify", "dtor_join"},
         UNCHANGED <<mutex_, cond_, queueVars, worker_threads_, worker, task, future,
                     next_join, joined, fate>>
  PROVE  Inv'
  BY ThreadAssumption
  DEF Inv, TypeOK, MutexInv, WorkerInv, DrainInv, WaitTakeNeverSleeps, Holding,
      Workers, Spawned, queueVars

\* Init starts new workers at the lock; with every earlier worker gone, nobody
\* depends on the value of stop_ that it overwrites (lines 59 to 78).
LEMMA InitStepInv == ASSUME Inv, NEW n \in ThreadCounts, Init(n) PROVE Inv'
<1> USE ThreadAssumption
    DEF Inv, TypeOK, MutexInv, WorkerInv, DrainInv, WaitTakeNeverSleeps, Holding,
        Workers, Spawned, clientVars, ownerVars, queueVars, Init
<1>1. n \in Nat \ {0} /\ worker_threads_ \in Nat /\ MaxThreads \in Nat
  OBVIOUS
<1>2. \A w \in Workers : worker'[w] = IF w \in (worker_threads_ + 1)..(worker_threads_ + n)
                                       THEN "lock" ELSE worker[w]
  OBVIOUS
<1>3. /\ \A w \in (worker_threads_ + 1)..(worker_threads_ + n) : worker[w] = "none"
      /\ stop_ => \A w \in Workers : worker[w] \in {"none", "exited"}
  BY <1>1
<1>4. TypeOK'
  <2>1. worker_threads_' \in 0..MaxThreads
    BY <1>1
  <2>2. joined' \subseteq 1..worker_threads_'
    BY <1>1
  <2>3. worker' \in [Workers -> {"none", "lock", "test", "asleep", "check", "take", "run", "exited"}]
    OBVIOUS
  <2>4. /\ stop_' \in BOOLEAN
        /\ UNCHANGED <<mutex_, cond_, ready_tasks_, queue_sleepers, task, client, future, owner,
                       next_join, fate>>
    OBVIOUS
  <2> QED
    BY <2>1, <2>2, <2>3, <2>4
<1>5. MutexInv'
  BY <1>2, <1>3
<1>6. WorkerInv'
  <2>1. \A w \in Workers : worker'[w] = "none" <=> w \notin Spawned'
    BY <1>1, <1>2, <1>3
  <2>2. \A w \in Workers : w \in cond_' <=> worker'[w] = "asleep"
    BY <1>2, <1>3
  <2>3. \A w \in joined' : worker'[w] = "exited"
    BY <1>1, <1>2
  <2>4. fate' # "destroyed"
    BY DEF Callable
  <2> QED
    BY <2>1, <2>2, <2>3, <2>4
<1>7. DrainInv'
  <2>1. worker_threads_ + 1 \in Workers /\ worker_threads_ + 1 \in Spawned'
    BY <1>1
  <2>2. worker'[worker_threads_ + 1] = "lock"
    BY <1>1, <1>2, <2>1
  <2> QED
    BY <2>1, <2>2
<1> QED
  BY <1>4, <1>5, <1>6, <1>7

\* Joining waits for the worker to be gone (line 82).
LEMMA JoinWorkerInv ==
  ASSUME Inv, JoinWorker,
         UNCHANGED <<stop_, mutex_, cond_, queueVars, worker_threads_, worker, task,
                     clientVars, owner, fate>>
  PROVE  Inv'
  BY ThreadAssumption
  DEF Inv, TypeOK, MutexInv, WorkerInv, DrainInv, WaitTakeNeverSleeps, Holding,
      Workers, Spawned, clientVars, queueVars, JoinWorker

\* The end of Join, and of the object's life, happens to the owner alone.
LEMMA OwnerInv ==
  ASSUME Inv, owner' \in {"idle", "join", "dtor_notify", "dtor_join"},
         next_join' \in 1..(MaxThreads + 1),
         fate' \in {"alive", "destroyed", "terminated"},
         fate' = "destroyed" => Spawned \subseteq joined,
         UNCHANGED <<stop_, mutex_, cond_, queueVars, worker_threads_, worker, task,
                     clientVars, joined>>
  PROVE  Inv'
  BY ThreadAssumption
  DEF Inv, TypeOK, MutexInv, WorkerInv, DrainInv, WaitTakeNeverSleeps, Holding,
      Workers, Spawned, clientVars, queueVars

\* Every step preserves the invariant.
LEMMA NextInv == Inv /\ [Next]_vars => Inv'
<1> SUFFICES ASSUME Inv, [Next]_vars PROVE Inv'
  OBVIOUS
<1>1. ASSUME NEW w \in Workers, WorkerStep(w) PROVE Inv'
  BY <1>1, WorkerLockInv, WorkerTestInv, WorkerCheckInv, WorkerTakeInv, WorkerRunInv DEF WorkerStep
<1>2. ASSUME NEW w \in Workers, SpuriousWakeup(w) PROVE Inv'
  <2>1. {w} \subseteq cond_
    BY <1>2 DEF SpuriousWakeup, At, Inv, WorkerInv
  <2> QED
    BY <1>2, <2>1, WakeInv DEF SpuriousWakeup, Inv, TypeOK, clientVars, ownerVars
<1>3. ASSUME NEW c \in Clients, NEW t \in Tasks, AddTask(c, t) PROVE Inv'
  BY <1>3, AddTaskInv
<1>4. ASSUME NEW c \in Clients, NotifyOne(c) PROVE Inv'
  <2>1. client' \in [Clients -> {"idle", "notify_one", "notify_all"}]
    BY <1>4 DEF NotifyOne, Inv, TypeOK
  <2>2. PICK W \in SUBSET cond_ : Wake(W)
    <3>1. CASE cond_ = {}
      <4>1. worker' = worker /\ cond_' = cond_
        BY <1>4, <3>1 DEF NotifyOne
      <4>2. worker = [w \in Workers |-> worker[w]]
        BY DEF Inv, TypeOK
      <4>3. Wake({})
        BY <3>1, <4>1, <4>2 DEF Wake
      <4> QED
        BY <4>3
    <3>2. CASE cond_ # {}
      BY <1>4, <3>2 DEF NotifyOne
    <3> QED
      BY <3>1, <3>2
  <2> QED
    BY <1>4, <2>1, <2>2, WakeInv DEF NotifyOne, Inv, TypeOK, ownerVars
<1>5. ASSUME NEW c \in Clients, Stop(c) PROVE Inv'
  BY <1>5, StopInv DEF Stop, Inv, TypeOK, ownerVars
<1>6. ASSUME NEW c \in Clients, NotifyAll(c) PROVE Inv'
  <2>1. client' \in [Clients -> {"idle", "notify_one", "notify_all"}]
    BY <1>6 DEF NotifyAll, Inv, TypeOK
  <2> QED
    BY <1>6, <2>1, WakeInv DEF NotifyAll, Inv, TypeOK, ownerVars
<1>7. ASSUME NEW n \in ThreadCounts, Init(n) PROVE Inv'
  BY <1>7, InitStepInv
<1>8. CASE Join
  BY <1>8, ThreadAssumption, OwnerInv DEF Join, Inv, TypeOK, WorkerInv
<1>9. CASE JoinStep
  <2>1. CASE JoinWorker /\ UNCHANGED owner
    BY <1>9, <2>1, JoinWorkerInv DEF JoinStep
  <2>2. CASE owner' = "idle" /\ UNCHANGED <<joined, next_join>>
    BY <1>9, <2>2, OwnerInv DEF JoinStep, Inv, TypeOK, WorkerInv
  <2> QED
    BY <1>9, <2>1, <2>2 DEF JoinStep
<1>10. CASE Destructor
  <2>1. CASE stop_
    BY <1>10, <2>1, OwnerInv DEF Destructor, MembersDestroyed, Inv, TypeOK
  <2>2. CASE ~stop_
    BY <1>10, <2>2, StopInv DEF Destructor, Inv, TypeOK, clientVars
  <2> QED
    BY <2>1, <2>2
<1>11. CASE DestructorNotify
  BY <1>11, ThreadAssumption, WakeInv DEF DestructorNotify, Inv, TypeOK, clientVars
<1>12. CASE DestructorJoin
  <2>1. CASE JoinWorker /\ UNCHANGED fate
    BY <1>12, <2>1, JoinWorkerInv DEF DestructorJoin
  <2>2. CASE fate' = "terminated" /\ UNCHANGED <<joined, next_join>>
    BY <1>12, <2>2, OwnerInv DEF DestructorJoin, Inv, TypeOK
  <2>3. CASE fate' = MembersDestroyed /\ UNCHANGED <<joined, next_join>>
    BY <1>12, <2>3, OwnerInv DEF DestructorJoin, MembersDestroyed, Inv, TypeOK
  <2> QED
    BY <1>12, <2>1, <2>2, <2>3 DEF DestructorJoin
<1>13. CASE UNCHANGED vars
  BY <1>13 DEF vars, clientVars, ownerVars, queueVars, Inv, TypeOK, MutexInv, WorkerInv,
               DrainInv, WaitTakeNeverSleeps, Spawned
<1> QED
  BY <1>1, <1>2, <1>3, <1>4, <1>5, <1>6, <1>7, <1>8, <1>9, <1>10, <1>11, <1>12, <1>13
  DEF Next, Gone

\* The invariant holds in every reachable state.
LEMMA InvHolds == Spec => []Inv
  BY InitInv, NextInv, PTL DEF Spec

\* The type invariant the run checks.
THEOREM TypeCorrect == Spec => []TypeOK
  BY InvHolds, PTL DEF Inv

\* WaitTake at line 72, called with mutex_ held, always finds a task.
THEOREM TakeNeverSleeps == Spec => []WaitTakeNeverSleeps
  BY InvHolds, PTL DEF Inv, MutexInv

\* A pool whose workers have all gone has no task left in its queue.
THEOREM StopDrainsQueue == Spec => []StopDrains
<1>1. Inv => StopDrains
  BY DEF Inv, DrainInv, StopDrains
<1> QED
  BY <1>1, InvHolds, PTL

\* No worker is alive when the destructor has returned.
THEOREM WorkersGoneFirst == Spec => []NoWorkerOutlivesPool
<1>1. Inv => NoWorkerOutlivesPool
  BY DEF Inv, WorkerInv, NoWorkerOutlivesPool
<1> QED
  BY <1>1, InvHolds, PTL

------------------------------------------------------------------------------
(* Where the tasks are.                                                     *)

InQueue(t) == \E i \in DOMAIN ready_tasks_ : ready_tasks_[i] = t

QueuedOnce == \A i, j \in DOMAIN ready_tasks_ : ready_tasks_[i] = ready_tasks_[j] => i = j
QueuedPending == \A i \in DOMAIN ready_tasks_ : future[ready_tasks_[i]] = "pending"
RunsIfHeld == \A w \in Workers : worker[w] = "run" <=> task[w] # NoTask
HeldPending == \A w \in Workers : task[w] # NoTask => future[task[w]] = "pending"
HeldNotQueued == \A w \in Workers, i \in DOMAIN ready_tasks_ : ready_tasks_[i] # task[w]
HeldOnce == \A v, w \in Workers : task[v] = task[w] /\ task[w] # NoTask => v = w
PendingKept == \A t \in Tasks : future[t] = "pending"
                                    => InQueue(t) \/ \E w \in Workers : task[w] = t

\* Queued and held tasks are pending, no task is in two places, and every
\* pending task is in one.
TaskInv == QueuedOnce /\ QueuedPending /\ RunsIfHeld /\ HeldPending /\ HeldNotQueued
              /\ HeldOnce /\ PendingKept

\* AddTask puts a new task at the end of the queue.
LEMMA AddTaskTasks ==
  ASSUME Inv, TaskInv, NEW c \in Clients, NEW t \in Tasks, AddTask(c, t)
  PROVE  TaskInv'
<1> USE ThreadAssumption DEF Inv, TypeOK
<1>1. CASE stop_
  <2>1. /\ future' = [future EXCEPT ![t] = "rejected"]
        /\ future[t] = "none"
        /\ UNCHANGED <<ready_tasks_, worker, task>>
    BY <1>1 DEF AddTask, queueVars
  <2> QED
    BY <2>1 DEF TaskInv, QueuedOnce, QueuedPending, RunsIfHeld, HeldPending, HeldNotQueued,
                HeldOnce, PendingKept, InQueue
<1>2. CASE ~stop_
  <2>1. /\ ready_tasks_' = Append(ready_tasks_, t)
        /\ future' = [future EXCEPT ![t] = "pending"]
        /\ future[t] = "none"
        /\ UNCHANGED <<worker, task>>
    BY <1>2 DEF AddTask, Queue!Push
  <2> DEFINE n == Len(ready_tasks_)
  <2>2. /\ n \in Nat
        /\ DOMAIN ready_tasks_ = 1..n
        /\ DOMAIN ready_tasks_' = 1..(n + 1)
        /\ \A i \in 1..n : ready_tasks_'[i] = ready_tasks_[i] /\ ready_tasks_[i] \in Tasks
        /\ ready_tasks_'[n + 1] = t
    BY <2>1
  <2> HIDE DEF n
  <2>3. \A i \in 1..n : ready_tasks_[i] # t
    BY <2>1, <2>2 DEF TaskInv, QueuedPending
  <2>4. \A w \in Workers : task[w] # t
    BY <2>1 DEF TaskInv, HeldPending
  <2>5. QueuedOnce'
    BY <2>2, <2>3 DEF TaskInv, QueuedOnce
  <2>6. QueuedPending'
    BY <2>1, <2>2, <2>3 DEF TaskInv, QueuedPending
  <2>7. RunsIfHeld' /\ HeldOnce'
    BY <2>1 DEF TaskInv, RunsIfHeld, HeldOnce
  <2>8. HeldPending'
    BY <2>1, <2>4 DEF TaskInv, HeldPending
  <2>9. HeldNotQueued'
    BY <2>1, <2>2, <2>4 DEF TaskInv, HeldNotQueued
  <2>10. PendingKept'
    <3> SUFFICES ASSUME NEW s \in Tasks, future'[s] = "pending"
                 PROVE  InQueue(s)' \/ \E w \in Workers : task'[w] = s
      BY DEF PendingKept
    <3>1. CASE s = t
      BY <2>2, <3>1 DEF InQueue
    <3>2. CASE s # t
      <4>1. InQueue(s) \/ \E w \in Workers : task[w] = s
        BY <2>1, <3>2 DEF TaskInv, PendingKept
      <4> QED
        BY <2>1, <2>2, <4>1 DEF InQueue
    <3> QED
      BY <3>1, <3>2
  <2> QED
    BY <2>5, <2>6, <2>7, <2>8, <2>9, <2>10 DEF TaskInv
<1> QED
  BY <1>1, <1>2

\* WaitTake moves the task at the head of the queue into a worker's hands.
LEMMA WorkerTakeTasks ==
  ASSUME Inv, TaskInv, NEW w \in Workers, WorkerTake(w)
  PROVE  TaskInv'
<1> USE ThreadAssumption DEF Inv, TypeOK
<1>1. ready_tasks_ # << >>
  BY DEF WorkerTake, MutexInv, WaitTakeNeverSleeps, At
<1>2. /\ ready_tasks_' = Tail(ready_tasks_)
      /\ task' = [task EXCEPT ![w] = Head(ready_tasks_)]
      /\ worker' = [worker EXCEPT ![w] = "run"]
      /\ worker[w] = "take"
      /\ UNCHANGED future
  BY <1>1 DEF WorkerTake, Queue!Empty, Queue!WaitTakeReturns, At, clientVars
<1> DEFINE n == Len(ready_tasks_)
           h == Head(ready_tasks_)
<1>3. /\ n \in Nat \ {0}
      /\ DOMAIN ready_tasks_ = 1..n
      /\ DOMAIN ready_tasks_' = 1..(n - 1)
      /\ \A i \in 1..(n - 1) : i + 1 \in 1..n /\ ready_tasks_'[i] = ready_tasks_[i + 1]
      /\ 1 \in 1..n
      /\ h = ready_tasks_[1]
      /\ h \in Tasks
  BY <1>1, <1>2, HeadTailProperties, EmptySeq, LenProperties
<1> HIDE DEF n, h
<1>4. \A v \in Workers : task'[v] = IF v = w THEN h ELSE task[v]
  BY <1>2 DEF h
<1>5. h # NoTask /\ future[h] = "pending"
  BY <1>3 DEF TaskInv, QueuedPending
<1>6. \A v \in Workers : task[v] # h
  BY <1>3 DEF TaskInv, HeldNotQueued
<1>7. \A i \in 1..(n - 1) : ready_tasks_'[i] # h
  <2> SUFFICES ASSUME NEW i \in 1..(n - 1) PROVE ready_tasks_[i + 1] # ready_tasks_[1]
    BY <1>3
  <2>1. i + 1 # 1
    BY <1>3
  <2> QED
    BY <1>3, <2>1 DEF TaskInv, QueuedOnce
<1>8. QueuedOnce'
  <2> SUFFICES ASSUME NEW i \in 1..(n - 1), NEW j \in 1..(n - 1),
                      ready_tasks_[i + 1] = ready_tasks_[j + 1]
               PROVE  i = j
    BY <1>3 DEF QueuedOnce
  <2>1. i + 1 = j + 1
    BY <1>3 DEF TaskInv, QueuedOnce
  <2> QED
    BY <1>3, <2>1
<1>9. QueuedPending'
  BY <1>2, <1>3 DEF TaskInv, QueuedPending
<1>10. RunsIfHeld'
  BY <1>2, <1>4, <1>5 DEF TaskInv, RunsIfHeld
<1>11. HeldPending'
  BY <1>2, <1>4, <1>5 DEF TaskInv, HeldPending
<1>12. HeldNotQueued'
  BY <1>3, <1>4, <1>7 DEF TaskInv, HeldNotQueued
<1>13. HeldOnce'
  BY <1>4, <1>6 DEF TaskInv, HeldOnce
<1>14. PendingKept'
  <2> SUFFICES ASSUME NEW t \in Tasks, future[t] = "pending", t # h
               PROVE  InQueue(t)' \/ \E v \in Workers : task'[v] = t
    BY <1>2, <1>4 DEF PendingKept
  <2>1. CASE \E v \in Workers : task[v] = t
    <3>1. PICK v \in Workers : task[v] = t
      BY <2>1
    <3>2. v # w
      BY <1>2, <3>1 DEF TaskInv, RunsIfHeld
    <3> QED
      BY <1>4, <3>1, <3>2
  <2>2. CASE InQueue(t)
    <3>1. PICK i \in 1..n : ready_tasks_[i] = t
      BY <1>3, <2>2 DEF InQueue
    <3>2. i # 1
      BY <1>3, <3>1
    <3>3. i - 1 \in 1..(n - 1) /\ (i - 1) + 1 = i
      BY <1>3, <3>2
    <3>4. ready_tasks_'[i - 1] = t
      BY <1>3, <3>1, <3>3
    <3> QED
      BY <1>3, <3>3, <3>4 DEF InQueue
  <2> QED
    BY <2>1, <2>2 DEF TaskInv, PendingKept
<1> QED
  BY <1>8, <1>9, <1>10, <1>11, <1>12, <1>13, <1>14 DEF TaskInv

\* A worker that has run its task no longer has it.
LEMMA WorkerRunTasks ==
  ASSUME Inv, TaskInv, NEW w \in Workers, WorkerRun(w)
  PROVE  TaskInv'
<1> USE ThreadAssumption DEF Inv, TypeOK
<1> DEFINE d == task[w]
<1>1. /\ future' = [future EXCEPT ![d] = "ready"]
      /\ task' = [task EXCEPT ![w] = NoTask]
      /\ worker' = [worker EXCEPT ![w] = "lock"]
      /\ worker[w] = "run"
      /\ UNCHANGED ready_tasks_
  BY DEF WorkerRun, At, queueVars
<1>2. d \in Tasks
  BY <1>1 DEF TaskInv, RunsIfHeld
<1> HIDE DEF d
<1>3. \A v \in Workers : task'[v] = IF v = w THEN NoTask ELSE task[v]
  BY <1>1
<1>4. QueuedOnce'
  BY <1>1 DEF TaskInv, QueuedOnce
<1>5. QueuedPending'
  BY <1>1, <1>2 DEF TaskInv, QueuedPending, HeldNotQueued, d
<1>6. RunsIfHeld'
  BY <1>1, <1>3 DEF TaskInv, RunsIfHeld
<1>7. HeldPending'
  BY <1>1, <1>2, <1>3 DEF TaskInv, HeldPending, HeldOnce, d
<1>8. HeldNotQueued'
  BY <1>1, <1>3 DEF TaskInv, HeldNotQueued
<1>9. HeldOnce'
  BY <1>3 DEF TaskInv, HeldOnce
<1>10. PendingKept'
  <2> SUFFICES ASSUME NEW t \in Tasks, future'[t] = "pending"
               PROVE  InQueue(t)' \/ \E v \in Workers : task'[v] = t
    BY DEF PendingKept
  <2>1. t # d /\ future[t] = "pending"
    BY <1>1, <1>2
  <2>2. InQueue(t) \/ \E v \in Workers : task[v] = t
    BY <2>1 DEF TaskInv, PendingKept
  <2> QED
    BY <1>1, <1>3, <2>1, <2>2 DEF InQueue, d
<1> QED
  BY <1>4, <1>5, <1>6, <1>7, <1>8, <1>9, <1>10 DEF TaskInv

\* The other steps move no task: no worker starts or stops running one.
LEMMA OtherTasks ==
  ASSUME TaskInv, UNCHANGED <<ready_tasks_, task, future>>,
         \A w \in Workers : worker'[w] = "run" <=> worker[w] = "run"
  PROVE  TaskInv'
  BY DEF TaskInv, QueuedOnce, QueuedPending, RunsIfHeld, HeldPending, HeldNotQueued,
         HeldOnce, PendingKept, InQueue

\* Waking moves only sleepers.
LEMMA WakeTasks ==
  ASSUME Inv, NEW W \in SUBSET cond_, Wake(W)
  PROVE  \A w \in Workers : worker'[w] = "run" <=> worker[w] = "run"
  BY DEF Inv, WorkerInv, Wake

\* Every accepted task is in exactly one place until its future is ready.
THEOREM TasksConserved == Spec => []TaskConservation
<1>1. PoolInit => TaskInv
  BY ThreadAssumption
  DEF PoolInit, Queue!QueueInit, TaskInv, QueuedOnce, QueuedPending, RunsIfHeld, HeldPending,
      HeldNotQueued, HeldOnce, PendingKept, InQueue
<1>2. Inv /\ TaskInv /\ [Next]_vars => TaskInv'
  <2> SUFFICES ASSUME Inv, TaskInv, [Next]_vars PROVE TaskInv'
    OBVIOUS
  <2>1. ASSUME NEW w \in Workers, WorkerStep(w) PROVE TaskInv'
    <3>1. CASE WorkerLock(w) \/ WorkerTest(w) \/ WorkerCheck(w)
      <4>1. UNCHANGED <<ready_tasks_, task, future>>
        BY <3>1 DEF WorkerLock, WorkerTest, WorkerCheck, queueVars, clientVars
      <4>2. \A v \in Workers : worker'[v] = "run" <=> worker[v] = "run"
        BY <3>1 DEF WorkerLock, WorkerTest, WorkerCheck, At, Inv, TypeOK
      <4> QED
        BY <4>1, <4>2, OtherTasks
    <3> QED
      BY <2>1, <3>1, WorkerTakeTasks, WorkerRunTasks DEF WorkerStep
  <2>2. ASSUME NEW w \in Workers, SpuriousWakeup(w) PROVE TaskInv'
    <3>1. {w} \in SUBSET cond_
      BY <2>2 DEF SpuriousWakeup, At, Inv, WorkerInv
    <3> QED
      BY <2>2, <3>1, WakeTasks, OtherTasks DEF SpuriousWakeup, queueVars, clientVars
  <2>3. ASSUME NEW c \in Clients, NEW t \in Tasks, AddTask(c, t) PROVE TaskInv'
    BY <2>3, AddTaskTasks
  <2>4. ASSUME NEW c \in Clients, NotifyOne(c) PROVE TaskInv'
    <3>1. UNCHANGED <<ready_tasks_, task, future>>
      BY <2>4 DEF NotifyOne, queueVars
    <3>2. \A w \in Workers : worker'[w] = "run" <=> worker[w] = "run"
      BY <2>4, WakeTasks DEF NotifyOne
    <3> QED
      BY <3>1, <3>2, OtherTasks
  <2>5. ASSUME NEW c \in Clients, Stop(c) PROVE TaskInv'
    BY <2>5, OtherTasks DEF Stop, queueVars
  <2>6. ASSUME NEW c \in Clients, NotifyAll(c) PROVE TaskInv'
    BY <2>6, WakeTasks, OtherTasks DEF NotifyAll, queueVars
  <2>7. ASSUME NEW n \in ThreadCounts, Init(n) PROVE TaskInv'
    <3>1. UNCHANGED <<ready_tasks_, task, future>>
      BY <2>7 DEF Init, queueVars, clientVars
    <3>2. \A w \in (worker_threads_ + 1)..(worker_threads_ + n) : w \in Workers => worker[w] = "none"
      BY <2>7, ThreadAssumption DEF Init, Inv, TypeOK, WorkerInv, Workers, Spawned
    <3>3. \A w \in Workers : (worker'[w] = "run") = (worker[w] = "run")
      BY <2>7, <3>2 DEF Init
    <3> QED
      BY <3>1, <3>3, OtherTasks
  <2>8. CASE Join \/ JoinStep \/ Destructor \/ DestructorJoin
    BY <2>8, OtherTasks DEF Join, JoinStep, Destructor, DestructorJoin, queueVars, clientVars
  <2>9. CASE DestructorNotify
    BY <2>9, WakeTasks, OtherTasks DEF DestructorNotify, queueVars, clientVars
  <2>10. CASE UNCHANGED vars
    BY <2>10, OtherTasks DEF vars, queueVars, clientVars
  <2> QED
    BY <2>1, <2>2, <2>3, <2>4, <2>5, <2>6, <2>7, <2>8, <2>9, <2>10 DEF Next, Gone
<1>3. TypeOK /\ TaskInv => TaskConservation
  <2> SUFFICES ASSUME TypeOK, TaskInv, NEW t \in Tasks
               PROVE  IF future[t] = "pending"
                      THEN \/ (\E i \in DOMAIN ready_tasks_ : Positions(t) = {i}) /\ Runners(t) = {}
                           \/ Positions(t) = {} /\ (\E w \in Workers : Runners(t) = {w})
                      ELSE Positions(t) = {} /\ Runners(t) = {}
    BY DEF TaskConservation
  <2> USE ThreadAssumption
      DEF TaskInv, QueuedOnce, QueuedPending, HeldPending, HeldNotQueued, HeldOnce, PendingKept,
          InQueue, Positions, Runners
  <2>1. CASE future[t] # "pending"
    <3>1. \A w \in Workers : task[w] # t
      BY <2>1
    <3>2. \A i \in DOMAIN ready_tasks_ : ready_tasks_[i] # t
      BY <2>1
    <3> QED
      BY <2>1, <3>1, <3>2
  <2>2. CASE future[t] = "pending" /\ InQueue(t)
    <3>1. PICK i \in DOMAIN ready_tasks_ : ready_tasks_[i] = t
      BY <2>2
    <3>2. Positions(t) = {i}
      BY <3>1
    <3>3. Runners(t) = {}
      BY <2>2
    <3> QED
      BY <2>2, <3>2, <3>3
  <2>3. CASE future[t] = "pending" /\ ~InQueue(t)
    <3>1. PICK w \in Workers : task[w] = t
      BY <2>3
    <3>2. Runners(t) = {w}
      BY <3>1
    <3>3. Positions(t) = {}
      BY <2>3
    <3> QED
      BY <2>3, <3>2, <3>3
  <2> QED
    BY <2>1, <2>2, <2>3
<1>4. Inv => TypeOK
  BY DEF Inv
<1> QED
  BY <1>1, <1>2, <1>3, <1>4, InvHolds, PTL DEF Spec
------------------------------------------------------------------------------
(* How the destructor may end the process.                                  *)

\* Join, wherever it was called from, has joined the workers before
\* next_join, and the first of all if any; in the destructor no others.
JoinInv ==
    /\ owner \in {"join", "dtor_notify"} => fate = "alive"
    /\ owner \in {"join", "dtor_join"} => 1..(next_join - 1) \subseteq joined
    /\ joined # {} => 1 \in joined
    /\ owner = "dtor_join" /\ fate = "alive" /\ next_join > 1 => joined \subseteq 1..(next_join - 1)
    /\ TerminatesOnlyIfMisused

\* The step of the loop that joins a worker.
LEMMA JoinWorkerJoinInv ==
  ASSUME TypeOK, JoinInv, JoinWorker, owner \in {"join", "dtor_join"}, fate = "alive",
         UNCHANGED <<owner, fate>>
  PROVE  JoinInv'
<1> USE ThreadAssumption DEF TypeOK, JoinInv, JoinWorker, Spawned, TerminatesOnlyIfMisused
<1>1. next_join \in Nat \ {0} /\ next_join' = next_join + 1 /\ joined' = joined \cup {next_join}
  OBVIOUS
<1>2. 1..(next_join' - 1) \subseteq joined'
  BY <1>1
<1>3. 1 \in joined'
  BY <1>1, <1>2
<1>4. owner = "dtor_join" => joined' \subseteq 1..(next_join' - 1)
  BY <1>1
<1> QED
  BY <1>1, <1>2, <1>3, <1>4

\* The steps of the destructor and of Join keep it; no other step touches
\* their variables.
LEMMA NextJoinInv == ASSUME Inv, JoinInv, [Next]_vars PROVE JoinInv'
<1> USE DEF JoinInv, TerminatesOnlyIfMisused
<1>0. TypeOK
  BY DEF Inv
<1>1. CASE UNCHANGED ownerVars
  BY <1>1 DEF ownerVars
<1>2. CASE Join
  <2>1. next_join' = 1 /\ owner' = "join" /\ fate' = "alive" /\ joined' = joined
    BY <1>2 DEF Join, Callable
  <2> QED
    BY <2>1
<1>3. CASE JoinStep
  <2>1. owner = "join" /\ fate = "alive" /\ fate' = "alive"
    BY <1>3 DEF JoinStep
  <2>2. CASE JoinWorker /\ UNCHANGED owner
    BY <1>0, <2>1, <2>2, JoinWorkerJoinInv
  <2>3. CASE owner' = "idle" /\ UNCHANGED <<joined, next_join>>
    BY <2>1, <2>3
  <2> QED
    BY <1>3, <2>2, <2>3 DEF JoinStep
<1>4. CASE Destructor
  BY <1>4 DEF Destructor, Callable
<1>5. CASE DestructorNotify
  <2>1. next_join' = 1 /\ owner' = "dtor_join" /\ fate' = "alive" /\ joined' = joined
    BY <1>5 DEF DestructorNotify
  <2> QED
    BY <2>1
<1>6. CASE DestructorJoin
  <2>1. owner = "dtor_join" /\ owner' = owner /\ fate = "alive" /\ next_join \in Nat \ {0}
    BY <1>0, <1>6, ThreadAssumption DEF DestructorJoin, TypeOK
  <2>2. CASE JoinWorker /\ UNCHANGED fate
    BY <1>0, <2>1, <2>2, JoinWorkerJoinInv
  <2>3. CASE JoinThrows /\ fate' = "terminated" /\ UNCHANGED <<joined, next_join>>
    <3>1. next_join = 1
      BY <2>1, <2>3 DEF JoinThrows
    <3> QED
      BY <2>1, <2>3, <3>1 DEF JoinThrows
  <2>4. CASE JoinFinished /\ fate' = MembersDestroyed /\ UNCHANGED <<joined, next_join>>
    <3>1. Spawned \subseteq joined
      BY <1>0, <2>1, <2>4, ThreadAssumption DEF JoinFinished, Spawned, TypeOK
    <3>2. fate' = "destroyed"
      BY <2>4, <3>1 DEF MembersDestroyed
    <3> QED
      BY <2>1, <2>4, <3>2
  <2> QED
    BY <1>6, <2>2, <2>3, <2>4 DEF DestructorJoin
<1> QED
  BY <1>1, <1>2, <1>3, <1>4, <1>5, <1>6
  DEF Next, Gone, vars, WorkerStep, WorkerLock, WorkerTest, WorkerCheck, WorkerTake, WorkerRun,
      SpuriousWakeup, AddTask, NotifyOne, Stop, NotifyAll, Init

\* A pool that was neither stopped nor joined by its users is destroyed in
\* order, for any number of workers (~ThreadPool).
THEOREM TerminationExplained == Spec => []TerminatesOnlyIfMisused
<1>1. PoolInit => JoinInv
  BY DEF PoolInit, JoinInv, TerminatesOnlyIfMisused
<1>2. JoinInv => TerminatesOnlyIfMisused
  BY DEF JoinInv
<1> QED
  BY <1>1, <1>2, NextJoinInv, InvHolds, PTL DEF Spec
==============================================================================
