------------------------------ MODULE ThreadPool ------------------------------
(***************************************************************************)
(* base/thread_pool.h, composed with the BlockingQueue that holds its      *)
(* tasks.  The pool's owner constructs it, calls Init, Join and the        *)
(* destructor; client threads call AddTask and Stop; the worker threads    *)
(* run the lambda of Init.  Notifications are sent after mutex_ is         *)
(* released, so they are steps of their own, and a worker tests its wait   *)
(* predicate, its exit condition and the queue in three separate steps.    *)
(*                                                                         *)
(* The client protocol the class leaves to its users, stated in guards:    *)
(* Init starts at least one thread, and a pool that was stopped is not     *)
(* started again before its workers have left; nobody calls into a pool    *)
(* whose destructor has begun.                                             *)
(***************************************************************************)
EXTENDS Integers, FiniteSets, Sequences

CONSTANTS Clients,      \* threads that call AddTask and Stop
          Tasks,        \* the tasks they may submit, each at most once
          MaxThreads,   \* bound: threads all calls of Init may create
          ThreadCounts, \* the arguments Init is called with
          NoThread, NoTask

ASSUME ThreadAssumption == /\ MaxThreads \in Nat
                           /\ ThreadCounts \subseteq Nat \ {0}
                           /\ NoThread \notin 1..MaxThreads
                           /\ NoTask \notin Tasks

VARIABLES stop_, mutex_,
          cond_,            \* workers asleep in cond_
          ready_tasks_,     \* queue_ of the BlockingQueue
          queue_sleepers,   \* its waiting_
          worker_threads_,  \* length of the vector: workers are 1..worker_threads_
          joined,           \* the workers whose std::thread was joined
          worker,           \* where each worker is in the lambda
          task,             \* the local variable task of each worker
          future,           \* what the submitter of each task was given
          client,           \* where each client is in AddTask or Stop
          owner,            \* where the owner is in Join or the destructor
          next_join,        \* the loop variable of Join
          fate              \* of the pool object

clientVars == <<client, future>>
ownerVars == <<owner, next_join, joined, fate>>
queueVars == <<ready_tasks_, queue_sleepers>>
vars == <<stop_, mutex_, cond_, queueVars, worker_threads_, worker, task,
          clientVars, ownerVars>>

Queue == INSTANCE BlockingQueue WITH queue_ <- ready_tasks_,
                                     waiting_ <- queue_sleepers

Workers == 1..MaxThreads
Spawned == 1..worker_threads_

\* stop_ is a std::atomic<bool> the constructor does not initialise.
PoolInit == /\ stop_ \in BOOLEAN
            /\ mutex_ = NoThread
            /\ cond_ = {}
            /\ Queue!QueueInit
            /\ worker_threads_ = 0
            /\ joined = {}
            /\ worker = [w \in Workers |-> "none"]
            /\ task = [w \in Workers |-> NoTask]
            /\ future = [t \in Tasks |-> "none"]
            /\ client = [c \in Clients |-> "idle"]
            /\ owner = "idle"
            /\ next_join = 1
            /\ fate = "alive"

------------------------------------------------------------------------------
(* The worker lambda.                                                       *)

\* std::terminate ends the workers wherever they are.
At(w, place) == fate # "terminated" /\ worker[w] = place

WorkerLock(w) ==
    /\ At(w, "lock")
    /\ mutex_ = NoThread
    /\ mutex_' = w
    /\ worker' = [worker EXCEPT ![w] = "test"]
    /\ UNCHANGED <<stop_, cond_, queueVars, worker_threads_, task, clientVars, ownerVars>>

\* cond_.wait(lk, predicate): sleeping releases mutex_ in the same step.
WorkerTest(w) ==
    /\ At(w, "test")
    /\ IF stop_ \/ ~Queue!Empty
       THEN /\ worker' = [worker EXCEPT ![w] = "check"]
            /\ UNCHANGED <<mutex_, cond_>>
       ELSE /\ worker' = [worker EXCEPT ![w] = "asleep"]
            /\ cond_' = cond_ \cup {w}
            /\ mutex_' = NoThread
    /\ UNCHANGED <<stop_, queueVars, worker_threads_, task, clientVars, ownerVars>>

\* Mutant: the exit condition forgets the queue.
WorkerCheckStopOnly(w) ==
    /\ At(w, "check")
    /\ worker' = [worker EXCEPT ![w] = IF stop_ THEN "exited" ELSE "take"]
    /\ mutex_' = IF stop_ THEN NoThread ELSE mutex_
    /\ UNCHANGED <<stop_, cond_, queueVars, worker_threads_, task, clientVars, ownerVars>>

\* Mutant: no exit condition after the wait.
WorkerCheckMissing(w) ==
    /\ At(w, "check")
    /\ worker' = [worker EXCEPT ![w] = "take"]
    /\ UNCHANGED <<stop_, mutex_, cond_, queueVars, worker_threads_, task, clientVars, ownerVars>>

\* if (stop_ && Empty()) return;  reads stop_ again.
WorkerCheck(w) ==
    /\ At(w, "check")
    /\ IF stop_ /\ Queue!Empty
       THEN /\ worker' = [worker EXCEPT ![w] = "exited"]
            /\ mutex_' = NoThread
       ELSE /\ worker' = [worker EXCEPT ![w] = "take"]
            /\ UNCHANGED mutex_
    /\ UNCHANGED <<stop_, cond_, queueVars, worker_threads_, task, clientVars, ownerVars>>

\* ready_tasks_.WaitTake(&task), called with mutex_ held: on an empty queue it
\* sleeps in the queue's own condition variable and keeps mutex_.
WorkerTake(w) ==
    /\ At(w, "take")
    /\ w \notin queue_sleepers
    /\ IF Queue!Empty
       THEN /\ Queue!WaitTakeSleeps(w)
            /\ UNCHANGED <<mutex_, worker, task>>
       ELSE \E t \in Tasks : /\ Queue!WaitTakeReturns(w, t)
                             /\ task' = [task EXCEPT ![w] = t]
                             /\ worker' = [worker EXCEPT ![w] = "run"]
                             /\ mutex_' = NoThread
    /\ UNCHANGED <<stop_, cond_, worker_threads_, clientVars, ownerVars>>

\* task(): the packaged_task makes the future ready, with a value or with the
\* exception the function threw.
WorkerRun(w) ==
    /\ At(w, "run")
    /\ future' = [future EXCEPT ![task[w]] = "ready"]
    /\ task' = [task EXCEPT ![w] = NoTask]
    /\ worker' = [worker EXCEPT ![w] = "lock"]
    /\ UNCHANGED <<stop_, mutex_, cond_, queueVars, worker_threads_, client, ownerVars>>

\* Waking moves sleepers to where they compete for mutex_ again.
Wake(W) == /\ worker' = [w \in Workers |-> IF w \in W THEN "lock" ELSE worker[w]]
           /\ cond_' = cond_ \ W

\* std::condition_variable may wake a thread nobody notified.
SpuriousWakeup(w) ==
    /\ At(w, "asleep")
    /\ Wake({w})
    /\ UNCHANGED <<stop_, mutex_, queueVars, worker_threads_, task, clientVars, ownerVars>>

------------------------------------------------------------------------------
(* AddTask and Stop, called by client threads.                              *)

DestructorRuns == owner \in {"dtor_notify", "dtor_join"}
Callable == fate = "alive" /\ ~DestructorRuns

AddTask(c, t) ==
    /\ Callable
    /\ client[c] = "idle"
    /\ future[t] = "none"
    /\ mutex_ = NoThread
    /\ IF stop_
       THEN /\ future' = [future EXCEPT ![t] = "rejected"]
            /\ UNCHANGED <<client, queueVars>>
       ELSE /\ Queue!Push(t)
            /\ future' = [future EXCEPT ![t] = "pending"]
            /\ client' = [client EXCEPT ![c] = "notify_one"]
    /\ UNCHANGED <<stop_, mutex_, cond_, worker_threads_, worker, task, ownerVars>>

\* Mutant: AddTask without its notify_one.
NotifyOneMissing(c) ==
    /\ client[c] = "notify_one"
    /\ client' = [client EXCEPT ![c] = "idle"]
    /\ UNCHANGED <<stop_, mutex_, cond_, worker, queueVars, worker_threads_, task, future, ownerVars>>

NotifyOne(c) ==
    /\ client[c] = "notify_one"
    /\ client' = [client EXCEPT ![c] = "idle"]
    /\ IF cond_ = {}
       THEN UNCHANGED <<worker, cond_>>
       ELSE \E w \in cond_ : Wake({w})
    /\ UNCHANGED <<stop_, mutex_, queueVars, worker_threads_, task, future, ownerVars>>

Stop(c) ==
    /\ Callable
    /\ client[c] = "idle"
    /\ mutex_ = NoThread
    /\ stop_' = TRUE
    /\ client' = [client EXCEPT ![c] = "notify_all"]
    /\ UNCHANGED <<mutex_, cond_, queueVars, worker_threads_, worker, task, future, ownerVars>>

NotifyAll(c) ==
    /\ client[c] = "notify_all"
    /\ client' = [client EXCEPT ![c] = "idle"]
    /\ Wake(cond_)
    /\ UNCHANGED <<stop_, mutex_, queueVars, worker_threads_, task, future, ownerVars>>

------------------------------------------------------------------------------
(* Init, Join and the destructor, called by the owner.                      *)

\* stop_ = false is written without mutex_.
Init(n) ==
    /\ Callable
    /\ owner = "idle"
    /\ ~stop_ \/ \A w \in Spawned : worker[w] = "exited"
    /\ worker_threads_ + n <= MaxThreads
    /\ stop_' = FALSE
    /\ worker_threads_' = worker_threads_ + n
    /\ worker' = [w \in Workers |-> IF w \in (worker_threads_ + 1)..(worker_threads_ + n)
                                    THEN "lock" ELSE worker[w]]
    /\ UNCHANGED <<mutex_, cond_, queueVars, task, clientVars, ownerVars>>

Join ==
    /\ Callable
    /\ owner = "idle"
    /\ owner' = "join"
    /\ next_join' = 1
    /\ UNCHANGED <<stop_, mutex_, cond_, queueVars, worker_threads_, worker, task,
                   clientVars, joined, fate>>

\* Mutant: the worker is detached instead of joined.
JoinWorkerDetaches == /\ next_join \in Spawned \ joined
                      /\ joined' = joined \cup {next_join}
                      /\ next_join' = next_join + 1

\* Mutant: the loop over worker_threads_ starts one too late.
JoinWorkerSkipsFirst == /\ next_join + 1 \in 1..MaxThreads
                        /\ joined' = joined \cup {next_join + 1}
                        /\ next_join' = next_join + 1

\* thread.join() for the next worker that is still joinable.
JoinWorker == /\ next_join \in Spawned \ joined
              /\ worker[next_join] = "exited"
              /\ joined' = joined \cup {next_join}
              /\ next_join' = next_join + 1

\* join() on a std::thread that was joined before throws system_error, which
\* ends Join and leaves the later workers unjoined.
JoinThrows == next_join \in joined
JoinFinished == next_join > worker_threads_

JoinStep ==
    /\ owner = "join"
    /\ \/ JoinWorker /\ UNCHANGED owner
       \/ /\ JoinThrows \/ JoinFinished
          /\ owner' = "idle"
          /\ UNCHANGED <<joined, next_join>>
    /\ UNCHANGED <<stop_, mutex_, cond_, queueVars, worker_threads_, worker, task,
                   clientVars, fate>>

\* Destroying the vector calls std::terminate if a std::thread in it is joinable.
MembersDestroyed == IF Spawned \subseteq joined THEN "destroyed" ELSE "terminated"

Destructor ==
    /\ Callable
    /\ owner = "idle"
    /\ \A c \in Clients : client[c] = "idle"
    /\ mutex_ = NoThread
    /\ IF stop_
       THEN fate' = MembersDestroyed /\ UNCHANGED <<stop_, owner>>
       ELSE stop_' = TRUE /\ owner' = "dtor_notify" /\ UNCHANGED fate
    /\ UNCHANGED <<mutex_, cond_, queueVars, worker_threads_, worker, task,
                   clientVars, joined, next_join>>

\* Mutant: the destructor sets stop_ and does not notify.
DestructorNotifyMissing ==
    /\ owner = "dtor_notify"
    /\ owner' = "dtor_join"
    /\ next_join' = 1
    /\ UNCHANGED <<stop_, mutex_, cond_, worker, queueVars, worker_threads_, task,
                   clientVars, joined, fate>>

DestructorNotify ==
    /\ owner = "dtor_notify"
    /\ owner' = "dtor_join"
    /\ next_join' = 1
    /\ Wake(cond_)
    /\ UNCHANGED <<stop_, mutex_, queueVars, worker_threads_, task, clientVars, joined, fate>>

\* An exception that leaves the destructor, which is noexcept, terminates.
DestructorJoin ==
    /\ owner = "dtor_join"
    /\ fate = "alive"
    /\ \/ JoinWorker /\ UNCHANGED fate
       \/ JoinThrows /\ fate' = "terminated" /\ UNCHANGED <<joined, next_join>>
       \/ JoinFinished /\ fate' = MembersDestroyed /\ UNCHANGED <<joined, next_join>>
    /\ UNCHANGED <<stop_, mutex_, cond_, queueVars, worker_threads_, worker, task,
                   clientVars, owner>>

------------------------------------------------------------------------------
WorkerStep(w) == WorkerLock(w) \/ WorkerTest(w) \/ WorkerCheck(w) \/ WorkerTake(w) \/ WorkerRun(w)

\* The pool is gone, destroyed or with the whole process.
Gone == fate # "alive" /\ UNCHANGED vars

Next == \/ \E w \in Workers : WorkerStep(w) \/ SpuriousWakeup(w)
        \/ \E c \in Clients : \/ \E t \in Tasks : AddTask(c, t)
                              \/ NotifyOne(c) \/ Stop(c) \/ NotifyAll(c)
        \/ \E n \in ThreadCounts : Init(n)
        \/ Join \/ JoinStep
        \/ Destructor \/ DestructorNotify \/ DestructorJoin
        \/ Gone

(* A thread that can run does: the operating system schedules every thread. *)
(* Nothing makes a client call AddTask or Stop, or the owner Init, Join or  *)
(* the destructor, and nothing makes a spurious wakeup happen.              *)
Fairness == /\ \A w \in Workers : WF_vars(WorkerStep(w))
            /\ \A c \in Clients : WF_vars(NotifyOne(c) \/ NotifyAll(c))
            /\ WF_vars(JoinStep \/ DestructorNotify \/ DestructorJoin)

Spec == PoolInit /\ [][Next]_vars /\ Fairness

------------------------------------------------------------------------------
TypeOK ==
    /\ stop_ \in BOOLEAN
    /\ mutex_ \in Workers \cup {NoThread}
    /\ cond_ \subseteq Workers
    /\ ready_tasks_ \in Seq(Tasks)
    /\ queue_sleepers \subseteq Workers
    /\ worker_threads_ \in 0..MaxThreads
    /\ joined \subseteq Spawned
    /\ worker \in [Workers -> {"none", "lock", "test", "asleep", "check", "take", "run", "exited"}]
    /\ task \in [Workers -> Tasks \cup {NoTask}]
    /\ future \in [Tasks -> {"none", "pending", "ready", "rejected"}]
    /\ client \in [Clients -> {"idle", "notify_one", "notify_all"}]
    /\ owner \in {"idle", "join", "dtor_notify", "dtor_join"}
    /\ next_join \in 1..(MaxThreads + 1)
    /\ fate \in {"alive", "destroyed", "terminated"}

Positions(t) == {i \in DOMAIN ready_tasks_ : ready_tasks_[i] = t}
Runners(t) == {w \in Workers : task[w] = t}

(* A task AddTask accepted is in the queue once or in the hands of one      *)
(* worker, never both, until its future is ready; a task that was rejected, *)
(* or is finished, is in neither (AddTask, the worker lambda).              *)
TaskConservation ==
    \A t \in Tasks :
        IF future[t] = "pending"
        THEN \/ (\E i \in DOMAIN ready_tasks_ : Positions(t) = {i}) /\ Runners(t) = {}
             \/ Positions(t) = {} /\ (\E w \in Workers : Runners(t) = {w})
        ELSE Positions(t) = {} /\ Runners(t) = {}

(* The call of WaitTake at line 72 is made with mutex_ held; it would hang  *)
(* the whole pool if it slept.  It never does: what the worker saw at lines *)
(* 69 and 71 still holds when it takes.                                     *)
WaitTakeNeverSleeps ==
    /\ queue_sleepers = {}
    /\ \A w \in Workers : worker[w] = "take" => ready_tasks_ # << >>

(* Stop drains: once every worker has left the lambda, no accepted task is  *)
(* left in the queue, whatever AddTask and Stop did at the same time.       *)
StopDrains ==
    worker_threads_ > 0 /\ (\A w \in Spawned : worker[w] = "exited") => ready_tasks_ = << >>

(* When the destructor returns, no worker can touch the object any more.    *)
NoWorkerOutlivesPool ==
    fate = "destroyed" => \A w \in Spawned : worker[w] = "exited"

(* No lost wakeup: with workers started, every accepted task runs, even if  *)
(* Stop or the destructor's own stop arrives first, unless the destructor   *)
(* terminated the process.                                                  *)
AcceptedTaskRuns ==
    \A t \in Tasks : (worker_threads_ > 0 /\ future[t] = "pending")
                         ~> (future[t] = "ready" \/ fate = "terminated")

(* A destructor that has begun to stop the pool comes to its end.           *)
DestructorEnds == DestructorRuns ~> fate # "alive"

(* The destructor ends the process only by its early return on a pool that  *)
(* was stopped before, or at its very first join, because Join was called   *)
(* before: a pool that nobody stopped or joined is destroyed in order, and  *)
(* none is torn down half-way through the joins (~ThreadPool, Join).        *)
TerminatesOnlyIfMisused ==
    fate = "terminated" => owner = "idle" \/ (1 \in joined /\ next_join = 1)
==============================================================================
