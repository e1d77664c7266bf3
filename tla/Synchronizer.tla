----------------------------- MODULE Synchronizer -----------------------------
(***************************************************************************)
(* base/synchronizer.{h,cc} as its test uses it: a coordinator clears the  *)
(* counters, hands tasks to other threads, and waits for as many calls of  *)
(* AddFinishOne as it handed out tasks; then it may start another round.   *)
(* AddFinishOne and the tests of Wait run under mutex_ and are single      *)
(* steps; Clear takes no lock, and the protocol keeps it apart from them.  *)
(* There is one waiter: notify_one wakes only one, so of two threads in    *)
(* Wait the second may sleep for ever.                                     *)
(***************************************************************************)
EXTENDS Integers, FiniteSets

CONSTANTS Tasks, MaxRounds   \* bound: rounds the coordinator makes

ASSUME TaskAssumption == IsFiniteSet(Tasks) /\ MaxRounds \in Nat

VARIABLES finish_num_, fail_num_,
          coordinator,  \* where the coordinator is
          total_num,    \* the argument of Wait
          task,         \* what each task is doing in this round
          round

vars == <<finish_num_, fail_num_, coordinator, total_num, task, round>>

Dispatched == {t \in Tasks : task[t] # "idle"}
Succeeded == {t \in Tasks : task[t] = "succeeded"}
Failed == {t \in Tasks : task[t] = "failed"}
Reported == Succeeded \cup Failed

SyncInit == /\ finish_num_ = 0
            /\ fail_num_ = 0
            /\ coordinator = "returned"
            /\ total_num = 0
            /\ task = [t \in Tasks |-> "idle"]
            /\ round = 0

\* Mutant: a failure of the previous round is not forgotten.
ClearFinishOnly ==
    /\ coordinator \in {"returned", "threw"}
    /\ round < MaxRounds
    /\ round' = round + 1
    /\ finish_num_' = 0
    /\ coordinator' = "dispatch"
    /\ task' = [t \in Tasks |-> "idle"]
    /\ UNCHANGED <<total_num, fail_num_>>

\* Clear (or Init, which calls it) begins a round.
Clear ==
    /\ coordinator \in {"returned", "threw"}
    /\ round < MaxRounds
    /\ round' = round + 1
    /\ finish_num_' = 0
    /\ fail_num_' = 0
    /\ coordinator' = "dispatch"
    /\ task' = [t \in Tasks |-> "idle"]
    /\ UNCHANGED total_num

Dispatch(t) ==
    /\ coordinator = "dispatch"
    /\ task[t] = "idle"
    /\ task' = [task EXCEPT ![t] = "running"]
    /\ UNCHANGED <<finish_num_, fail_num_, coordinator, total_num, round>>

CallWait ==
    /\ coordinator = "dispatch"
    /\ total_num' = Cardinality(Dispatched)
    /\ coordinator' = "entering"
    /\ UNCHANGED <<finish_num_, fail_num_, task, round>>

\* Wait holds mutex_: it sleeps while the numbers differ, then throws if a
\* task failed.
Wait ==
    /\ coordinator = "entering"
    /\ coordinator' = IF total_num # finish_num_ THEN "asleep"
                      ELSE IF fail_num_ # 0 THEN "threw" ELSE "returned"
    /\ UNCHANGED <<finish_num_, fail_num_, total_num, task, round>>

\* Mutant: only successful tasks are counted as finished.
AddFinishOneSuccess(t, task_result) ==
    /\ task[t] = "running"
    /\ task' = [task EXCEPT ![t] = IF task_result THEN "succeeded" ELSE "failed"]
    /\ finish_num_' = IF task_result THEN finish_num_ + 1 ELSE finish_num_
    /\ fail_num_' = IF task_result THEN fail_num_ ELSE fail_num_ + 1
    /\ coordinator' = IF coordinator = "asleep" THEN "entering" ELSE coordinator
    /\ UNCHANGED <<total_num, round>>

\* Mutant: AddFinishOne without its notify_one.
AddFinishOneSilent(t, task_result) ==
    /\ task[t] = "running"
    /\ task' = [task EXCEPT ![t] = IF task_result THEN "succeeded" ELSE "failed"]
    /\ finish_num_' = finish_num_ + 1
    /\ fail_num_' = IF task_result THEN fail_num_ ELSE fail_num_ + 1
    /\ UNCHANGED <<coordinator, total_num, round>>

AddFinishOne(t, task_result) ==
    /\ task[t] = "running"
    /\ task' = [task EXCEPT ![t] = IF task_result THEN "succeeded" ELSE "failed"]
    /\ finish_num_' = finish_num_ + 1
    /\ fail_num_' = IF task_result THEN fail_num_ ELSE fail_num_ + 1
    /\ coordinator' = IF coordinator = "asleep" THEN "entering" ELSE coordinator
    /\ UNCHANGED <<total_num, round>>

\* std::condition_variable may wake a thread nobody notified.
SpuriousWakeup ==
    /\ coordinator = "asleep"
    /\ coordinator' = "entering"
    /\ UNCHANGED <<finish_num_, fail_num_, total_num, task, round>>

\* The last round is over.
Finished == coordinator \in {"returned", "threw"} /\ round = MaxRounds /\ UNCHANGED vars

Next == \/ Clear
        \/ \E t \in Tasks : Dispatch(t)
        \/ CallWait
        \/ Wait
        \/ \E t \in Tasks, task_result \in BOOLEAN : AddFinishOne(t, task_result)
        \/ SpuriousWakeup
        \/ Finished

(* Tasks that were handed out report, and the coordinator, once in Wait,    *)
(* gets mutex_ whenever it wants it.                                        *)
Fairness == /\ WF_vars(Wait)
            /\ \A t \in Tasks : WF_vars(\E task_result \in BOOLEAN : AddFinishOne(t, task_result))

Spec == SyncInit /\ [][Next]_vars /\ Fairness

------------------------------------------------------------------------------
TypeOK == /\ finish_num_ \in 0..Cardinality(Tasks)
          /\ fail_num_ \in 0..finish_num_
          /\ coordinator \in {"dispatch", "entering", "asleep", "returned", "threw"}
          /\ total_num \in 0..Cardinality(Tasks)
          /\ task \in [Tasks -> {"idle", "running", "succeeded", "failed"}]
          /\ round \in 0..MaxRounds

(* Wait returns only when every task of this round has reported, normally   *)
(* exactly if all of them succeeded: no report of an earlier round, lost or *)
(* counted twice, decides it.                                               *)
VerdictIsRight ==
    /\ coordinator \in {"returned", "threw"} => Dispatched = Reported
    /\ coordinator = "returned" => Failed = {}
    /\ coordinator = "threw" => Failed # {}

(* No lost wakeup: the waiter is asleep only while reports are missing.     *)
SleepsOnlyForReports == coordinator = "asleep" => Reported # Dispatched

(* Wait comes to an end in every round.                                     *)
WaitEnds == coordinator \in {"entering", "asleep"} ~> coordinator \in {"returned", "threw"}
==============================================================================
