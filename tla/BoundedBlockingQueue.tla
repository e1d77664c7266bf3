------------------------- MODULE BoundedBlockingQueue -------------------------
(***************************************************************************)
(* The bounded queue of base/threadsafe_queue.h.  Push and WaitTake hold   *)
(* mutex_ from the first line to the last, and notify before releasing it; *)
(* they give it up only while asleep in not_full_cond_ or not_empty_cond_. *)
(* So a critical section, from the acquisition of mutex_ to the return or  *)
(* to falling asleep, is one step.  A woken thread competes for mutex_     *)
(* with everyone else and re-evaluates its predicate: another thread may   *)
(* have used the slot, or the element, it was woken for.                   *)
(***************************************************************************)
EXTENDS Integers, Sequences, FiniteSets

CONSTANTS Producers, Consumers,
          MaxPushes,     \* bound: calls of Push per producer
          CapacitySize,  \* the constructor's argument, an int
          SizeModulus    \* 2^64: size() is a size_t

ASSUME QueueAssumption == /\ CapacitySize \in Int
                          /\ SizeModulus \in Nat \ {0}
                          /\ MaxPushes \in Nat
                          /\ Producers \cap Consumers = {}

VARIABLES queue_,
          phase,    \* of each thread: outside, wanting mutex_, or asleep
          pushes,   \* calls of Push each producer has made
          taken     \* history: what WaitTake returned, in that order

vars == <<queue_, phase, pushes, taken>>

Threads == Producers \cup Consumers
Values == Producers \X (1..MaxPushes)

\* capacity_size_ is converted to size_t wherever it is compared with size().
Limit == CapacitySize % SizeModulus

Full == Len(queue_) = Limit
Empty == queue_ = << >>

\* notify_all on the condition variable in which the threads of T sleep.
NotifyAll(T) == [t \in Threads |-> IF t \in T /\ phase[t] = "asleep" THEN "entering" ELSE phase[t]]

QueueInit == /\ queue_ = << >>
             /\ phase = [t \in Threads |-> "outside"]
             /\ pushes = [p \in Producers |-> 0]
             /\ taken = << >>

CallPush(p) == /\ phase[p] = "outside"
               /\ pushes[p] < MaxPushes
               /\ pushes' = [pushes EXCEPT ![p] = @ + 1]
               /\ phase' = [phase EXCEPT ![p] = "entering"]
               /\ UNCHANGED <<queue_, taken>>

\* Mutant: Push without its notify_all.
PushSilent(p) ==
    /\ phase[p] = "entering"
    /\ IF Len(queue_) < Limit
       THEN /\ queue_' = Append(queue_, <<p, pushes[p]>>)
            /\ phase' = [phase EXCEPT ![p] = "outside"]
       ELSE /\ phase' = [phase EXCEPT ![p] = "asleep"]
            /\ UNCHANGED queue_
    /\ UNCHANGED <<pushes, taken>>

Push(p) ==
    /\ phase[p] = "entering"
    /\ IF Len(queue_) < Limit
       THEN /\ queue_' = Append(queue_, <<p, pushes[p]>>)
            /\ phase' = [NotifyAll(Consumers) EXCEPT ![p] = "outside"]
       ELSE /\ phase' = [phase EXCEPT ![p] = "asleep"]
            /\ UNCHANGED queue_
    /\ UNCHANGED <<pushes, taken>>

CallWaitTake(c) == /\ phase[c] = "outside"
                   /\ phase' = [phase EXCEPT ![c] = "entering"]
                   /\ UNCHANGED <<queue_, pushes, taken>>

\* Mutant: a woken thread takes without re-evaluating the predicate, which on
\* an empty std::queue yields something nobody pushed.
WaitTakeUnchecked(c) ==
    /\ phase[c] = "entering"
    /\ taken' = Append(taken, IF Empty THEN << >> ELSE Head(queue_))
    /\ queue_' = IF Empty THEN queue_ ELSE Tail(queue_)
    /\ phase' = [NotifyAll(Producers) EXCEPT ![c] = "outside"]
    /\ UNCHANGED pushes

\* Mutant: WaitTake without its notify_all.
WaitTakeSilent(c) ==
    /\ phase[c] = "entering"
    /\ IF ~Empty
       THEN /\ taken' = Append(taken, Head(queue_))
            /\ queue_' = Tail(queue_)
            /\ phase' = [phase EXCEPT ![c] = "outside"]
       ELSE /\ phase' = [phase EXCEPT ![c] = "asleep"]
            /\ UNCHANGED <<queue_, taken>>
    /\ UNCHANGED pushes

WaitTake(c) ==
    /\ phase[c] = "entering"
    /\ IF ~Empty
       THEN /\ taken' = Append(taken, Head(queue_))
            /\ queue_' = Tail(queue_)
            /\ phase' = [NotifyAll(Producers) EXCEPT ![c] = "outside"]
       ELSE /\ phase' = [phase EXCEPT ![c] = "asleep"]
            /\ UNCHANGED <<queue_, taken>>
    /\ UNCHANGED pushes

\* std::condition_variable may wake a thread nobody notified.
SpuriousWakeup(t) == /\ phase[t] = "asleep"
                     /\ phase' = [phase EXCEPT ![t] = "entering"]
                     /\ UNCHANGED <<queue_, pushes, taken>>

Next == \/ \E p \in Producers : CallPush(p) \/ Push(p)
        \/ \E c \in Consumers : CallWaitTake(c) \/ WaitTake(c)
        \/ \E t \in Threads : SpuriousWakeup(t)

(* A thread that wants mutex_ gets it, since every holder releases it, and  *)
(* consumers keep calling WaitTake.  Producers need not push.               *)
Fairness == /\ \A p \in Producers : WF_vars(Push(p))
            /\ \A c \in Consumers : WF_vars(CallWaitTake(c) \/ WaitTake(c))

Spec == QueueInit /\ [][Next]_vars /\ Fairness

------------------------------------------------------------------------------
TypeOK == /\ queue_ \in Seq(Values)
          /\ phase \in [Threads -> {"outside", "entering", "asleep"}]
          /\ pushes \in [Producers -> 0..MaxPushes]
          /\ taken \in Seq(Values)

(* The queue never holds more than the capacity, as an unsigned number.     *)
CapacityRespected == Len(queue_) <= Limit

(* No lost wakeup: a producer sleeps only while the queue is full, as Full  *)
(* reports it, and a consumer only while it is empty, so that every change  *)
(* that could let a sleeper go on has woken it.                             *)
SleepersHaveReason == /\ \A p \in Producers : phase[p] = "asleep" => Full
                      /\ \A c \in Consumers : phase[c] = "asleep" => Empty

ChannelOf == INSTANCE Channel WITH Messages <- Values, Bound <- Limit,
                                   sent <- taken \o queue_, delivered <- taken

(* Whatever the interleaving of producers, consumers and wakeups, the       *)
(* threads see a bounded channel: first in, first out, each element taken   *)
(* exactly once, and every element that was pushed is eventually taken.     *)
ImplementsChannel == ChannelOf!ChannelSpec

(* Of the pushes producers make, finitely many here, none is left blocked   *)
(* for ever while consumers keep taking.                                    *)
PushesComplete == \A p \in Producers : phase[p] = "entering" ~> phase[p] = "outside"
==============================================================================
