---------------------------- MODULE BlockingQueue ----------------------------
(***************************************************************************)
(* The unbounded queue of base/threadsafe_queue.h.  Every method holds     *)
(* mutex_ from its first line to its last, except while it sleeps in       *)
(* cond_, so each method is one step here and a blocked WaitTake is a      *)
(* thread in the set waiting_.  The module has operations and no Spec of   *)
(* its own: its users (ThreadPool) compose them with their own steps.      *)
(***************************************************************************)
EXTENDS Sequences

VARIABLES queue_,     \* the elements, oldest first
          waiting_    \* the threads asleep in cond_

QueueInit == queue_ = << >> /\ waiting_ = {}

Empty == queue_ = << >>

\* notify_all wakes every sleeper; each re-evaluates its predicate later.
Push(value) == /\ queue_' = Append(queue_, value)
               /\ waiting_' = {}

\* A thread that enters WaitTake, or was woken in it, evaluates !empty().
WaitTakeSleeps(t) == /\ Empty
                     /\ waiting_' = waiting_ \cup {t}
                     /\ UNCHANGED queue_

\* Mutant: front() without pop().
WaitTakeKeepsFront(t, value) == ~Empty /\ value = Head(queue_) /\ UNCHANGED <<queue_, waiting_>>

WaitTakeReturns(t, value) == /\ ~Empty
                             /\ value = Head(queue_)
                             /\ queue_' = Tail(queue_)
                             /\ UNCHANGED waiting_
==============================================================================
