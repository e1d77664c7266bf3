------------------------------ MODULE ThreadLocal ------------------------------
(***************************************************************************)
(* ThreadLocal and ThreadLocalSingleton of base/thread_local.h.  Threads   *)
(* come and go.  An object of a ThreadLocal is deleted when its thread     *)
(* exits, by the destructor of the pthread key; one of the singleton when  *)
(* the process destroys its static objects.                                *)
(***************************************************************************)
EXTENDS Integers, FiniteSets

CONSTANTS Threads, Main,
          T,            \* the object that T() constructs
          NoObject,
          MaxStarts,    \* bound: the number of threads started
          MaxFailures   \* bound: how often pthread_setspecific fails

ASSUME ThreadLocalAssumption == /\ Main \in Threads /\ IsFiniteSet(Threads)
                                /\ T # NoObject /\ MaxStarts \in Nat /\ MaxFailures \in Nat

VARIABLES running,   \* threads that exist
          key_,      \* the pthread key: "live", "invalid" (never created) or "deleted"
          value,     \* what pthread_getspecific returns to each thread
          objects,   \* the number of objects that Value() made and nobody deleted
          tptr,      \* threads whose tptr is set
          data_,     \* the number of objects in data_; -1 after ~ThreadLocalSingleton
          fault,     \* "none", or what has gone wrong
          started,   \* history: the number of threads started
          failures   \* history: the number of calls of pthread_setspecific that failed

localVars == <<running, key_, value, objects, tptr, data_, fault, started, failures>>

\* A runtime_error for a key that cannot be created is constructed and not
\* thrown, and the object goes on without a key.
ThreadLocalInit ==
    /\ running = {Main} /\ started = 0
    /\ key_ \in {"live", "invalid"}
    /\ value = [t \in Threads |-> NoObject] /\ objects = 0 /\ failures = 0
    /\ tptr = {} /\ data_ = 0
    /\ fault = "none"

Start(t) ==
    /\ t \notin running /\ started < MaxStarts
    /\ running' = running \cup {t} /\ started' = started + 1
    /\ UNCHANGED <<key_, value, objects, tptr, data_, fault, failures>>

\* Value() of thread t, and the object it refers to.
Value(t) == IF value[t] = NoObject THEN T ELSE value[t]

\* Value() = obj, for an object that the thread has or gets now.
Stored(t, obj) ==
    /\ key_ = "live"
    /\ value' = [value EXCEPT ![t] = obj]
    /\ objects' = IF value[t] = NoObject THEN objects + 1 ELSE objects
    /\ UNCHANGED <<fault, failures>>

\* pthread_setspecific has no memory, or finds no such key; the runtime_error
\* is not thrown, and the new object is used and forgotten.
NotStored(t) ==
    /\ value[t] = NoObject /\ failures < MaxFailures
    /\ objects' = objects + 1 /\ failures' = failures + 1
    /\ UNCHANGED <<value, fault>>

\* A number that is no key of this object may be the key of another.
ForeignKey == key_ # "live" /\ fault' = "foreign key" /\ UNCHANGED <<value, objects, failures>>

SetValue(t, obj) ==
    /\ Stored(t, obj) \/ NotStored(t) \/ ForeignKey
    /\ UNCHANGED <<running, key_, tptr, data_, started>>

\* Mutant: the key has no destructor.
ExitKeepsObject(t) ==
    /\ t \in running \ {Main}
    /\ running' = running \ {t}
    /\ value' = [value EXCEPT ![t] = NoObject]
    /\ tptr' = tptr \ {t}
    /\ UNCHANGED <<key_, objects, data_, fault, started, failures>>

\* A thread exits, and Destructor is called for its value.  main returns
\* with the process, and Destructor is not called.
Exit(t) ==
    /\ t \in running \ {Main}
    /\ running' = running \ {t}
    /\ value' = [value EXCEPT ![t] = NoObject]
    /\ objects' = IF value[t] # NoObject THEN objects - 1 ELSE objects
    /\ tptr' = tptr \ {t}
    /\ UNCHANGED <<key_, data_, fault, started, failures>>

\* ~ThreadLocal: pthread_key_delete calls no destructors, and does nothing
\* but fail if there is no such key.
DeleteKey ==
    /\ key_ # "deleted" /\ key_' = "deleted"
    /\ value' = [t \in Threads |-> NoObject]
    /\ UNCHANGED <<running, objects, tptr, data_, fault, started, failures>>

\* ThreadLocalSingleton::Get, and Deleter for a new object.
Get(t) ==
    /\ IF data_ = -1 THEN fault' = "destroyed singleton" /\ UNCHANGED <<tptr, data_>>
       ELSE /\ tptr' = tptr \cup {t}
            /\ data_' = IF t \in tptr THEN data_ ELSE data_ + 1
            /\ UNCHANGED fault
    /\ UNCHANGED <<running, key_, value, objects, started, failures>>

\* ~ThreadLocalSingleton deletes all objects in data_.
DestroySingleton ==
    /\ data_ # -1 /\ data_' = -1
    /\ UNCHANGED <<running, key_, value, objects, tptr, fault, started, failures>>

------------------------------------------------------------------------------
(* However many threads come and go, a ThreadLocal has one object for each  *)
(* running thread that has stored one, and one for each time that storing   *)
(* it failed, which nobody will delete; the deletion of the key adds at     *)
(* most one for each thread.  A ThreadLocalSingleton has an object for each *)
(* running thread that has called Get, and no more than there ever were     *)
(* threads: nobody gets a second one.                                       *)
ObjectsAccounted ==
    /\ key_ # "deleted" => objects = Cardinality({t \in running : value[t] # NoObject}) + failures
    /\ objects <= Cardinality(Threads) + failures
    /\ data_ # -1 => Cardinality(tptr) <= data_ /\ data_ <= started + 1
===============================================================================
