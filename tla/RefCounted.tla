------------------------------ MODULE RefCounted ------------------------------
(***************************************************************************)
(* base/refcount.h: one reference-counted object shared by threads.  A     *)
(* reference is the right to call Unref once; who holds it may call Ref to *)
(* make another and hand that to any thread.  The calls of Unref on two    *)
(* references may run at the same time, so Unref is three steps, one for   *)
(* each access to ref_: its CHECK, the fetch_sub, and the load that        *)
(* decides whether to delete.                                              *)
(***************************************************************************)
EXTENDS Integers, FiniteSets

CONSTANTS References,  \* bound: all references ever made
          Original,    \* the one the constructor gives its caller
          NoReference

ASSUME ReferenceAssumption == /\ IsFiniteSet(References)
                              /\ Original \in References
                              /\ NoReference \notin References

VARIABLES ref_,
          phase,      \* of each reference and the Unref call that ends it
          destroyed,  \* how often the object was deleted
          sole,       \* a reference whose holder saw RefCountIsOne return true
          failed      \* a CHECK failed

refVars == <<ref_, phase, destroyed, sole, failed>>

Freed == destroyed > 0
Held == {r \in References : phase[r] \in {"held", "checked"}}

Construct == /\ ref_ = 1
             /\ phase = [r \in References |-> IF r = Original THEN "held" ELSE "unused"]
             /\ destroyed = 0
             /\ sole = NoReference
             /\ failed = FALSE

\* The holder of r calls Ref for a reference s.  Its CHECK and its fetch_add
\* are one step: r is held at both, so no other thread can come between them
\* in a way that changes either.
Ref(r, s) ==
    /\ phase[r] = "held"
    /\ phase[s] = "unused"
    /\ IF ref_ >= 1
       THEN /\ ref_' = ref_ + 1
            /\ phase' = [phase EXCEPT ![s] = "held"]
            /\ sole' = IF sole = r THEN NoReference ELSE sole
            /\ UNCHANGED failed
       ELSE failed' = TRUE /\ UNCHANGED <<ref_, phase, sole>>
    /\ UNCHANGED destroyed

\* Mutant: true for two references as well.
RefCountIsTwo(r) ==
    /\ phase[r] = "held"
    /\ ref_ <= 2
    /\ sole' = r
    /\ UNCHANGED <<ref_, phase, destroyed, failed>>

RefCountIsOne(r) ==
    /\ phase[r] = "held"
    /\ ref_ = 1
    /\ sole' = r
    /\ UNCHANGED <<ref_, phase, destroyed, failed>>

UnrefCheck(r) ==
    /\ phase[r] = "held"
    /\ phase' = [phase EXCEPT ![r] = IF ref_ > 0 THEN "checked" ELSE @]
    /\ failed' = (failed \/ ~(ref_ > 0))
    /\ sole' = IF sole = r THEN NoReference ELSE sole
    /\ UNCHANGED <<ref_, destroyed>>

\* Mutant: a decrement that is not atomic may be overwritten by another.
UnrefSubLost(r) ==
    /\ phase[r] = "checked"
    /\ \E n \in {0, 1} : ref_' = ref_ - n
    /\ phase' = [phase EXCEPT ![r] = "subtracted"]
    /\ UNCHANGED <<destroyed, sole, failed>>

UnrefSub(r) ==
    /\ phase[r] = "checked"
    /\ ref_' = ref_ - 1
    /\ phase' = [phase EXCEPT ![r] = "subtracted"]
    /\ UNCHANGED <<destroyed, sole, failed>>

\* Mutant: the object is deleted one reference too early.
UnrefLoadOne(r) ==
    /\ phase[r] = "subtracted"
    /\ phase' = [phase EXCEPT ![r] = "done"]
    /\ destroyed' = IF ref_ <= 1 THEN destroyed + 1 ELSE destroyed
    /\ UNCHANGED <<ref_, sole, failed>>

\* Mutant: the value before the decrement is compared with zero.
UnrefLoadNever(r) ==
    /\ phase[r] = "subtracted"
    /\ phase' = [phase EXCEPT ![r] = "done"]
    /\ destroyed' = IF ref_ + 1 = 0 THEN destroyed + 1 ELSE destroyed
    /\ UNCHANGED <<ref_, sole, failed>>

\* The load may come after another Unref has deleted the object; it then reads
\* freed memory, which holds zero or anything else.
UnrefLoad(r) ==
    /\ phase[r] = "subtracted"
    /\ phase' = [phase EXCEPT ![r] = "done"]
    /\ \E zero \in BOOLEAN :
          /\ ~Freed => zero = (ref_ = 0)
          /\ destroyed' = IF zero THEN destroyed + 1 ELSE destroyed
    /\ UNCHANGED <<ref_, sole, failed>>

\* Every call on every reference has returned.
AllReturned == Held = {} /\ (\A r \in References : phase[r] # "subtracted") /\ UNCHANGED refVars

RefNext == \/ \E r, s \in References : Ref(r, s)
        \/ \E r \in References : RefCountIsOne(r) \/ UnrefCheck(r) \/ UnrefSub(r) \/ UnrefLoad(r)
        \/ AllReturned

(* Whoever has begun Unref finishes it; nobody has to begin.                *)
RefFairness == \A r \in References : WF_refVars(UnrefSub(r) \/ UnrefLoad(r))

RefSpec == Construct /\ [][RefNext]_refVars /\ RefFairness

------------------------------------------------------------------------------
RefTypeOK == /\ ref_ \in Nat
          /\ phase \in [References -> {"unused", "held", "checked", "subtracted", "done"}]
          /\ destroyed \in Nat
          /\ sole \in References \cup {NoReference}
          /\ failed \in BOOLEAN

(* ref_ counts the references whose Unref has not subtracted yet, at every  *)
(* moment and under every interleaving of Ref and Unref.                    *)
CountIsExact == ref_ = Cardinality(Held)

(* The object is never deleted while anyone still holds a reference, and    *)
(* none of the CHECKs of Ref and Unref can fail for a holder.               *)
HolderIsSafe == /\ Freed => Held = {}
                /\ ~failed

(* RefCountIsOne does not go stale: after it returned true to a holder, no  *)
(* one else holds a reference until that holder makes or drops one.         *)
SoleOwnerStays == sole # NoReference => Held = {sole}

(* When the last reference is dropped the object is deleted: no leak.       *)
LastUnrefDeletes == Held = {} ~> Freed

(* What the test of refcount.h expects of an object with two references,    *)
(* dropped one after the other: it is destroyed exactly once.               *)
DestroyedAtMostOnce == destroyed <= 1
==============================================================================
