------------------------------ MODULE MCCounting ------------------------------
(***************************************************************************)
(* RefCounted and Synchronizer for TLC.  They share no state, so that a    *)
(* behaviour is one of the first component or one of the second, and the   *)
(* other stays in its initial state, in which nothing is owed to fairness. *)
(***************************************************************************)
EXTENDS RefCounted, Synchronizer

VARIABLE component   \* which of the two the behaviour is about

countingVars == <<refVars, vars, component>>

CountingInit == Construct /\ SyncInit /\ component \in {"RefCounted", "Synchronizer"}

CountingNext ==
    \/ component = "RefCounted" /\ RefNext /\ UNCHANGED <<vars, component>>
    \/ component = "Synchronizer" /\ Next /\ UNCHANGED <<refVars, component>>

CountingSpec == CountingInit /\ [][CountingNext]_countingVars /\ RefFairness /\ Fairness
==============================================================================
