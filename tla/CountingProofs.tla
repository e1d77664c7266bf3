---------------------------- MODULE CountingProofs ----------------------------
(***************************************************************************)
(* Safety of the two components that count what threads do: RefCounted,    *)
(* for any finite number of references and any interleaving of the calls   *)
(* made on them, and Synchronizer, for any finite set of tasks and any     *)
(* number of rounds.                                                       *)
(***************************************************************************)
EXTENDS RefCounted, Synchronizer, TLAPS, FiniteSetTheorems

\* The holder that saw RefCountIsOne has not begun Unref since.
SoleInv == sole # NoReference => phase[sole] = "held" /\ Held = {sole}

RefInv == RefTypeOK /\ CountIsExact /\ HolderIsSafe /\ SoleInv

\* The references held are finitely many.
LEMMA HeldFinite == IsFiniteSet(Held) /\ Cardinality(Held) \in Nat
<1>1. Held \subseteq References
  BY DEF Held
<1> QED
  BY <1>1, ReferenceAssumption, FS_Subset, FS_CardinalityType

\* The constructor makes one reference and counts it.
LEMMA ConstructKeeps == Construct => RefInv
<1> SUFFICES ASSUME Construct PROVE RefInv
  OBVIOUS
<1>1. Held = {Original}
  BY ReferenceAssumption DEF Held, Construct
<1>2. Cardinality({Original}) = 1
  BY FS_Singleton
<1>3. RefTypeOK
  <2>1. phase \in [References -> {"unused", "held", "checked", "subtracted", "done"}]
    BY DEF Construct
  <2> QED
    BY <2>1 DEF Construct, RefTypeOK
<1>4. CountIsExact
  BY <1>1, <1>2 DEF Construct, CountIsExact
<1>5. HolderIsSafe
  BY DEF Construct, HolderIsSafe, Freed
<1>6. SoleInv
  BY DEF Construct, SoleInv
<1> QED
  BY <1>3, <1>4, <1>5, <1>6 DEF RefInv

\* A holder makes another reference: one more is held, one more is counted.
LEMMA RefKeeps ==
  ASSUME RefInv, NEW r \in References, NEW s \in References, Ref(r, s)
  PROVE  RefInv'
<1> USE DEF RefInv, RefTypeOK, CountIsExact
<1>1. r \in Held /\ s \notin Held
  BY DEF Held, Ref
<1>2. ref_ >= 1
  BY <1>1, HeldFinite, FS_EmptySet
<1>3. /\ ref_' = ref_ + 1
      /\ phase' = [phase EXCEPT ![s] = "held"]
      /\ sole' = IF sole = r THEN NoReference ELSE sole
      /\ UNCHANGED <<failed, destroyed>>
  BY <1>2 DEF Ref
<1>4. Held' = Held \cup {s}
  BY <1>3 DEF Held
<1>5. Cardinality(Held \cup {s}) = Cardinality(Held) + 1
  BY <1>1, HeldFinite, FS_AddElement
<1>6. sole' = NoReference
  BY <1>1, <1>3, ReferenceAssumption DEF SoleInv
<1> QED
  BY <1>1, <1>3, <1>4, <1>5, <1>6, ReferenceAssumption DEF HolderIsSafe, SoleInv, Freed

\* A count of one seen by a holder means that nobody else holds a reference.
LEMMA RefCountIsOneKeeps ==
  ASSUME RefInv, NEW r \in References, RefCountIsOne(r)
  PROVE  RefInv'
<1>1. r \in Held
  BY DEF Held, RefCountIsOne
<1>2. Held = {r}
  <2>1. Cardinality(Held) = 1
    BY DEF RefInv, CountIsExact, RefCountIsOne
  <2>2. PICK x : Held = {x}
    BY <2>1, HeldFinite, FS_Singleton
  <2> QED
    BY <1>1, <2>2
<1>3. Held' = Held
  BY DEF Held, RefCountIsOne
<1> QED
  BY <1>2, <1>3 DEF RefInv, RefTypeOK, CountIsExact, HolderIsSafe, SoleInv, Freed, RefCountIsOne

\* The CHECK at the start of Unref passes for a holder.
LEMMA UnrefCheckKeeps ==
  ASSUME RefInv, NEW r \in References, UnrefCheck(r)
  PROVE  RefInv'
<1> USE DEF RefInv, RefTypeOK, CountIsExact
<1>1. r \in Held
  BY DEF Held, UnrefCheck
<1>2. ref_ > 0
  BY <1>1, HeldFinite, FS_EmptySet
<1>3. /\ phase' = [phase EXCEPT ![r] = "checked"]
      /\ failed' = failed
      /\ sole' = IF sole = r THEN NoReference ELSE sole
      /\ UNCHANGED <<ref_, destroyed>>
  BY <1>2 DEF UnrefCheck
<1>4. Held' = Held
  BY <1>1, <1>3 DEF Held
<1>5. sole' = NoReference
  BY <1>1, <1>3, ReferenceAssumption DEF SoleInv
<1> QED
  BY <1>3, <1>4, <1>5 DEF HolderIsSafe, SoleInv, Freed

\* The fetch_sub gives up one reference and one count.
LEMMA UnrefSubKeeps ==
  ASSUME RefInv, NEW r \in References, UnrefSub(r)
  PROVE  RefInv'
<1> USE DEF RefInv, RefTypeOK, CountIsExact
<1>1. r \in Held
  BY DEF Held, UnrefSub
<1>2. Held' = Held \ {r}
  BY DEF Held, UnrefSub
<1>3. Cardinality(Held \ {r}) = Cardinality(Held) - 1 /\ Cardinality(Held \ {r}) \in Nat
  BY <1>1, HeldFinite, FS_RemoveElement, FS_CardinalityType
<1>4. ref_' = Cardinality(Held') /\ ref_' \in Nat
  BY <1>2, <1>3 DEF UnrefSub
<1>5. sole = NoReference
  <2>1. phase[r] = "checked"
    BY DEF UnrefSub
  <2> QED
    BY <1>1, <2>1 DEF SoleInv
<1> QED
  BY <1>2, <1>4, <1>5 DEF HolderIsSafe, SoleInv, Freed, UnrefSub

\* The object is deleted only when the count, hence the set of holders, is
\* empty, and nobody can make a reference after that.
LEMMA UnrefLoadKeeps ==
  ASSUME RefInv, NEW r \in References, UnrefLoad(r)
  PROVE  RefInv'
<1> USE DEF RefInv, RefTypeOK, CountIsExact
<1>1. Held' = Held
  BY DEF Held, UnrefLoad
<1>2. destroyed' \in Nat /\ (destroyed' > 0 => Held = {})
  <2>1. PICK zero \in BOOLEAN : /\ ~Freed => zero = (ref_ = 0)
                                /\ destroyed' = IF zero THEN destroyed + 1 ELSE destroyed
    BY DEF UnrefLoad
  <2>2. ref_ = 0 => Held = {}
    BY HeldFinite, FS_EmptySet
  <2> QED
    BY <2>1, <2>2 DEF HolderIsSafe, Freed
<1>3. sole # NoReference => sole # r
  BY DEF SoleInv, UnrefLoad
<1> QED
  BY <1>1, <1>2, <1>3 DEF HolderIsSafe, SoleInv, Freed, UnrefLoad

\* The invariant holds in every reachable state.
LEMMA RefInvHolds == RefSpec => []RefInv
<1>1. RefInv /\ [RefNext]_refVars => RefInv'
  <2> SUFFICES ASSUME RefInv, [RefNext]_refVars PROVE RefInv'
    OBVIOUS
  <2>1. CASE UNCHANGED refVars
    BY <2>1 DEF refVars, RefInv, RefTypeOK, CountIsExact, HolderIsSafe, SoleInv, Freed, Held
  <2> QED
    BY <2>1, RefKeeps, RefCountIsOneKeeps, UnrefCheckKeeps, UnrefSubKeeps, UnrefLoadKeeps DEF RefNext, AllReturned
<1> QED
  BY <1>1, ConstructKeeps, PTL DEF RefSpec

\* The type invariant the run checks; in particular ref_ never goes negative.
THEOREM RefTypeCorrect == RefSpec => []RefTypeOK
  BY RefInvHolds, PTL DEF RefInv

\* ref_ is the number of references held, at every moment.
THEOREM CountCorrect == RefSpec => []CountIsExact
  BY RefInvHolds, PTL DEF RefInv

\* Nobody who holds a reference finds the object deleted or fails a CHECK.
THEOREM HoldersSafe == RefSpec => []HolderIsSafe
  BY RefInvHolds, PTL DEF RefInv

\* The answer of RefCountIsOne stays true until its caller acts on it.
THEOREM SoleOwnership == RefSpec => []SoleOwnerStays
<1>1. RefInv => SoleOwnerStays
  BY DEF RefInv, SoleInv, SoleOwnerStays
<1> QED
  BY <1>1, RefInvHolds, PTL

------------------------------------------------------------------------------
\* The counters are those of this round, and Wait waits for its tasks.
CountInv ==
    /\ finish_num_ = Cardinality(Reported)
    /\ fail_num_ = Cardinality(Failed)
    /\ coordinator \in {"entering", "asleep"} => total_num = Cardinality(Dispatched)
    /\ coordinator = "asleep" => total_num # finish_num_

TaskType == /\ coordinator \in {"dispatch", "entering", "asleep", "returned", "threw"}
            /\ total_num \in 0..Cardinality(Tasks)
            /\ task \in [Tasks -> {"idle", "running", "succeeded", "failed"}]
            /\ round \in 0..MaxRounds

Inv == TaskType /\ CountInv /\ VerdictIsRight

\* The sets of tasks are finite and nested.
LEMMA TaskSets ==
  ASSUME TaskType
  PROVE  /\ IsFiniteSet(Dispatched) /\ IsFiniteSet(Reported) /\ IsFiniteSet(Failed)
         /\ Failed \subseteq Reported /\ Reported \subseteq Dispatched
         /\ Dispatched \subseteq Tasks
<1>1. /\ Failed \subseteq Reported /\ Dispatched \subseteq Tasks /\ Reported \subseteq Tasks
      /\ Reported \subseteq Dispatched
  BY DEF Failed, Reported, Dispatched, Succeeded
<1> QED
  BY <1>1, TaskAssumption, FS_Subset

\* So their cardinalities are numbers that tell them apart.
LEMMA TaskCounts ==
  ASSUME TaskType
  PROVE  /\ Cardinality(Dispatched) \in 0..Cardinality(Tasks)
         /\ Cardinality(Reported) \in 0..Cardinality(Tasks)
         /\ Cardinality(Failed) \in 0..Cardinality(Reported)
         /\ Cardinality(Reported) = Cardinality(Dispatched) <=> Reported = Dispatched
         /\ Cardinality(Failed) = 0 <=> Failed = {}
<1>1. /\ Cardinality(Dispatched) \leq Cardinality(Tasks)
      /\ Cardinality(Reported) \leq Cardinality(Dispatched)
      /\ Cardinality(Reported) = Cardinality(Dispatched) <=> Reported = Dispatched
      /\ Cardinality(Failed) \leq Cardinality(Reported)
  BY TaskSets, TaskAssumption, FS_Subset
<1>2. /\ Cardinality(Dispatched) \in Nat /\ Cardinality(Reported) \in Nat
      /\ Cardinality(Failed) \in Nat /\ Cardinality(Tasks) \in Nat
  BY TaskSets, TaskAssumption, FS_CardinalityType
<1>3. Cardinality(Failed) = 0 <=> Failed = {}
  BY TaskSets, FS_EmptySet
<1> QED
  BY <1>1, <1>2, <1>3

\* Before the first round nothing has been counted.
LEMMA InitInv == SyncInit => Inv
<1> SUFFICES ASSUME SyncInit PROVE Inv
  OBVIOUS
<1>1. Dispatched = {} /\ Reported = {} /\ Failed = {}
  BY DEF SyncInit, Dispatched, Reported, Succeeded, Failed
<1>2. Cardinality({}) = 0 /\ Cardinality(Tasks) \in Nat
  BY TaskAssumption, FS_EmptySet, FS_CardinalityType
<1>3. TaskType
  BY <1>2, TaskAssumption DEF SyncInit, TaskType
<1> QED
  BY <1>1, <1>2, <1>3 DEF SyncInit, Inv, CountInv, VerdictIsRight

\* Clear forgets the last round.
LEMMA ClearInv == Inv /\ Clear => Inv'
<1> SUFFICES ASSUME Inv, Clear PROVE Inv'
  OBVIOUS
<1>1. Reported' = {} /\ Failed' = {}
  BY DEF Clear, Reported, Succeeded, Failed
<1>2. Cardinality({}) = 0
  BY FS_EmptySet
<1>3. TaskType'
  BY TaskAssumption DEF Inv, Clear, TaskType
<1>4. CountInv'
  BY <1>1, <1>2 DEF Clear, CountInv
<1>5. VerdictIsRight'
  BY DEF Clear, VerdictIsRight
<1> QED
  BY <1>3, <1>4, <1>5 DEF Inv

\* Handing out a task reports nothing.
LEMMA DispatchInv == ASSUME Inv, NEW t \in Tasks, Dispatch(t) PROVE Inv'
<1>1. Reported' = Reported /\ Failed' = Failed
  BY DEF Inv, TaskType, Dispatch, Reported, Succeeded, Failed
<1>2. TaskType'
  BY DEF Inv, Dispatch, TaskType
<1>3. CountInv'
  BY <1>1 DEF Inv, Dispatch, CountInv
<1>4. VerdictIsRight'
  BY DEF Dispatch, VerdictIsRight
<1> QED
  BY <1>2, <1>3, <1>4 DEF Inv

\* Wait is called for the tasks handed out.
LEMMA CallWaitInv == Inv /\ CallWait => Inv'
<1> SUFFICES ASSUME Inv, CallWait PROVE Inv'
  OBVIOUS
<1>1. Reported' = Reported /\ Failed' = Failed /\ Dispatched' = Dispatched
  BY DEF CallWait, Reported, Succeeded, Failed, Dispatched
<1>2. TaskType'
  BY TaskCounts DEF Inv, CallWait, TaskType
<1>3. CountInv'
  BY <1>1 DEF Inv, CallWait, CountInv
<1>4. VerdictIsRight'
  BY DEF CallWait, VerdictIsRight
<1> QED
  BY <1>2, <1>3, <1>4 DEF Inv

\* When the numbers agree the tasks that reported are those handed out.
LEMMA WaitInv == Inv /\ Wait => Inv'
<1> SUFFICES ASSUME Inv, Wait PROVE Inv'
  OBVIOUS
<1>1. Reported' = Reported /\ Failed' = Failed /\ Dispatched' = Dispatched
  BY DEF Wait, Reported, Succeeded, Failed, Dispatched
<1>2. TaskType'
  BY DEF Inv, Wait, TaskType
<1>3. CountInv'
  BY <1>1 DEF Inv, Wait, CountInv
<1>4. VerdictIsRight'
  <2>1. total_num = Cardinality(Dispatched)
    BY DEF Inv, Wait, CountInv
  <2>2. coordinator' \in {"returned", "threw"} => Reported = Dispatched
    BY <2>1, TaskCounts DEF Inv, Wait, CountInv
  <2>3. coordinator' = "returned" => Failed = {}
    BY TaskCounts DEF Inv, Wait, CountInv
  <2>4. coordinator' = "threw" => Failed # {}
    BY TaskCounts DEF Inv, Wait, CountInv
  <2> QED
    BY <1>1, <2>2, <2>3, <2>4 DEF VerdictIsRight
<1> QED
  BY <1>2, <1>3, <1>4 DEF Inv

\* A report counts a task that had not reported, in a round that is not over.
LEMMA AddFinishOneInv ==
  ASSUME Inv, NEW t \in Tasks, NEW task_result \in BOOLEAN, AddFinishOne(t, task_result)
  PROVE  Inv'
<1>1. t \in Dispatched /\ t \notin Reported /\ t \notin Failed
  BY DEF AddFinishOne, Dispatched, Reported, Succeeded, Failed
<1>2. coordinator \notin {"returned", "threw"}
  BY <1>1 DEF Inv, VerdictIsRight
<1>3. TaskType'
  BY DEF Inv, AddFinishOne, TaskType
<1>4. /\ Reported' = Reported \cup {t}
      /\ Dispatched' = Dispatched
      /\ Failed' = IF task_result THEN Failed ELSE Failed \cup {t}
  BY <1>1 DEF Inv, TaskType, AddFinishOne, Dispatched, Reported, Succeeded, Failed
<1>5. /\ Cardinality(Reported \cup {t}) = Cardinality(Reported) + 1
      /\ Cardinality(Failed \cup {t}) = Cardinality(Failed) + 1
  BY <1>1, TaskSets, FS_AddElement DEF Inv
<1>6. coordinator' \notin {"asleep", "returned", "threw"}
  BY <1>2 DEF AddFinishOne
<1>7. CountInv'
  <2>1. finish_num_' = Cardinality(Reported') /\ fail_num_' = Cardinality(Failed')
    BY <1>4, <1>5 DEF Inv, CountInv, AddFinishOne
  <2>2. coordinator' = "entering" => total_num' = Cardinality(Dispatched')
    BY <1>4 DEF Inv, CountInv, AddFinishOne
  <2> QED
    BY <1>6, <2>1, <2>2 DEF CountInv
<1>8. VerdictIsRight'
  BY <1>6 DEF VerdictIsRight
<1> QED
  BY <1>3, <1>7, <1>8 DEF Inv

\* Waking up changes no count.
LEMMA SpuriousWakeupInv == Inv /\ SpuriousWakeup => Inv'
<1> SUFFICES ASSUME Inv, SpuriousWakeup PROVE Inv'
  OBVIOUS
<1>1. Reported' = Reported /\ Failed' = Failed /\ Dispatched' = Dispatched
  BY DEF SpuriousWakeup, Reported, Succeeded, Failed, Dispatched
<1> QED
  BY <1>1 DEF SpuriousWakeup, Inv, TaskType, CountInv, VerdictIsRight

\* Every step preserves the invariant.
LEMMA NextInv == Inv /\ [Next]_vars => Inv'
<1> SUFFICES ASSUME Inv, [Next]_vars PROVE Inv'
  OBVIOUS
<1>1. CASE \E t \in Tasks : Dispatch(t)
  BY <1>1, DispatchInv
<1>2. CASE \E t \in Tasks, task_result \in BOOLEAN : AddFinishOne(t, task_result)
  BY <1>2, AddFinishOneInv
<1>3. CASE UNCHANGED vars
  <2>1. Reported' = Reported /\ Failed' = Failed /\ Dispatched' = Dispatched
    BY <1>3 DEF vars, Reported, Succeeded, Failed, Dispatched
  <2> QED
    BY <1>3, <2>1 DEF vars, Inv, TaskType, CountInv, VerdictIsRight
<1> QED
  BY <1>1, <1>2, <1>3, ClearInv, CallWaitInv, WaitInv, SpuriousWakeupInv DEF Next, Finished

\* Inv holds in every state of every behaviour.
LEMMA Invariance == Spec => []Inv
<1> QED
  BY InitInv, NextInv, PTL DEF Spec

\* No more reports are counted in a round than there are tasks.
THEOREM TypeCorrect == Spec => []TypeOK
<1>1. Inv => TypeOK
  BY TaskCounts DEF Inv, TaskType, CountInv, TypeOK
<1> QED
  BY <1>1, Invariance, PTL

\* Wait returns or throws only when, and according to what, the tasks of this
\* round reported, for any number of tasks and rounds.
THEOREM VerdictCorrect == Spec => []VerdictIsRight
<1>1. Inv => VerdictIsRight
  BY DEF Inv
<1> QED
  BY <1>1, Invariance, PTL

\* No wakeup is lost: the coordinator never sleeps when all have reported.
THEOREM NoLostWakeup == Spec => []SleepsOnlyForReports
<1>1. Inv => SleepsOnlyForReports
  BY TaskCounts DEF Inv, CountInv, SleepsOnlyForReports
<1> QED
  BY <1>1, Invariance, PTL
==============================================================================
