---------------------- MODULE BoundedBlockingQueueProofs ----------------------
(***************************************************************************)
(* Safety of BoundedBlockingQueue for any number of producers, consumers   *)
(* and pushes, any capacity and any width of size_t.                       *)
(***************************************************************************)
EXTENDS BoundedBlockingQueue, TLAPS, SequenceTheorems

\* A producer inside Push has counted that call, so that its value exists.
InsidePush == \A p \in Producers : phase[p] # "outside" => pushes[p] > 0

\* The inductive invariant behind the type invariant.
TypeInv == TypeOK /\ InsidePush

\* A capacity converted to size_t is a natural number, also if it was negative.
LEMMA LimitIsNatural == Limit \in Nat
  BY QueueAssumption DEF Limit

\* notify_all changes only where sleeping threads are.
LEMMA NotifyAllType ==
  ASSUME NEW T, TypeOK
  PROVE  NotifyAll(T) \in [Threads -> {"outside", "entering", "asleep"}]
  BY DEF TypeOK, NotifyAll

\* The value a producer inside Push is about to push.
LEMMA PushedValue ==
  ASSUME TypeInv, NEW p \in Producers, phase[p] = "entering"
  PROVE  <<p, pushes[p]>> \in Values
<1>1. pushes[p] \in 1..MaxPushes
  BY QueueAssumption DEF TypeInv, TypeOK, InsidePush
<1> QED
  BY <1>1 DEF Values

\* Every step preserves the types of the queue, of its threads' phases and of
\* the histories, and counts a push before it is made.
LEMMA TypeInvariant == Spec => []TypeInv
<1>1. QueueInit => TypeInv
  BY QueueAssumption DEF QueueInit, TypeInv, TypeOK, InsidePush, Values, Threads
<1>2. TypeInv /\ [Next]_vars => TypeInv'
  <2> SUFFICES ASSUME TypeInv, [Next]_vars PROVE TypeInv'
    OBVIOUS
  <2> USE QueueAssumption DEF TypeInv, TypeOK, InsidePush, Threads
  <2>1. ASSUME NEW p \in Producers, CallPush(p) PROVE TypeInv'
    BY <2>1 DEF CallPush
  <2>2. ASSUME NEW p \in Producers, Push(p) PROVE TypeInv'
    <3>1. <<p, pushes[p]>> \in Values
      BY <2>2, PushedValue DEF Push
    <3>2. CASE Len(queue_) < Limit
      <4>1. queue_' \in Seq(Values)
        <5>1. queue_' = Append(queue_, <<p, pushes[p]>>)
          BY <2>2, <3>2 DEF Push
        <5>2. queue_ \in Seq(Values)
          OBVIOUS
        <5> HIDE DEF TypeInv
        <5> QED
          BY <5>1, <5>2, <3>1, AppendProperties, Zenon
      <4>2. phase' = [NotifyAll(Consumers) EXCEPT ![p] = "outside"] /\ UNCHANGED <<pushes, taken>>
        BY <2>2, <3>2 DEF Push
      <4> QED
        BY <4>1, <4>2 DEF NotifyAll
    <3>3. CASE ~(Len(queue_) < Limit)
      BY <2>2, <3>3 DEF Push
    <3> QED
      BY <3>2, <3>3
  <2>3. ASSUME NEW c \in Consumers, CallWaitTake(c) PROVE TypeInv'
    BY <2>3 DEF CallWaitTake
  <2>4. ASSUME NEW c \in Consumers, WaitTake(c) PROVE TypeInv'
    <3>1. CASE ~Empty
      <4>1. Head(queue_) \in Values /\ Tail(queue_) \in Seq(Values)
        BY <3>1, HeadTailProperties DEF Empty
      <4>2. queue_' \in Seq(Values) /\ taken' \in Seq(Values)
        <5>1. queue_' = Tail(queue_) /\ taken' = Append(taken, Head(queue_))
          BY <2>4, <3>1 DEF WaitTake
        <5>2. taken \in Seq(Values)
          OBVIOUS
        <5> HIDE DEF TypeInv
        <5> QED
          BY <5>1, <5>2, <4>1, AppendProperties, Zenon
      <4>3. phase' = [NotifyAll(Producers) EXCEPT ![c] = "outside"] /\ UNCHANGED pushes
        BY <2>4, <3>1 DEF WaitTake
      <4>4. \A p \in Producers : phase[p] = "outside" => phase'[p] = "outside"
        BY <4>3 DEF NotifyAll
      <4>5. phase' \in [Threads -> {"outside", "entering", "asleep"}]
        BY <4>3 DEF NotifyAll
      <4> QED
        BY <4>2, <4>3, <4>4, <4>5
    <3>2. CASE Empty
      BY <2>4, <3>2 DEF WaitTake
    <3> QED
      BY <3>1, <3>2
  <2>5. ASSUME NEW t \in Threads, SpuriousWakeup(t) PROVE TypeInv'
    BY <2>5 DEF SpuriousWakeup
  <2>6. CASE UNCHANGED vars
    BY <2>6 DEF vars
  <2> QED
    BY <2>1, <2>2, <2>3, <2>4, <2>5, <2>6 DEF Next
<1> QED
  BY <1>1, <1>2, PTL DEF Spec

\* The type invariant the run checks (Push, WaitTake and their callers).
THEOREM TypeCorrect == Spec => []TypeOK
  BY TypeInvariant, PTL DEF TypeInv

\* The queue never exceeds its capacity, and no sleeper has missed a wakeup,
\* whatever steals the slot or the element a woken thread was woken for.
THEOREM QueueSafe == Spec => [](CapacityRespected /\ SleepersHaveReason)
<1> DEFINE Inv == CapacityRespected /\ SleepersHaveReason
<1>1. QueueInit => Inv
  BY LimitIsNatural DEF QueueInit, CapacityRespected, SleepersHaveReason, Threads
<1>2. TypeOK /\ Inv /\ [Next]_vars => Inv'
  <2> SUFFICES ASSUME TypeOK, Inv, [Next]_vars PROVE Inv'
    OBVIOUS
  <2> USE QueueAssumption, LimitIsNatural
      DEF TypeOK, CapacityRespected, SleepersHaveReason, Threads, Full, Empty
  <2>1. ASSUME NEW p \in Producers, CallPush(p) PROVE Inv'
    BY <2>1 DEF CallPush, Limit
  <2>2. ASSUME NEW p \in Producers, Push(p) PROVE Inv'
    <3>1. CASE Len(queue_) < Limit
      <4>1. Len(queue_') = Len(queue_) + 1
        BY <2>2, <3>1 DEF Push
      <4>2. phase' = [NotifyAll(Consumers) EXCEPT ![p] = "outside"]
        BY <2>2, <3>1 DEF Push
      <4>3. \A c \in Consumers : phase'[c] # "asleep"
        BY <4>2 DEF NotifyAll
      <4>4. \A q \in Producers : phase'[q] # "asleep"
        <5>1. \A q \in Producers : phase[q] # "asleep"
          BY <3>1
        <5> QED
          BY <5>1, <4>2 DEF NotifyAll
      <4> QED
        BY <3>1, <4>1, <4>3, <4>4 DEF Limit
    <3>2. CASE ~(Len(queue_) < Limit)
      BY <2>2, <3>2 DEF Push, Limit
    <3> QED
      BY <3>1, <3>2
  <2>3. ASSUME NEW c \in Consumers, CallWaitTake(c) PROVE Inv'
    BY <2>3 DEF CallWaitTake, Limit
  <2>4. ASSUME NEW c \in Consumers, WaitTake(c) PROVE Inv'
    <3>1. CASE ~Empty
      <4>1. Len(queue_') = Len(queue_) - 1
        BY <2>4, <3>1, HeadTailProperties DEF WaitTake
      <4>2. phase' = [NotifyAll(Producers) EXCEPT ![c] = "outside"]
        BY <2>4, <3>1 DEF WaitTake
      <4>3. \A p \in Producers : phase'[p] # "asleep"
        BY <4>2 DEF NotifyAll
      <4>4. \A d \in Consumers : phase'[d] # "asleep"
        BY <3>1, <4>2 DEF NotifyAll
      <4>5. Len(queue_') <= Limit
        <5>1. Len(queue_) \in Nat
          OBVIOUS
        <5> QED
          BY <4>1, <5>1
      <4> QED
        BY <4>3, <4>4, <4>5 DEF Limit
    <3>2. CASE Empty
      BY <2>4, <3>2 DEF WaitTake, Limit
    <3> QED
      BY <3>1, <3>2
  <2>5. ASSUME NEW t \in Threads, SpuriousWakeup(t) PROVE Inv'
    BY <2>5 DEF SpuriousWakeup, Limit
  <2>6. CASE UNCHANGED vars
    BY <2>6 DEF vars, Limit
  <2> QED
    BY <2>1, <2>2, <2>3, <2>4, <2>5, <2>6 DEF Next
<1> QED
  BY <1>1, <1>2, TypeCorrect, PTL DEF Spec

\* Appending to the queue appends to what was sent.
LEMMA PushSends ==
  ASSUME NEW S, NEW s \in Seq(S), NEW q \in Seq(S), NEW e \in S
  PROVE  s \o Append(q, e) = Append(s \o q, e)
<1>1. Append(q, e) = q \o <<e>> /\ Append(s \o q, e) = (s \o q) \o <<e>>
  BY AppendIsConcat, ConcatProperties
<1>2. <<e>> \in Seq(S)
  OBVIOUS
<1> QED
  BY <1>1, <1>2, ConcatAssociative

\* Moving the head of the queue to what was taken changes neither the whole
\* nor its order; the head is the next element of the whole.
LEMMA TakeDelivers ==
  ASSUME NEW S, NEW s \in Seq(S), NEW q \in Seq(S), q # << >>
  PROVE  /\ Append(s, Head(q)) \o Tail(q) = s \o q
         /\ (s \o q)[Len(s) + 1] = Head(q)
         /\ Len(s) < Len(s \o q)
<1>1. Head(q) \in S /\ Tail(q) \in Seq(S) /\ <<Head(q)>> \in Seq(S)
  BY HeadTailProperties
<1>2. q = <<Head(q)>> \o Tail(q)
  <2>1. Len(q) \in Nat \ {0}
    BY EmptySeq
  <2>2. SubSeq(q, 1, Len(q)) = <<q[1]>> \o SubSeq(q, 2, Len(q))
    BY <2>1, SubSeqRecursiveFirst
  <2>3. q = SubSeq(q, 1, Len(q)) /\ Tail(q) = SubSeq(q, 2, Len(q))
    BY SubSeqFull, TailIsSubSeq
  <2>4. Head(q) = q[1]
    OBVIOUS
  <2> QED
    BY <2>2, <2>3, <2>4
<1>3. Append(s, Head(q)) = s \o <<Head(q)>>
  BY <1>1, AppendIsConcat
<1>4. (s \o <<Head(q)>>) \o Tail(q) = s \o (<<Head(q)>> \o Tail(q))
  BY <1>1, ConcatAssociative
<1>5. Len(q) > 0 /\ Len(q) \in Nat /\ Len(s) \in Nat
  BY EmptySeq
<1>6. (s \o q)[Len(s) + 1] = q[1] /\ Len(s \o q) = Len(s) + Len(q)
  BY <1>5, ConcatProperties
<1>7. Append(s, Head(q)) \o Tail(q) = s \o q
  BY <1>2, <1>3, <1>4, Zenon
<1>8. q[1] = Head(q) /\ Len(s) < Len(s \o q)
  BY <1>5, <1>6
<1> QED
  BY <1>6, <1>7, <1>8, Zenon

\* Every step of the threads is a step of the abstract channel or leaves it
\* alone: the queue is first in, first out, loses and duplicates nothing and
\* never holds more than its capacity.
THEOREM QueueIsChannel == Spec => ChannelOf!ChannelSafe
<1>1. QueueInit => ChannelOf!ChannelInit
  BY DEF QueueInit, ChannelOf!ChannelInit
<1>2. TypeInv /\ [Next]_vars => [ChannelOf!ChannelNext]_(ChannelOf!channelVars)
  <2> SUFFICES ASSUME TypeInv, [Next]_vars
               PROVE  \/ ChannelOf!ChannelNext
                      \/ taken' \o queue_' = taken \o queue_ /\ taken' = taken
    BY DEF ChannelOf!channelVars
  <2> USE DEF TypeInv, TypeOK
  <2>1. ASSUME NEW p \in Producers, Push(p), Len(queue_) < Limit
        PROVE  ChannelOf!ChannelNext
    <3>1. <<p, pushes[p]>> \in Values
      BY <2>1, PushedValue DEF Push
    <3>2. queue_' = Append(queue_, <<p, pushes[p]>>) /\ taken' = taken
      BY <2>1 DEF Push
    <3>3. taken' \o queue_' = Append(taken \o queue_, <<p, pushes[p]>>)
      <4>1. queue_ \in Seq(Values) /\ taken \in Seq(Values)
        OBVIOUS
      <4>2. taken \o Append(queue_, <<p, pushes[p]>>) = Append(taken \o queue_, <<p, pushes[p]>>)
        BY <3>1, <4>1, PushSends
      <4> QED
        BY <3>2, <4>2
    <3>4. Len(taken \o queue_) < Len(taken) + Limit
      <4>1. Len(taken \o queue_) = Len(taken) + Len(queue_)
        BY ConcatProperties
      <4>2. Len(taken) \in Nat /\ Len(queue_) \in Nat
        OBVIOUS
      <4> QED
        BY <2>1, <4>1, <4>2, LimitIsNatural
    <3> QED
      BY <3>1, <3>2, <3>3, <3>4 DEF ChannelOf!ChannelNext, ChannelOf!Send
  <2>2. ASSUME NEW c \in Consumers, WaitTake(c), ~Empty
        PROVE  ChannelOf!ChannelNext
    <3>1. queue_' = Tail(queue_) /\ taken' = Append(taken, Head(queue_))
      BY <2>2 DEF WaitTake
    <3>2. queue_ # << >>
      BY <2>2 DEF Empty
    <3>3. /\ taken' \o queue_' = taken \o queue_
          /\ taken' = Append(taken, (taken \o queue_)[Len(taken) + 1])
          /\ Len(taken) < Len(taken \o queue_)
      BY <3>1, <3>2, TakeDelivers
    <3> QED
      BY <3>3 DEF ChannelOf!ChannelNext, ChannelOf!Deliver
  <2>3. ASSUME NEW p \in Producers, CallPush(p) \/ (Push(p) /\ ~(Len(queue_) < Limit))
        PROVE  UNCHANGED <<queue_, taken>>
    BY <2>3 DEF CallPush, Push
  <2>4. ASSUME NEW c \in Consumers, CallWaitTake(c) \/ (WaitTake(c) /\ Empty)
        PROVE  UNCHANGED <<queue_, taken>>
    BY <2>4 DEF CallWaitTake, WaitTake
  <2>5. ASSUME NEW t \in Threads, SpuriousWakeup(t)
        PROVE  UNCHANGED <<queue_, taken>>
    BY <2>5 DEF SpuriousWakeup
  <2>6. CASE UNCHANGED vars
    BY <2>6 DEF vars
  <2> QED
    BY <2>1, <2>2, <2>3, <2>4, <2>5, <2>6 DEF Next
<1> QED
  BY <1>1, <1>2, TypeInvariant, PTL DEF Spec, ChannelOf!ChannelSafe
==============================================================================
