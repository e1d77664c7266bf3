-------------------------- MODULE AsyncLoggingProofs --------------------------
(***************************************************************************)
(* Safety of AsyncLogging for any messages and any buffer they fit in.     *)
(***************************************************************************)
EXTENDS AsyncLogging, TLAPS, SequenceTheorems, NaturalsInduction, WellFoundedInduction

\* Two buffers are on the loggers' side of mutex_, whatever they append: the
\* consumer's next exchange always finds next_buf_ or a full buffer.
SharedInv ==
    IF crash = "null pointer in Append"
    THEN current_buf_ = Null /\ next_buf_ = Null /\ Len(buffers_) = 2
    ELSE current_buf_ # Null /\ Len(buffers_) = 1 - Held(next_buf_)

\* Two are on the consumer's: spare, or on their way to the file.
LocalInv ==
    /\ consumer = "start" => buf1 = Null /\ buf2 = Null /\ write_buffers = << >>
    /\ consumer \in {"loop", "lock", "asleep", "leave", "done"} =>
           buf1 = EmptyBuffer /\ buf2 = EmptyBuffer /\ write_buffers = << >>
    /\ consumer \in {"trim", "write", "refill"} =>
           buf1 = Null /\ Len(write_buffers) = 2 - Held(buf2)
    /\ buf2 \in {Null, EmptyBuffer}

Inv == TypeOK /\ SharedInv /\ LocalInv

\* A new buffer is a buffer, and no pointer to one is null.
LEMMA NewBuffer == EmptyBuffer \in Buffer /\ EmptyBuffer # Null
<1>1. << >> \in Seq(Messages)
  BY EmptySeq
<1>2. 0 \in 0..BufferSize
  BY BufferAssumption
<1>3. EmptyBuffer \in Buffer
  BY <1>1, <1>2 DEF EmptyBuffer, Buffer
<1> QED
  BY <1>3, BufferAssumption

\* What Append leaves in a buffer fits in it.
LEMMA BufferAppend ==
  ASSUME NEW b \in Buffer, NEW m \in Messages
  PROVE  DataBufferAppend(b, m) \in Buffer
<1>1. /\ b.data \in Seq(Messages) /\ b.length \in 0..BufferSize
      /\ Size[m] \in Nat /\ BufferSize \in Nat
  BY BufferAssumption DEF Buffer
<1>2. Append(b.data, m) \in Seq(Messages)
  BY <1>1, AppendProperties
<1>3. CASE BufferSize - b.length > Size[m]
  <2>1. b.length + Size[m] \in 0..BufferSize
    BY <1>1, <1>3
  <2> QED
    BY <1>2, <1>3, <2>1 DEF DataBufferAppend, Avail, Buffer
<1>4. CASE ~(BufferSize - b.length > Size[m])
  BY <1>4 DEF DataBufferAppend, Avail
<1> QED
  BY <1>3, <1>4

\* Lengths of well-typed sequences are natural numbers.
LEMMA Lengths ==
  ASSUME TypeOK
  PROVE  Len(file) \in Nat /\ Len(buffers_) \in Nat /\ Len(write_buffers) \in Nat
<1>1. /\ file \in Seq(Messages \cup {DropNotice})
      /\ buffers_ \in Seq(Buffer) /\ write_buffers \in Seq(Buffer)
  BY DEF TypeOK
<1> QED
  BY <1>1, LenProperties

\* The number of buffers behind each pointer.
LEMMA HeldValues == Held(Null) = 0 /\ \A b : b # Null => Held(b) = 1
  BY DEF Held

\* The object is created with two buffers and the consumer has none yet.
LEMMA InitInv == LoggingInit => Inv
<1> SUFFICES ASSUME LoggingInit PROVE Inv
  OBVIOUS
<1> USE NewBuffer, EmptySeq DEF LoggingInit
<1>1. TypeOK
  BY DEF TypeOK
<1>2. SharedInv
  BY DEF SharedInv, Held
<1>3. LocalInv
  BY DEF LocalInv
<1> QED
  BY <1>1, <1>2, <1>3 DEF Inv

\* The owner's calls move no buffer.
LEMMA OwnerInv == Inv /\ (Construct \/ Start \/ Stop \/ StopJoins) => Inv'
<1> SUFFICES ASSUME Inv, Construct \/ Start \/ Stop \/ StopJoins PROVE Inv'
  OBVIOUS
<1>1. /\ UNCHANGED <<sharedVars, localVars, consumer, crash, fileVars, appended>>
      /\ stop_' \in BOOLEAN
      /\ owner' \in {"constructing", "constructed", "running", "joining", "stopped"}
  BY DEF Inv, TypeOK, Construct, Start, Stop, StopJoins
<1> QED
  BY <1>1 DEF Inv, TypeOK, SharedInv, LocalInv, Held, sharedVars, localVars, fileVars

\* Append moves a full buffer to buffers_ and next_buf_ into its place, or
\* dies if there is none.
LEMMA AppendInv ==
  ASSUME Inv, NEW m \in Messages, AppendMessage(m)
  PROVE  Inv'
<1> USE DEF Inv
<1>1. crash = "none" /\ current_buf_ # Null /\ current_buf_ \in Buffer
  BY DEF AppendMessage, Running, SharedInv, TypeOK
<1>2. LocalInv'
  BY DEF AppendMessage, LocalInv, Held, localVars
<1>3. Append(appended, m) \in Seq(Messages)
  BY AppendProperties DEF TypeOK
<1>4. CASE Avail(current_buf_) > Size[m]
  <2>1. /\ current_buf_' = DataBufferAppend(current_buf_, m)
        /\ appended' = Append(appended, m)
        /\ UNCHANGED <<stop_, buffers_, next_buf_, crash, localVars, consumer, owner, fileVars>>
    BY <1>4 DEF AppendMessage
  <2>2. current_buf_' \in Buffer /\ current_buf_' # Null
    BY <1>1, <2>1, BufferAppend, BufferAssumption
  <2>3. TypeOK'
    BY <1>3, <2>1, <2>2 DEF TypeOK, localVars, fileVars
  <2>4. SharedInv'
    BY <1>1, <2>1, <2>2 DEF SharedInv, Held
  <2> QED
    BY <1>2, <2>3, <2>4
<1>5. CASE ~(Avail(current_buf_) > Size[m])
  <2>1. /\ buffers_' = Append(buffers_, current_buf_)
        /\ next_buf_' = Null
        /\ UNCHANGED <<stop_, localVars, consumer, owner, fileVars>>
    BY <1>5 DEF AppendMessage
  <2>2. buffers_' \in Seq(Buffer) /\ Len(buffers_') = Len(buffers_) + 1
    BY <1>1, <2>1, AppendProperties DEF TypeOK
  <2>3. CASE next_buf_ # Null
    <3>1. /\ current_buf_' = DataBufferAppend(next_buf_, m)
          /\ appended' = Append(appended, m)
          /\ UNCHANGED crash
      BY <1>5, <2>3 DEF AppendMessage
    <3>2. current_buf_' \in Buffer /\ current_buf_' # Null
      BY <2>3, <3>1, BufferAppend, BufferAssumption DEF TypeOK
    <3>3. TypeOK'
      BY <1>3, <2>1, <2>2, <3>1, <3>2 DEF TypeOK, localVars, fileVars
    <3>4. SharedInv'
      BY <1>1, <2>1, <2>2, <2>3, <3>1, <3>2 DEF SharedInv, Held
    <3> QED
      BY <1>2, <3>3, <3>4
  <2>4. CASE next_buf_ = Null
    <3>1. /\ current_buf_' = Null
          /\ crash' = "null pointer in Append"
          /\ UNCHANGED appended
      BY <1>5, <2>4 DEF AppendMessage
    <3>2. TypeOK'
      BY <2>1, <2>2, <3>1 DEF TypeOK, localVars, fileVars
    <3>3. Len(buffers_) = 1
      BY <1>1, <2>4 DEF SharedInv, Held
    <3>4. SharedInv'
      <4>1. Len(buffers_') = 2
        BY <2>2, <3>3
      <4> QED
        BY <2>1, <3>1, <4>1 DEF SharedInv
    <3> QED
      BY <1>2, <3>2, <3>4
  <2> QED
    BY <2>3, <2>4
<1> QED
  BY <1>4, <1>5

\* The thread makes its two spare buffers, or dies of its first assertion.
LEMMA StartInv == Inv /\ ConsumerStart => Inv'
<1> SUFFICES ASSUME Inv, ConsumerStart PROVE Inv'
  OBVIOUS
<1> USE DEF Inv
<1>1. SharedInv'
  BY DEF ConsumerStart, Running, SharedInv, Held, sharedVars
<1>2. TypeOK'
  BY NewBuffer DEF ConsumerStart, TypeOK, sharedVars, fileVars
<1>3. LocalInv'
  BY NewBuffer DEF ConsumerStart, LocalInv, TypeOK
<1> QED
  BY <1>1, <1>2, <1>3

\* The exchange leaves the loggers two empty buffers and takes what they had.
LEMMA ExchangeInv ==
  ASSUME Inv, Running, consumer \in {"lock", "asleep"}, Exchange,
         UNCHANGED <<stop_, written, owner, crash, fileVars, appended>>
  PROVE  Inv'
<1> USE DEF Inv
<1>1. /\ buf1 = EmptyBuffer /\ buf2 = EmptyBuffer /\ write_buffers = << >>
      /\ current_buf_ \in Buffer
      /\ Len(buffers_) = 1 - Held(next_buf_)
      /\ crash = "none"
  BY DEF LocalInv, SharedInv, Running, TypeOK
<1>2. /\ write_buffers' \in Seq(Buffer)
      /\ Len(write_buffers') = Len(buffers_) + 1
  BY <1>1, AppendProperties DEF Exchange, TypeOK
<1>3. /\ buffers_' = << >> /\ buffers_' \in Seq(Buffer) /\ Len(buffers_') = 0
  BY <1>1, EmptySeq DEF Exchange
<1>4. /\ current_buf_' = EmptyBuffer /\ next_buf_' # Null /\ next_buf_' \in Buffer
      /\ buf1' = Null /\ buf2' = (IF next_buf_ = Null THEN Null ELSE EmptyBuffer)
      /\ consumer' = "trim"
  BY <1>1, NewBuffer DEF Exchange, TypeOK
<1>5. written = 0 /\ written' = 0
  BY <1>1, EmptySeq DEF TypeOK
<1>6. TypeOK'
  <2>1. written' \in 0..Len(write_buffers')
    BY <1>2, <1>5, Lengths
  <2> QED
    BY <1>2, <1>3, <1>4, <2>1, NewBuffer DEF TypeOK, fileVars
<1>7. SharedInv'
  BY <1>1, <1>3, <1>4, NewBuffer DEF SharedInv, Held
<1>8. Len(write_buffers') = 2 - Held(buf2)'
  BY <1>1, <1>2, <1>4, NewBuffer DEF Held
<1>9. LocalInv'
  BY <1>4, <1>8 DEF LocalInv
<1> QED
  BY <1>6, <1>7, <1>9

\* Two buffers at most are written, never as many as the code would trim.
LEMMA TrimInv == Inv /\ ConsumerTrims => Inv'
<1> SUFFICES ASSUME Inv, ConsumerTrims PROVE Inv'
  OBVIOUS
<1> USE DEF Inv
<1>1. Len(write_buffers) \leq 2
  <2>1. Len(write_buffers) = 2 - Held(buf2)
    BY DEF ConsumerTrims, LocalInv
  <2> QED
    BY <2>1, HeldValues
<1>2. UNCHANGED <<write_buffers, file>> /\ consumer = "trim" /\ consumer' = "write"
  BY <1>1, BufferAssumption DEF ConsumerTrims
<1>3. SharedInv'
  BY DEF ConsumerTrims, SharedInv, Held, sharedVars
<1>4. TypeOK'
  BY <1>2 DEF ConsumerTrims, TypeOK, sharedVars
<1>5. LocalInv'
  BY <1>2 DEF ConsumerTrims, LocalInv, Held
<1> QED
  BY <1>3, <1>4, <1>5

\* The buffers are written in turn.
LEMMA WriteInv == Inv /\ ConsumerWrites => Inv'
<1> SUFFICES ASSUME Inv, ConsumerWrites PROVE Inv'
  OBVIOUS
<1> USE DEF Inv
<1>1. SharedInv'
  BY DEF ConsumerWrites, SharedInv, Held, sharedVars
<1>2. LocalInv'
  BY DEF ConsumerWrites, LocalInv, Held
<1>3. CASE written < Len(write_buffers)
  <2> DEFINE d == write_buffers[written + 1].data
  <2>1. write_buffers[written + 1] \in Buffer /\ written + 1 \in 0..Len(write_buffers)
    <3>1. write_buffers \in Seq(Buffer) /\ written \in 0..Len(write_buffers)
      BY DEF TypeOK
    <3>2. written + 1 \in 1..Len(write_buffers)
      BY <1>3, <3>1, Lengths
    <3> QED
      BY <3>1, <3>2, ElementOfSeq, Lengths
  <2>2. d \in Seq(Messages \cup {DropNotice})
    BY <2>1 DEF Buffer
  <2>3. file \o d \in Seq(Messages \cup {DropNotice}) /\ Len(file \o d) = Len(file) + Len(d)
    BY <2>2, ConcatProperties DEF TypeOK
  <2>4. Len(d) \in Nat /\ Len(file) \in Nat
    BY <2>2, LenProperties DEF TypeOK
  <2>5. flushed \in 0..Len(file \o d)
    <3>1. flushed \in 0..Len(file)
      BY DEF TypeOK
    <3> QED
      BY <2>3, <2>4, <3>1
  <2>6. TypeOK'
    BY <1>3, <2>1, <2>3, <2>5 DEF ConsumerWrites, TypeOK, sharedVars
  <2> QED
    BY <1>1, <1>2, <2>6
<1>4. CASE ~(written < Len(write_buffers))
  <2>1. TypeOK'
    BY <1>4 DEF ConsumerWrites, TypeOK, sharedVars
  <2> QED
    BY <1>1, <1>2, <2>1
<1> QED
  BY <1>3, <1>4

\* The round ends with two empty spare buffers again.
LEMMA RefillInv == Inv /\ ConsumerRefills => Inv'
<1> SUFFICES ASSUME Inv, ConsumerRefills PROVE Inv'
  OBVIOUS
<1> USE DEF Inv
<1>1. SharedInv'
  BY DEF ConsumerRefills, SharedInv, Held, sharedVars
<1>2. buf1' = EmptyBuffer /\ buf2' = EmptyBuffer /\ write_buffers' = << >> /\ consumer' = "loop"
  BY DEF ConsumerRefills, LocalInv
<1>3. LocalInv'
  BY <1>2 DEF LocalInv
<1>4. Len(file) \in 0..Len(file)
  BY Lengths
<1>5. /\ << >> \in Seq(Buffer)
      /\ 0 \in 0..Len(<< >>)
  BY EmptySeq
<1>6. TypeOK'
  BY <1>2, <1>4, <1>5, NewBuffer DEF ConsumerRefills, TypeOK, sharedVars
<1> QED
  BY <1>1, <1>3, <1>6

\* Every step preserves the invariant.
LEMMA NextInv == Inv /\ [Next]_vars => Inv'
<1> SUFFICES ASSUME Inv, [Next]_vars PROVE Inv'
  OBVIOUS
<1>1. CASE ConsumerLoop
  BY <1>1 DEF ConsumerLoop, Inv, TypeOK, SharedInv, LocalInv, Held, sharedVars, localVars, fileVars
<1>2. CASE ConsumerLock
  <2>1. CASE buffers_ = << >>
    BY <1>2, <2>1
    DEF ConsumerLock, Inv, TypeOK, SharedInv, LocalInv, Held, sharedVars, fileVars
  <2>2. CASE buffers_ # << >>
    BY <1>2, <2>2, ExchangeInv DEF ConsumerLock
  <2> QED
    BY <2>1, <2>2
<1>3. CASE ConsumerWakes
  BY <1>3, ExchangeInv DEF ConsumerWakes
<1>4. CASE ConsumerLeaves
  <2>1. Len(file) \in 0..Len(file)
    BY Lengths DEF Inv
  <2> QED
    BY <1>4, <2>1
    DEF ConsumerLeaves, Inv, TypeOK, SharedInv, LocalInv, Held, sharedVars, localVars
<1>5. CASE UNCHANGED vars
  <2>1. TypeOK'
    BY <1>5 DEF vars, Inv, TypeOK, sharedVars, localVars, fileVars
  <2>2. SharedInv' /\ LocalInv'
    BY <1>5 DEF vars, Inv, SharedInv, LocalInv, Held, sharedVars, localVars
  <2> QED
    BY <2>1, <2>2 DEF Inv
<1>6. CASE \E m \in Messages : AppendMessage(m)
  BY <1>6, AppendInv
<1> QED
  BY <1>1, <1>2, <1>3, <1>4, <1>5, <1>6, OwnerInv, StartInv, TrimInv, WriteInv, RefillInv
  DEF Next, Consumer, Ended

\* Inv holds in every state of every behaviour.
LEMMA Invariance == Spec => []Inv
<1> QED
  BY InitInv, NextInv, PTL DEF Spec

\* Type correctness: in particular no buffer ever holds more than BufferSize.
THEOREM TypeCorrect == Spec => []TypeOK
<1>1. Inv => TypeOK
  BY DEF Inv
<1> QED
  BY <1>1, Invariance, PTL

\* None of the assertions inside the loop of ConsumeLog can fail.
THEOREM AssertionsHold == Spec => []ConsumerAssertions
<1>1. Inv => ConsumerAssertions
  <2> SUFFICES ASSUME Inv PROVE ConsumerAssertions
    OBVIOUS
  <2>1. consumer \in {"trim", "refill"} => Len(write_buffers) = 2 - Held(buf2) /\ buf1 = Null
    BY DEF Inv, LocalInv
  <2>2. consumer = "trim" => write_buffers # << >>
    BY <2>1, EmptySeq DEF Held
  <2> QED
    BY <2>1, <2>2 DEF ConsumerAssertions, Inv, LocalInv, Held
<1> QED
  BY <1>1, Invariance, PTL

\* Four buffers circulate, however long the program logs: the trimming of a
\* backlog of more than DropLimit buffers is dead code for every DropLimit.
THEOREM BuffersConserved == Spec => []FourBuffers
<1>1. Inv => FourBuffers
  <2> SUFFICES ASSUME Inv PROVE FourBuffers
    OBVIOUS
  <2>1. Held(current_buf_) + Held(next_buf_) + Len(buffers_) = 2
    <3>1. CASE crash = "null pointer in Append"
      <4>1. current_buf_ = Null /\ next_buf_ = Null /\ Len(buffers_) = 2
        BY <3>1 DEF Inv, SharedInv
      <4>2. Held(current_buf_) = 0 /\ Held(next_buf_) = 0
        BY <4>1, HeldValues
      <4> QED
        BY <4>1, <4>2
    <3>2. CASE crash # "null pointer in Append"
      <4>1. Held(current_buf_) = 1 /\ Len(buffers_) = 1 - Held(next_buf_)
        BY <3>2, HeldValues DEF Inv, SharedInv
      <4> QED
        BY <4>1, HeldValues
    <3> QED
      BY <3>1, <3>2
  <2>2. Held(EmptyBuffer) = 1 /\ Len(<< >>) = 0
    BY NewBuffer, HeldValues, EmptySeq
  <2>3. \/ consumer = "start"
        \/ consumer \in {"loop", "lock", "asleep", "leave", "done"}
        \/ consumer \in {"trim", "write", "refill"}
    BY DEF Inv, TypeOK
  <2>4. CASE consumer = "start"
    BY <2>2, <2>4 DEF Inv, LocalInv, FourBuffers
  <2>5. CASE consumer \in {"loop", "lock", "asleep", "leave", "done"}
    <3>1. buf1 = EmptyBuffer /\ buf2 = EmptyBuffer /\ write_buffers = << >>
      BY <2>5 DEF Inv, LocalInv
    <3> QED
      BY <2>1, <2>2, <3>1, HeldValues, Lengths DEF FourBuffers, Inv
  <2>6. CASE consumer \in {"trim", "write", "refill"}
    <3>1. buf1 = Null /\ Len(write_buffers) = 2 - Held(buf2)
      BY <2>6 DEF Inv, LocalInv
    <3> QED
      BY <2>1, <3>1, HeldValues, Lengths DEF FourBuffers, Inv
  <2> QED
    BY <2>3, <2>4, <2>5, <2>6
<1> QED
  BY <1>1, Invariance, PTL

------------------------------------------------------------------------------
(* How full the buffers are when Append dies.                               *)

\* A buffer waits for the consumer only if some message found no room in it.
FullInv == \A i \in 1..Len(buffers_) : \E m \in Messages : Avail(buffers_[i]) <= Size[m]

\* Append queues a buffer only for lack of room, and an exchange leaves none.
LEMMA NextFullInv == ASSUME Inv, FullInv, [Next]_vars PROVE FullInv'
<1>1. CASE buffers_' = buffers_
  BY <1>1 DEF FullInv, Avail
<1>2. CASE buffers_' = << >>
  BY <1>2, EmptySeq DEF FullInv
<1>3. ASSUME NEW m \in Messages, AppendMessage(m) PROVE FullInv'
  <2>1. CASE Avail(current_buf_) > Size[m]
    BY <1>1, <1>3, <2>1 DEF AppendMessage
  <2>2. CASE ~(Avail(current_buf_) > Size[m])
    <3>1. buffers_' = Append(buffers_, current_buf_)
      BY <1>3, <2>2 DEF AppendMessage
    <3>2. current_buf_ \in Buffer /\ buffers_ \in Seq(Buffer)
      BY <1>3 DEF AppendMessage, Running, Inv, SharedInv, TypeOK
    <3>3. /\ Len(buffers_') = Len(buffers_) + 1 /\ Len(buffers_) \in Nat
          /\ \A i \in 1..Len(buffers_) : buffers_'[i] = buffers_[i]
          /\ buffers_'[Len(buffers_) + 1] = current_buf_
      BY <3>1, <3>2, AppendProperties, LenProperties
    <3>4. Avail(current_buf_) <= Size[m]
      BY <2>2, <3>2, BufferAssumption DEF Avail, Buffer
    <3> SUFFICES ASSUME NEW i \in 1..(Len(buffers_) + 1)
                 PROVE  \E n \in Messages : Avail(buffers_'[i]) <= Size[n]
      BY <3>3 DEF FullInv, Avail
    <3>5. CASE i = Len(buffers_) + 1
      BY <3>3, <3>4, <3>5
    <3>6. CASE i \in 1..Len(buffers_)
      BY <3>3, <3>6 DEF FullInv
    <3> QED
      BY <3>3, <3>5, <3>6
  <2> QED
    BY <2>1, <2>2
<1>4. CASE ConsumerLock \/ ConsumerWakes
  <2>1. CASE Exchange /\ consumer \in {"lock", "asleep"}
    BY <1>2, <2>1 DEF Exchange, Inv, LocalInv
  <2>2. CASE ~Exchange
    BY <1>1, <1>4, <2>2 DEF ConsumerLock, ConsumerWakes, sharedVars
  <2> QED
    BY <1>4, <2>1, <2>2 DEF ConsumerLock, ConsumerWakes
<1> QED
  BY <1>1, <1>3, <1>4
  DEF Next, Consumer, ConsumerStart, ConsumerLoop, ConsumerTrims, ConsumerWrites, ConsumerRefills,
      ConsumerLeaves, Construct, Start, Stop, StopJoins, Ended, vars, sharedVars

\* Append meets its null pointer only when two buffers were filled between
\* two exchanges, whatever the lengths of messages and buffers.
THEOREM CrashExplained == Spec => []CrashOnlyWhenBothFull
<1>1. LoggingInit => FullInv
  BY EmptySeq DEF LoggingInit, FullInv
<1>2. Inv /\ FullInv => CrashOnlyWhenBothFull
  BY DEF Inv, SharedInv, FullInv, CrashOnlyWhenBothFull
<1> QED
  BY <1>1, <1>2, NextFullInv, Invariance, PTL DEF Spec

------------------------------------------------------------------------------
(* Induction over the natural numbers, with sets for predicates.            *)

LEMMA LeastNumber ==
  ASSUME NEW S \in SUBSET Nat, S # {}
  PROVE  \E x \in S : \A y \in S : x <= y
<1> DEFINE R == OpToRel(<, Nat)
<1>1. IsWellFoundedOn(R, Nat)
  BY NatLessThanWellFounded
<1>2. \E x \in S : \A y \in S : ~(<<y, x>> \in R)
  <2> HIDE DEF R
  <2> QED
    BY <1>1, WFMin
<1>3. \A x, y \in Nat : y < x => <<y, x>> \in R
  BY DEF OpToRel
<1> HIDE DEF R
<1>4. PICK x \in S : \A y \in S : ~(<<y, x>> \in R)
  BY <1>2
<1>5. \A y \in S : ~(y < x)
  BY <1>3, <1>4
<1>6. \A y \in S : x <= y
  BY <1>5
<1> QED
  BY <1>6

LEMMA NatSetInduction ==
  ASSUME NEW S, 0 \in S, \A n \in Nat : n \in S => n + 1 \in S
  PROVE  Nat \subseteq S
<1> SUFFICES ASSUME Nat \ S # {} PROVE FALSE
  OBVIOUS
<1>1. PICK x \in Nat \ S : \A y \in Nat \ S : x <= y
  BY LeastNumber
<1>2. x # 0 /\ x - 1 \in Nat /\ x - 1 \in S
  BY <1>1
<1> QED
  BY <1>1, <1>2

------------------------------------------------------------------------------
(* What FlattenSeq does for one more sequence, at either end.               *)

\* f has the values that FlattenSeq computes for the first n elements of ss.
Flattens(f, ss, n) == f = [k \in 1..n |-> IF k = 1 THEN ss[k] ELSE f[k - 1] \o ss[k]]

LEMMA FlattensValues ==
  ASSUME NEW f, NEW ss, NEW n \in Nat, Flattens(f, ss, n)
  PROVE  /\ 1 <= n => f[1] = ss[1]
         /\ \A k \in Nat : 1 <= k /\ k + 1 <= n => f[k + 1] = f[k] \o ss[k + 1]
<1>1. ASSUME 1 <= n
      PROVE  f[1] = ss[1]
  <2>1. 1 \in 1..n
    BY <1>1
  <2>2. f[1] = IF 1 = 1 THEN ss[1] ELSE f[1 - 1] \o ss[1]
    BY <2>1 DEF Flattens
  <2> QED
    BY <2>2
<1>2. ASSUME NEW k \in Nat, 1 <= k, k + 1 <= n
      PROVE  f[k + 1] = f[k] \o ss[k + 1]
  <2>1. k + 1 \in 1..n /\ k + 1 # 1 /\ (k + 1) - 1 = k
    BY <1>2
  <2>2. f[k + 1] = IF k + 1 = 1 THEN ss[k + 1] ELSE f[(k + 1) - 1] \o ss[k + 1]
    BY <2>1 DEF Flattens
  <2> QED
    BY <2>1, <2>2
<1> QED
  BY <1>1, <1>2

\* The values depend on the elements before them only.
LEMMA FlattensUnique ==
  ASSUME NEW f, NEW g, NEW ss, NEW rr, NEW n \in Nat, NEW p \in Nat, 1 <= n, n <= p,
         Flattens(f, ss, n), Flattens(g, rr, p), \A k \in 1..n : ss[k] = rr[k]
  PROVE  f[n] = g[n]
<1> DEFINE Same == {k \in Nat : 1 <= k /\ k <= n => f[k] = g[k]}
<1>1. 0 \in Same
  OBVIOUS
<1>2. ASSUME NEW k \in Nat, k \in Same
      PROVE  k + 1 \in Same
  <2> SUFFICES ASSUME k + 1 <= n PROVE f[k + 1] = g[k + 1]
    OBVIOUS
  <2>1. k + 1 <= p /\ k <= n /\ k + 1 \in 1..n /\ ss[k + 1] = rr[k + 1]
    OBVIOUS
  <2>2. CASE k = 0
    <3>1. k + 1 = 1 /\ 1 <= n /\ 1 <= p
      BY <2>1, <2>2
    <3>2. f[1] = ss[1]
      BY <3>1, FlattensValues
    <3>3. g[1] = rr[1]
      BY <3>1, FlattensValues
    <3> QED
      BY <2>1, <3>1, <3>2, <3>3
  <2>3. CASE k # 0
    <3>1. 1 <= k
      BY <2>3
    <3>2. f[k + 1] = f[k] \o ss[k + 1] /\ g[k + 1] = g[k] \o rr[k + 1]
      BY <2>1, <3>1, FlattensValues
    <3>3. f[k] = g[k]
      BY <1>2, <2>1, <3>1
    <3> QED
      BY <2>1, <3>2, <3>3
  <2> QED
    BY <2>2, <2>3
<1> HIDE DEF Same
<1>3. n \in Same
  BY <1>1, <1>2, NatSetInduction
<1> QED
  BY <1>3 DEF Same

\* Every sequence has such a function, so FlattenSeq is its last value.
LEMMA FlattensExists ==
  ASSUME NEW ss, NEW n \in Nat
  PROVE  \E f : Flattens(f, ss, n)
<1> DEFINE Has == {k \in Nat : \E f : Flattens(f, ss, k)}
<1>1. 0 \in Has
  <2> DEFINE f == [k \in 1..0 |-> << >>]
  <2>1. Flattens(f, ss, 0)
    BY DEF Flattens
  <2> QED
    BY <2>1
<1>2. ASSUME NEW k \in Nat, k \in Has
      PROVE  k + 1 \in Has
  <2>1. PICK f : Flattens(f, ss, k)
    BY <1>2
  <2> DEFINE g == [j \in 1..(k + 1) |-> IF j <= k THEN f[j]
                                        ELSE IF k = 0 THEN ss[1] ELSE f[k] \o ss[k + 1]]
  <2>2. \A j \in 1..k : g[j] = f[j]
    OBVIOUS
  <2>3. g[k + 1] = IF k = 0 THEN ss[1] ELSE f[k] \o ss[k + 1]
    OBVIOUS
  <2>4. ASSUME NEW j \in 1..(k + 1)
        PROVE  g[j] = IF j = 1 THEN ss[j] ELSE g[j - 1] \o ss[j]
    <3> HIDE DEF g
    <3>1. CASE j = 1 /\ k # 0
      <4>1. 1 \in 1..k /\ 1 <= k
        BY <3>1
      <4> QED
        BY <2>1, <2>2, <3>1, <4>1, FlattensValues
    <3>2. CASE j \in 2..k
      <4>1. j - 1 \in Nat /\ (j - 1) + 1 = j /\ j - 1 \in 1..k /\ j \in 1..k /\ j # 1 /\ 1 <= j - 1
        BY <3>2
      <4>2. f[j] = f[j - 1] \o ss[j]
        <5>1. (j - 1) + 1 <= k
          BY <3>2
        <5>2. f[(j - 1) + 1] = f[j - 1] \o ss[(j - 1) + 1]
          BY <2>1, <4>1, <5>1, FlattensValues
        <5> QED
          BY <4>1, <5>2
      <4> QED
        BY <2>2, <4>1, <4>2
    <3>3. CASE j = k + 1 /\ k # 0
      <4>1. k \in 1..k /\ j # 1 /\ j - 1 = k
        BY <3>3
      <4> QED
        BY <2>2, <2>3, <3>3, <4>1
    <3>4. CASE k = 0
      BY <2>3, <3>4
    <3> QED
      BY <3>1, <3>2, <3>3, <3>4
  <2>5. Flattens(g, ss, k + 1)
    <3>1. g = [j \in 1..(k + 1) |-> g[j]]
      OBVIOUS
    <3> HIDE DEF g
    <3> QED
      BY <2>4, <3>1 DEF Flattens
  <2> QED
    BY <2>5
<1> HIDE DEF Has
<1>3. n \in Has
  BY <1>1, <1>2, NatSetInduction
<1> QED
  BY <1>3 DEF Has

LEMMA FlattenIs ==
  ASSUME NEW ss, Len(ss) \in Nat, Len(ss) # 0
  PROVE  \E f : Flattens(f, ss, Len(ss)) /\ FlattenSeq(ss) = f[Len(ss)]
<1> DEFINE F(f) == [k \in 1..Len(ss) |-> IF k = 1 THEN ss[k] ELSE f[k - 1] \o ss[k]]
           flatten == CHOOSE f : f = F(f)
<1>1. \E f : f = F(f)
  <2>1. PICK f : Flattens(f, ss, Len(ss))
    BY FlattensExists
  <2>2. f = F(f)
    BY <2>1 DEF Flattens
  <2> HIDE DEF F
  <2> QED
    BY <2>2
<1>2. FlattenSeq(ss) = flatten[Len(ss)]
  BY DEF FlattenSeq
<1>3. flatten = F(flatten)
  <2> HIDE DEF F
  <2> QED
    BY <1>1, Zenon
<1> HIDE DEF flatten
<1>4. Flattens(flatten, ss, Len(ss))
  BY <1>3 DEF Flattens
<1> QED
  BY <1>2, <1>4

LEMMA FlattenEmpty == FlattenSeq(<< >>) = << >>
<1>1. Len(<< >>) = 0
  OBVIOUS
<1> QED
  BY <1>1 DEF FlattenSeq

LEMMA FlattenAppend ==
  ASSUME NEW E, NEW ss \in Seq(Seq(E)), NEW s \in Seq(E)
  PROVE  FlattenSeq(Append(ss, s)) = FlattenSeq(ss) \o s
<1> DEFINE rr == Append(ss, s)
           n == Len(ss)
<1>1. /\ n \in Nat /\ Len(rr) = n + 1 /\ rr[n + 1] = s
      /\ \A k \in 1..n : ss[k] = rr[k]
  BY AppendProperties, LenProperties
<1>e. n = 0 => ss = << >>
  BY EmptySeq
<1> HIDE DEF rr, n
<1>2. PICK g : Flattens(g, rr, n + 1) /\ FlattenSeq(rr) = g[n + 1]
  <2>1. n + 1 \in Nat /\ n + 1 # 0
    BY <1>1
  <2> QED
    BY <1>1, <2>1, FlattenIs
<1>3. CASE n = 0
  <2>1. g[1] = rr[1]
    <3>1. n + 1 \in Nat /\ 1 <= n + 1
      BY <1>1
    <3> QED
      BY <1>2, <3>1, FlattensValues
  <2>2. << >> \o s = s
    BY ConcatEmptySeq
  <2> QED
    BY <1>1, <1>2, <1>3, <1>e, <2>1, <2>2, FlattenEmpty DEF rr
<1>4. CASE n # 0
  <2>1. PICK f : Flattens(f, ss, n) /\ FlattenSeq(ss) = f[n]
    BY <1>1, <1>4, FlattenIs DEF n
  <2>2. n + 1 \in Nat /\ 1 <= n /\ n <= n + 1 /\ n + 1 <= n + 1 /\ n \in Nat
    BY <1>1, <1>4
  <2>3. g[n + 1] = g[n] \o s
    <3>1. g[n + 1] = g[n] \o rr[n + 1]
      BY <1>2, <2>2, FlattensValues
    <3> QED
      BY <1>1, <3>1
  <2>4. f[n] = g[n]
    BY <1>1, <1>2, <2>1, <2>2, FlattensUnique
  <2> QED
    BY <1>2, <2>1, <2>3, <2>4 DEF rr
<1> QED
  BY <1>3, <1>4

\* Induction over sequences, from the empty one by Append.
LEMMA AppendInduction ==
  ASSUME NEW E, NEW S, << >> \in S, \A s \in Seq(E), x \in E : s \in S => Append(s, x) \in S
  PROVE  Seq(E) \subseteq S
<1> DEFINE Of == {n \in Nat : \A s \in Seq(E) : Len(s) = n => s \in S}
<1>1. 0 \in Of
  BY EmptySeq
<1>2. ASSUME NEW n \in Nat, n \in Of
      PROVE  n + 1 \in Of
  <2> SUFFICES ASSUME NEW s \in Seq(E), Len(s) = n + 1 PROVE s \in S
    OBVIOUS
  <2>1. s # << >>
    <3>1. Len(<< >>) = 0
      OBVIOUS
    <3> QED
      BY <3>1
  <2> DEFINE r == SubSeq(s, 1, n)
             x == s[n + 1]
  <2>2. r \in Seq(E) /\ Len(r) = n /\ x \in E /\ s = Append(r, x)
    OBVIOUS
  <2> HIDE DEF r, x
  <2> QED
    BY <1>2, <2>2
<1> HIDE DEF Of
<1>3. \A n \in Nat : n \in Of
  BY <1>1, <1>2, NatSetInduction
<1> QED
  BY <1>3, LenProperties DEF Of

LEMMA FlattenType ==
  ASSUME NEW E, NEW ss \in Seq(Seq(E))
  PROVE  FlattenSeq(ss) \in Seq(E)
<1> DEFINE S == {rr \in Seq(Seq(E)) : FlattenSeq(rr) \in Seq(E)}
<1>1. << >> \in S
  <2>1. << >> \in Seq(E) /\ << >> \in Seq(Seq(E))
    OBVIOUS
  <2> QED
    BY <2>1, FlattenEmpty
<1>2. ASSUME NEW rr \in Seq(Seq(E)), NEW s \in Seq(E), rr \in S
      PROVE  Append(rr, s) \in S
  <2>1. FlattenSeq(Append(rr, s)) = FlattenSeq(rr) \o s
    BY FlattenAppend
  <2>2. FlattenSeq(rr) \in Seq(E)
    BY <1>2
  <2>3. FlattenSeq(rr) \o s \in Seq(E) /\ Append(rr, s) \in Seq(Seq(E))
    BY <2>2, ConcatProperties, AppendProperties
  <2> QED
    BY <2>1, <2>3
<1> HIDE DEF S
<1>3. Seq(Seq(E)) \subseteq S
  BY <1>1, <1>2, AppendInduction
<1> QED
  BY <1>3 DEF S

LEMMA FlattenCons ==
  ASSUME NEW E, NEW s \in Seq(E), NEW ss \in Seq(Seq(E))
  PROVE  FlattenSeq(<<s>> \o ss) = s \o FlattenSeq(ss)
<1> DEFINE S == {rr \in Seq(Seq(E)) : FlattenSeq(<<s>> \o rr) = s \o FlattenSeq(rr)}
<1>1. << >> \in S
  <2>1. << >> \in Seq(Seq(E)) /\ <<s>> \in Seq(Seq(E)) /\ <<s>> = Append(<< >>, s)
    OBVIOUS
  <2>2. FlattenSeq(<<s>>) = << >> \o s
    BY <2>1, FlattenAppend, FlattenEmpty
  <2>3. /\ << >> \o s = s /\ s \o << >> = s
        /\ <<s>> \o << >> = <<s>>
    BY <2>1, ConcatEmptySeq
  <2> QED
    BY <2>1, <2>2, <2>3, FlattenEmpty
<1>2. ASSUME NEW rr \in Seq(Seq(E)), NEW r \in Seq(E), rr \in S
      PROVE  Append(rr, r) \in S
  <2>1. <<s>> \in Seq(Seq(E)) /\ <<s>> \o rr \in Seq(Seq(E)) /\ Append(rr, r) \in Seq(Seq(E))
    BY ConcatProperties, AppendProperties
  <2>2. <<s>> \o Append(rr, r) = Append(<<s>> \o rr, r)
    BY <2>1
  <2>3. FlattenSeq(Append(<<s>> \o rr, r)) = FlattenSeq(<<s>> \o rr) \o r
    BY <2>1, FlattenAppend
  <2>4. FlattenSeq(<<s>> \o rr) = s \o FlattenSeq(rr)
    BY <1>2
  <2>5. (s \o FlattenSeq(rr)) \o r = s \o (FlattenSeq(rr) \o r)
    <3>1. PICK q \in Seq(E) : q = FlattenSeq(rr)
      BY FlattenType
    <3>2. (s \o q) \o r = s \o (q \o r)
      BY ConcatAssociative
    <3> QED
      BY <3>1, <3>2
  <2>6. FlattenSeq(Append(rr, r)) = FlattenSeq(rr) \o r
    BY FlattenAppend
  <2> QED
    BY <2>1, <2>2, <2>3, <2>4, <2>5, <2>6
<1> HIDE DEF S
<1>3. Seq(Seq(E)) \subseteq S
  BY <1>1, <1>2, AppendInduction
<1> QED
  BY <1>3 DEF S

------------------------------------------------------------------------------
(* Every message is somewhere between Append and the file, once.            *)

LEMMA AppendToConcat ==
  ASSUME NEW E, NEW s \in Seq(E), NEW r \in Seq(E), NEW x \in E
  PROVE  s \o Append(r, x) = Append(s \o r, x)
<1>1. <<x>> \in Seq(E) /\ s \o r \in Seq(E)
  BY ConcatProperties
<1>2. Append(r, x) = r \o <<x>>
  BY AppendIsConcat
<1>3. Append(s \o r, x) = (s \o r) \o <<x>>
  BY <1>1, AppendIsConcat
<1>4. (s \o r) \o <<x>> = s \o (r \o <<x>>)
  BY <1>1, ConcatAssociative
<1> QED
  BY <1>2, <1>3, <1>4

\* What a sequence of buffers holds, in order.
Contents(bufs) == FlattenSeq([i \in DOMAIN bufs |-> bufs[i].data])

Elements == Messages \cup {DropNotice}

\* The spare that Append falls back on is empty, so that the message fits; a
\* round refills only when all its buffers are in the file.
ConservedInv ==
    /\ MessagesConserved
    /\ next_buf_ \in {Null, EmptyBuffer}
    /\ consumer = "refill" => written = Len(write_buffers)

LEMMA DataTypes ==
  ASSUME NEW bufs \in Seq(Buffer)
  PROVE  /\ [i \in DOMAIN bufs |-> bufs[i].data] \in Seq(Seq(Elements))
         /\ Contents(bufs) \in Seq(Elements)
<1> DEFINE datas == [i \in DOMAIN bufs |-> bufs[i].data]
<1>1. Len(bufs) \in Nat /\ DOMAIN bufs = 1..Len(bufs) /\ \A i \in 1..Len(bufs) : bufs[i] \in Buffer
  BY LenProperties, ElementOfSeq
<1>2. \A b \in Buffer : b.data \in Seq(Elements)
  BY DEF Buffer, Elements
<1>3. datas = [i \in 1..Len(bufs) |-> bufs[i].data]
  BY <1>1
<1>4. datas \in [1..Len(bufs) -> Seq(Elements)]
  BY <1>1, <1>2, <1>3
<1>5. datas \in Seq(Seq(Elements))
  BY <1>1, <1>4, IsASeq
<1> HIDE DEF datas
<1>6. FlattenSeq(datas) \in Seq(Elements)
  BY <1>5, FlattenType
<1> QED
  BY <1>5, <1>6 DEF Contents, datas

\* One more buffer at the end.
LEMMA ContentsAppend ==
  ASSUME NEW bufs \in Seq(Buffer), NEW b \in Buffer
  PROVE  Contents(Append(bufs, b)) = Contents(bufs) \o b.data
<1> DEFINE datas == [i \in DOMAIN bufs |-> bufs[i].data]
           more == Append(bufs, b)
           all == [i \in DOMAIN more |-> more[i].data]
<1>1. datas \in Seq(Seq(Elements)) /\ b.data \in Seq(Elements)
  <2>1. b.data \in Seq(Elements)
    BY DEF Buffer, Elements
  <2> QED
    BY <2>1, DataTypes
<1>2. all = Append(datas, b.data)
  OBVIOUS
<1> HIDE DEF datas, all
<1>3. FlattenSeq(all) = FlattenSeq(datas) \o b.data
  BY <1>1, <1>2, FlattenAppend
<1> QED
  BY <1>3 DEF Contents, datas, all

\* One more at the front.
LEMMA ContentsCons ==
  ASSUME NEW bufs \in Seq(Buffer), NEW b \in Buffer
  PROVE  Contents(<<b>> \o bufs) = b.data \o Contents(bufs)
<1> DEFINE datas == [i \in DOMAIN bufs |-> bufs[i].data]
           more == <<b>> \o bufs
           all == [i \in DOMAIN more |-> more[i].data]
<1>1. datas \in Seq(Seq(Elements)) /\ b.data \in Seq(Elements)
  <2>1. b.data \in Seq(Elements)
    BY DEF Buffer, Elements
  <2> QED
    BY <2>1, DataTypes
<1>2. all = <<b.data>> \o datas
  OBVIOUS
<1> HIDE DEF datas, all
<1>3. FlattenSeq(all) = b.data \o FlattenSeq(datas)
  BY <1>1, <1>2, FlattenCons
<1> QED
  BY <1>3 DEF Contents, datas, all

LEMMA UnwrittenTypes ==
  ASSUME Inv
  PROVE  /\ buffers_ \in Seq(Buffer)
         /\ SubSeq(write_buffers, written + 1, Len(write_buffers)) \in Seq(Buffer)
<1>1. /\ write_buffers \in Seq(Buffer) /\ buffers_ \in Seq(Buffer)
      /\ written \in 0..Len(write_buffers)
  BY DEF Inv, TypeOK
<1>2. Len(write_buffers) \in Nat
  BY <1>1, LenProperties
<1>3. /\ written + 1 \in Int /\ Len(write_buffers) \in Int
      /\ \A i \in (written + 1)..Len(write_buffers) : write_buffers[i] \in Buffer
  BY <1>1, <1>2
<1> QED
  BY <1>1, <1>3, SubSeqProperties

\* The invariant in terms of Contents, and the types of its parts.
LEMMA ConservedIs ==
  ASSUME Inv
  PROVE  /\ MessagesConserved <=> (file \o Contents(Unwritten)) \o Data(current_buf_) = appended
         /\ file \in Seq(Elements) /\ Unwritten \in Seq(Buffer)
         /\ Contents(Unwritten) \in Seq(Elements) /\ Data(current_buf_) \in Seq(Elements)
<1>1. MessagesConserved <=> (file \o Contents(Unwritten)) \o Data(current_buf_) = appended
  BY DEF MessagesConserved, Contents
<1>2. file \in Seq(Elements)
  BY DEF Inv, TypeOK, Elements
<1>3. Unwritten \in Seq(Buffer)
  BY UnwrittenTypes, ConcatProperties DEF Unwritten
<1>4. Data(current_buf_) \in Seq(Elements)
  <2>1. current_buf_ \in Buffer \cup {Null}
    BY DEF Inv, TypeOK
  <2>2. \A b \in Buffer : b.data \in Seq(Elements)
    BY DEF Buffer, Elements
  <2>3. << >> \in Seq(Elements)
    OBVIOUS
  <2> QED
    BY <2>1, <2>2, <2>3 DEF Data
<1> QED
  BY <1>1, <1>2, <1>3, <1>4, DataTypes

\* Nothing moves.
LEMMA ConservedFrame ==
  ASSUME ConservedInv, Inv, UNCHANGED <<file, appended, current_buf_, next_buf_>>, Unwritten' = Unwritten,
         consumer' = "refill" => written' = Len(write_buffers')
  PROVE  ConservedInv'
<1>1. Data(current_buf_)' = Data(current_buf_)
  BY DEF Data
<1> QED
  BY <1>1 DEF ConservedInv, MessagesConserved

\* Append adds the message at the end: in current_buf_, or in the spare after
\* the full buffer has joined the queue.
LEMMA AppendConserves ==
  ASSUME Inv, ConservedInv, NEW m \in Messages, AppendMessage(m), Inv'
  PROVE  ConservedInv'
<1>1. /\ crash = "none" /\ current_buf_ # Null /\ current_buf_ \in Buffer
      /\ UNCHANGED <<write_buffers, written, consumer, file>>
  BY DEF AppendMessage, Running, Inv, SharedInv, TypeOK, localVars, fileVars
<1> DEFINE c == current_buf_.data
           u == Contents(Unwritten)
<1>2. /\ file \in Seq(Elements) /\ u \in Seq(Elements) /\ Unwritten \in Seq(Buffer)
      /\ c \in Seq(Messages) /\ c \in Seq(Elements) /\ file \o u \in Seq(Elements)
      /\ m \in Elements
  <2>1. file \in Seq(Elements) /\ u \in Seq(Elements) /\ Unwritten \in Seq(Buffer)
    BY ConservedIs
  <2>2. c \in Seq(Messages) /\ c \in Seq(Elements) /\ m \in Elements
    <3>1. c \in Seq(Messages)
      BY <1>1 DEF Buffer
    <3>2. \A b \in Buffer : b.data \in Seq(Elements)
      BY DEF Buffer, Elements
    <3> QED
      BY <1>1, <3>1, <3>2 DEF Elements
  <2> QED
    BY <2>1, <2>2, ConcatProperties
<1>3. (file \o u) \o c = appended
  BY <1>1, ConservedIs DEF ConservedInv, Data
<1>4. /\ consumer' = "refill" => written' = Len(write_buffers')
  BY <1>1 DEF ConservedInv
<1>5. PICK r \in Seq(Elements) : r = file \o u
  BY <1>2
<1> HIDE DEF c, u
<1>6. r \o Append(c, m) = Append(r \o c, m)
  BY <1>2, AppendToConcat
<1>7. CASE Avail(current_buf_) > Size[m]
  <2>1. /\ current_buf_' = [data |-> Append(c, m), length |-> current_buf_.length + Size[m]]
        /\ appended' = Append(appended, m)
        /\ UNCHANGED <<buffers_, next_buf_>>
    BY <1>7 DEF AppendMessage, DataBufferAppend, c
  <2>2. current_buf_' # Null
    BY <1>1, <1>7, <2>1, BufferAppend, BufferAssumption DEF DataBufferAppend, c
  <2>3. Data(current_buf_)' = Append(c, m) /\ Unwritten' = Unwritten
    BY <1>1, <2>1, <2>2 DEF Data, Unwritten
  <2>4. Contents(Unwritten)' = u
    BY <2>3 DEF Contents, u
  <2>5. (file' \o Contents(Unwritten)') \o Data(current_buf_)' = appended'
    BY <1>1, <1>3, <1>5, <1>6, <2>1, <2>3, <2>4
  <2>6. MessagesConserved'
    BY <2>5 DEF MessagesConserved, Contents
  <2> QED
    BY <1>4, <2>1, <2>6 DEF ConservedInv
<1>8. CASE ~(Avail(current_buf_) > Size[m])
  <2>1. buffers_' = Append(buffers_, current_buf_) /\ next_buf_' = Null
    BY <1>8 DEF AppendMessage
  <2>2. Unwritten' = Append(Unwritten, current_buf_)
    <3> DEFINE w == SubSeq(write_buffers, written + 1, Len(write_buffers))
    <3>1. buffers_ \in Seq(Buffer) /\ w \in Seq(Buffer)
      BY UnwrittenTypes
    <3>2. w' = w
      BY <1>1
    <3>3. Unwritten = w \o buffers_ /\ Unwritten' = w \o Append(buffers_, current_buf_)
      BY <2>1, <3>2 DEF Unwritten
    <3> HIDE DEF w
    <3> QED
      BY <1>1, <3>1, <3>3, AppendToConcat
  <2>3. Contents(Unwritten') = u \o c
    BY <1>1, <1>2, <2>2, ContentsAppend DEF c, u
  <2>4. file \o (u \o c) = r \o c
    <3>1. (file \o u) \o c = file \o (u \o c)
      BY <1>2, ConcatAssociative
    <3> QED
      BY <1>5, <3>1
  <2>5. Data(current_buf_)' = IF next_buf_ # Null THEN <<m>> ELSE << >>
    <3>1. CASE next_buf_ # Null
      <4>1. next_buf_ = EmptyBuffer
        BY <3>1 DEF ConservedInv
      <4>2. Avail(EmptyBuffer) > Size[m]
        <5>1. Size[m] \in Nat /\ BufferSize \in Nat /\ Size[m] < BufferSize
          BY BufferAssumption
        <5>2. Avail(EmptyBuffer) = BufferSize - 0
          BY DEF Avail, EmptyBuffer
        <5> QED
          BY <5>1, <5>2
      <4>3. current_buf_' = DataBufferAppend(EmptyBuffer, m)
        BY <1>8, <3>1, <4>1 DEF AppendMessage
      <4>4. current_buf_'.data = <<m>>
        <5>1. current_buf_' = [data |-> Append(EmptyBuffer.data, m),
                               length |-> EmptyBuffer.length + Size[m]]
          BY <4>2, <4>3 DEF DataBufferAppend
        <5>2. current_buf_'.data = Append(EmptyBuffer.data, m) /\ EmptyBuffer.data = << >>
          BY <5>1 DEF EmptyBuffer
        <5> QED
          BY <5>2
      <4>5. current_buf_' # Null
        BY <4>3, NewBuffer, BufferAppend, BufferAssumption
      <4> QED
        BY <3>1, <4>4, <4>5 DEF Data
    <3>2. CASE next_buf_ = Null
      BY <1>8, <3>2 DEF AppendMessage, Data
    <3> QED
      BY <3>1, <3>2
  <2>6. appended' = IF next_buf_ # Null THEN Append(appended, m) ELSE appended
    BY <1>8 DEF AppendMessage
  <2>7. PICK q \in Seq(Elements) : q = r \o c
    BY <1>2, ConcatProperties
  <2>8. q \o <<m>> = Append(q, m) /\ q \o << >> = q
    BY <1>2, AppendIsConcat, ConcatEmptySeq
  <2>9. (file' \o Contents(Unwritten')) \o Data(current_buf_)' = appended'
    BY <1>1, <1>3, <1>5, <2>3, <2>4, <2>5, <2>6, <2>7, <2>8
  <2>10. MessagesConserved'
    BY <2>9 DEF MessagesConserved, Contents
  <2> QED
    BY <1>4, <2>1, <2>10 DEF ConservedInv
<1> QED
  BY <1>7, <1>8

\* The exchange takes what Append queued, and current_buf_ behind it.
LEMMA ExchangeConserves ==
  ASSUME Inv, ConservedInv, Running, consumer \in {"lock", "asleep"}, Exchange,
         UNCHANGED <<written, fileVars, appended>>
  PROVE  ConservedInv'
<1>1. /\ buf1 = EmptyBuffer /\ buf2 = EmptyBuffer /\ write_buffers = << >>
      /\ current_buf_ \in Buffer /\ current_buf_ # Null /\ buffers_ \in Seq(Buffer)
  BY DEF Inv, LocalInv, SharedInv, Running, TypeOK
<1>2. written = 0 /\ written' = 0 /\ file' = file /\ appended' = appended
  <2>1. written \in 0..Len(<< >>)
    BY <1>1 DEF Inv, TypeOK
  <2>2. Len(<< >>) = 0
    OBVIOUS
  <2>3. written = 0
    BY <2>1, <2>2
  <2> QED
    BY <2>3 DEF fileVars
<1>3. /\ write_buffers' = Append(buffers_, current_buf_) /\ buffers_' = << >>
      /\ current_buf_' = EmptyBuffer /\ consumer' = "trim"
      /\ next_buf_' \in {Null, EmptyBuffer}
  BY <1>1 DEF Exchange, ConservedInv
<1>4. Unwritten = buffers_
  <2>1. SubSeq(<< >>, 0 + 1, Len(<< >>)) = << >>
    OBVIOUS
  <2> QED
    BY <1>1, <1>2, <2>1, ConcatEmptySeq DEF Unwritten
<1>5. Unwritten' = Append(buffers_, current_buf_)
  <2>1. PICK w \in Seq(Buffer) : w = Append(buffers_, current_buf_)
    BY <1>1, AppendProperties
  <2>2. SubSeq(w, 0 + 1, Len(w)) = w /\ w \o << >> = w
    BY SubSeqFull, ConcatEmptySeq
  <2> QED
    BY <1>2, <1>3, <2>1, <2>2 DEF Unwritten
<1>6. Contents(Unwritten') = Contents(Unwritten) \o current_buf_.data
  BY <1>1, <1>4, <1>5, ContentsAppend
<1>7. Data(current_buf_) = current_buf_.data /\ Data(current_buf_)' = << >>
  BY <1>1, <1>3, NewBuffer DEF Data, EmptyBuffer
<1>8. PICK u \in Seq(Elements), c \in Seq(Elements), f \in Seq(Elements) :
         u = Contents(Unwritten) /\ c = current_buf_.data /\ f = file
  BY <1>7, ConservedIs
<1>9. (f \o (u \o c)) \o << >> = (f \o u) \o c
  <2>1. (f \o u) \o c = f \o (u \o c)
    BY ConcatAssociative
  <2>2. u \o c \in Seq(Elements)
    BY ConcatProperties
  <2>3. f \o (u \o c) \in Seq(Elements)
    BY <2>2, ConcatProperties
  <2>4. (f \o (u \o c)) \o << >> = f \o (u \o c)
    BY <2>3, ConcatEmptySeq
  <2> QED
    BY <2>1, <2>4
<1>10. (f \o u) \o c = appended
  BY <1>7, <1>8, ConservedIs DEF ConservedInv
<1>11. (file' \o Contents(Unwritten')) \o Data(current_buf_)' = appended'
  BY <1>2, <1>6, <1>7, <1>8, <1>9, <1>10
<1>12. MessagesConserved'
  BY <1>11 DEF MessagesConserved, Contents
<1> QED
  BY <1>3, <1>12 DEF ConservedInv

\* A write moves the first unwritten buffer to the end of the file.
LEMMA WriteConserves ==
  ASSUME Inv, ConservedInv, ConsumerWrites
  PROVE  ConservedInv'
<1> USE DEF ConsumerWrites
<1>1. /\ UNCHANGED <<current_buf_, next_buf_, buffers_, write_buffers, appended>>
      /\ Data(current_buf_)' = Data(current_buf_)
  BY DEF sharedVars, Data
<1>2. /\ write_buffers \in Seq(Buffer) /\ Len(write_buffers) \in Nat /\ buffers_ \in Seq(Buffer)
      /\ written \in Nat /\ written <= Len(write_buffers)
  <2>1. /\ write_buffers \in Seq(Buffer) /\ buffers_ \in Seq(Buffer)
        /\ written \in 0..Len(write_buffers)
    BY DEF Inv, TypeOK
  <2>2. Len(write_buffers) \in Nat
    BY <2>1, LenProperties
  <2> QED
    BY <2>1, <2>2
<1>3. CASE written < Len(write_buffers)
  <2>1. PICK n \in 1..Len(write_buffers) : n = written + 1
    BY <1>2, <1>3
  <2>2. PICK b \in Buffer : b = write_buffers[n]
    BY <1>2, ElementOfSeq
  <2>3. /\ file' = file \o b.data /\ written' = n /\ consumer' = consumer
    BY <1>3, <2>1, <2>2
  <2>4. PICK rest \in Seq(Buffer) : rest = SubSeq(write_buffers, n + 1, Len(write_buffers))
    <3>1. \A i \in (n + 1)..Len(write_buffers) : write_buffers[i] \in Buffer
      BY <1>2, <2>1
    <3>2. n + 1 \in Int /\ Len(write_buffers) \in Int
      BY <1>2, <2>1
    <3>3. SubSeq(write_buffers, n + 1, Len(write_buffers)) \in Seq(Buffer)
      BY <3>1, <3>2, SubSeqProperties
    <3> QED
      BY <3>3
  <2>5. SubSeq(write_buffers, n, Len(write_buffers)) = <<b>> \o rest
    <3>1. Len(write_buffers) \in n..Len(write_buffers)
      BY <1>2, <2>1
    <3> QED
      BY <1>2, <2>2, <2>4, <3>1, SubSeqRecursiveFirst
  <2>6. Unwritten' = rest \o buffers_
    BY <1>1, <2>3, <2>4 DEF Unwritten
  <2>7. Unwritten = <<b>> \o (rest \o buffers_)
    <3>1. Unwritten = (<<b>> \o rest) \o buffers_
      BY <2>1, <2>5 DEF Unwritten
    <3>2. <<b>> \in Seq(Buffer)
      OBVIOUS
    <3>3. (<<b>> \o rest) \o buffers_ = <<b>> \o (rest \o buffers_)
      BY <1>2, <3>2, ConcatAssociative
    <3> QED
      BY <3>1, <3>3
  <2>8. rest \o buffers_ \in Seq(Buffer)
    BY <1>2, ConcatProperties
  <2>9. Contents(Unwritten) = b.data \o Contents(Unwritten')
    BY <2>6, <2>7, <2>8, ContentsCons
  <2>10. PICK f \in Seq(Elements), d \in Seq(Elements), u \in Seq(Elements) :
           f = file /\ d = b.data /\ u = Contents(Unwritten')
    <3>1. file \in Seq(Elements)
      BY ConservedIs
    <3>2. b.data \in Seq(Elements)
      BY DEF Buffer, Elements
    <3>3. Contents(Unwritten') \in Seq(Elements)
      BY <2>6, <2>8, DataTypes
    <3> QED
      BY <3>1, <3>2, <3>3
  <2>11. (f \o d) \o u = f \o (d \o u)
    BY ConcatAssociative
  <2>12. (file \o Contents(Unwritten)) \o Data(current_buf_) = appended
    BY ConservedIs DEF ConservedInv
  <2>13. (file' \o Contents(Unwritten')) \o Data(current_buf_)' = appended'
    BY <1>1, <2>3, <2>9, <2>10, <2>11, <2>12
  <2>14. MessagesConserved'
    BY <2>13 DEF MessagesConserved, Contents
  <2> QED
    BY <1>1, <2>3, <2>14 DEF ConservedInv
<1>4. CASE ~(written < Len(write_buffers))
  <2>1. UNCHANGED <<file, written>> /\ written = Len(write_buffers)
    BY <1>2, <1>4
  <2>2. Unwritten' = Unwritten
    BY <1>1, <2>1 DEF Unwritten
  <2> QED
    BY <1>1, <2>1, <2>2, ConservedFrame
<1> QED
  BY <1>3, <1>4

\* What the refill throws away is all in the file.
LEMMA RefillConserves ==
  ASSUME Inv, ConservedInv, ConsumerRefills
  PROVE  ConservedInv'
<1> USE DEF ConsumerRefills
<1>1. /\ UNCHANGED <<current_buf_, next_buf_, buffers_, appended, file>>
      /\ write_buffers' = << >> /\ written' = 0 /\ consumer' = "loop"
  BY DEF sharedVars
<1>2. written = Len(write_buffers) /\ Len(write_buffers) \in Nat
  BY Lengths DEF ConservedInv, Inv
<1>3. SubSeq(write_buffers, written + 1, Len(write_buffers)) = << >>
  BY <1>2, SubSeqEmpty
<1>4. SubSeq(<< >>, 0 + 1, Len(<< >>)) = << >>
  OBVIOUS
<1>5. Unwritten' = Unwritten
  BY <1>1, <1>3, <1>4 DEF Unwritten
<1> QED
  BY <1>1, <1>5, ConservedFrame

\* No other step moves messages.
LEMMA NextConserves ==
  ASSUME Inv, ConservedInv, [Next]_vars, Inv'
  PROVE  ConservedInv'
<1>1. ASSUME UNCHANGED <<file, appended, sharedVars, write_buffers, written>>,
             consumer' # "refill" \/ consumer' = consumer
      PROVE  ConservedInv'
  <2>1. Unwritten' = Unwritten /\ UNCHANGED <<current_buf_, next_buf_>>
    BY <1>1 DEF Unwritten, sharedVars
  <2>2. consumer' = "refill" => written' = Len(write_buffers')
    BY <1>1 DEF ConservedInv
  <2> QED
    BY <1>1, <2>1, <2>2, ConservedFrame
<1>2. CASE ConsumerTrims
  <2>1. Len(write_buffers) <= 2
    <3>1. Len(write_buffers) = 2 - Held(buf2)
      BY <1>2 DEF ConsumerTrims, Inv, LocalInv
    <3> QED
      BY <3>1, HeldValues
  <2>2. UNCHANGED <<write_buffers, file>>
    BY <1>2, <2>1, Lengths, BufferAssumption DEF ConsumerTrims, Inv
  <2> QED
    BY <1>1, <1>2, <2>2 DEF ConsumerTrims
<1>3. CASE ConsumerLock \/ ConsumerWakes
  <2>1. CASE Exchange
    BY <1>3, <2>1, ExchangeConserves DEF ConsumerLock, ConsumerWakes
  <2>2. CASE ~Exchange
    BY <1>1, <1>3, <2>2 DEF ConsumerLock, ConsumerWakes, fileVars
  <2> QED
    BY <2>1, <2>2
<1>4. CASE ConsumerStart \/ ConsumerLoop \/ ConsumerLeaves
  BY <1>1, <1>4 DEF ConsumerStart, ConsumerLoop, ConsumerLeaves, localVars, fileVars
<1>5. CASE Construct \/ Start \/ Stop \/ StopJoins
  BY <1>1, <1>5 DEF Construct, Start, Stop, StopJoins, localVars, fileVars
<1>6. CASE UNCHANGED vars
  BY <1>1, <1>6 DEF vars, localVars, fileVars
<1> QED
  BY <1>2, <1>3, <1>4, <1>5, <1>6, AppendConserves, WriteConserves, RefillConserves
  DEF Next, Consumer, Ended

\* No message is lost, duplicated or reordered between Append and the file,
\* whatever their lengths and however the consumer is scheduled, up to the
\* very state in which Append dies.
THEOREM NothingLost == Spec => []MessagesConserved
<1>1. LoggingInit => ConservedInv
  <2> SUFFICES ASSUME LoggingInit PROVE ConservedInv
    OBVIOUS
  <2>1. SubSeq(<< >>, 0 + 1, Len(<< >>)) = << >> /\ << >> \o << >> = << >>
    OBVIOUS
  <2>2. Unwritten = << >>
    BY <2>1 DEF LoggingInit, Unwritten
  <2>3. [i \in DOMAIN << >> |-> << >>[i].data] = << >>
    OBVIOUS
  <2>4. Data(current_buf_) = << >>
    BY NewBuffer DEF LoggingInit, Data, EmptyBuffer
  <2>5. MessagesConserved
    BY <2>1, <2>2, <2>3, <2>4, FlattenEmpty DEF LoggingInit, MessagesConserved
  <2> QED
    BY <2>5 DEF LoggingInit, ConservedInv
<1>2. ConservedInv => MessagesConserved
  BY DEF ConservedInv
<1> QED
  BY <1>1, <1>2, NextConserves, Invariance, PTL DEF Spec
==============================================================================
