----------------------------- MODULE AsyncLogging -----------------------------
(***************************************************************************)
(* AsyncLogging of base/async_logging.h: loggers append to current_buf_    *)
(* under mutex_, one consumer thread exchanges full buffers for empty ones *)
(* under mutex_ and writes them to a LogFile without it.  A buffer is the  *)
(* DataBuffer that a unique_ptr owns, Null if the pointer was moved from.  *)
(* Append and the consumer's exchange are single critical sections, hence  *)
(* single steps; the wait_for between them has no predicate, so a notify,  *)
(* the timeout and a spurious wakeup all do the same.                      *)
(*                                                                         *)
(* The body of the constructor writes current_buf_, next_buf_ and buffers_ *)
(* without mutex_ while the consumer starts; only its write to stop_ is    *)
(* interleaved with the consumer here (the consumer first opens a file and *)
(* clears two large buffers).                                              *)
(***************************************************************************)
EXTENDS Integers, Sequences, SequencesExt

CONSTANTS Messages,     \* what loggers append, each at most once (a bound)
          Size,         \* the length of each message
          BufferSize,   \* kLargeBuffer
          DropLimit,    \* 25, the backlog the consumer trims
          DropNotice, Null

Buffer == [data : Seq(Messages), length : 0..BufferSize]

\* A LogMessage is at most kMaxLogMessageLen (256 KiB) long, a buffer 4 MB.
ASSUME BufferAssumption == /\ BufferSize \in Nat
                           /\ Size \in [Messages -> Nat]
                           /\ \A m \in Messages : Size[m] < BufferSize
                           /\ DropLimit \in Nat /\ DropLimit >= 2
                           /\ DropNotice \notin Messages
                           /\ Null \notin Buffer

VARIABLES stop_, current_buf_, next_buf_, buffers_,
          buf1, buf2, write_buffers,   \* locals of ConsumeLog
          written,     \* how many of write_buffers were given to dest.Write
          consumer,    \* where the thread is in ConsumeLog
          owner,       \* where the owner is in the object's life
          crash,       \* why the process died, "none" while it runs
          file,        \* what was given to dest.Write
          flushed,     \* length of file at the last dest.Flush
          appended     \* history: the messages Append accepted

sharedVars == <<current_buf_, next_buf_, buffers_>>
localVars == <<buf1, buf2, write_buffers, written>>
fileVars == <<file, flushed>>
vars == <<stop_, sharedVars, localVars, consumer, owner, crash, fileVars, appended>>

\* A crash ends every thread of the process.
Running == crash = "none"

------------------------------------------------------------------------------
(* DataBuffer.                                                              *)

EmptyBuffer == [data |-> << >>, length |-> 0]

Avail(b) == BufferSize - b.length

\* A message that does not fit is dropped without a word.
DataBufferAppend(b, m) ==
    IF Avail(b) > Size[m]
    THEN [data |-> Append(b.data, m), length |-> b.length + Size[m]]
    ELSE b

------------------------------------------------------------------------------
\* stop_ is a std::atomic<bool> with no initial value, in memory from new; the
\* thread starts before the constructor's body assigns it.
LoggingInit == /\ stop_ \in BOOLEAN
               /\ current_buf_ = EmptyBuffer
               /\ next_buf_ = EmptyBuffer
               /\ buffers_ = << >>
               /\ buf1 = Null
               /\ buf2 = Null
               /\ write_buffers = << >>
               /\ written = 0
               /\ consumer = "start"
               /\ owner = "constructing"
               /\ crash = "none"
               /\ file = << >>
               /\ flushed = 0
               /\ appended = << >>

Construct == /\ Running
             /\ owner = "constructing"
             /\ stop_' = FALSE
             /\ owner' = "constructed"
             /\ UNCHANGED <<sharedVars, localVars, consumer, crash, fileVars, appended>>

\* AsyncLoggingManager calls Start right after the constructor.
Start == /\ Running
         /\ owner = "constructed"
         /\ stop_' = FALSE
         /\ owner' = "running"
         /\ UNCHANGED <<sharedVars, localVars, consumer, crash, fileVars, appended>>

\* Stop, or the destructor, which calls it if stop_ is not set.
Stop == /\ Running
        /\ owner = "running"
        /\ stop_' = TRUE
        /\ owner' = "joining"
        /\ UNCHANGED <<sharedVars, localVars, consumer, crash, fileVars, appended>>

StopJoins == /\ Running
             /\ owner = "joining"
             /\ consumer = "done"
             /\ owner' = "stopped"
             /\ UNCHANGED <<stop_, sharedVars, localVars, consumer, crash, fileVars, appended>>

\* Mutant: the full buffer is reused in place instead of queued.
AppendOverwrites(m) ==
    /\ Running
    /\ owner # "constructing"
    /\ m \notin Range(appended)
    /\ current_buf_' = IF Avail(current_buf_) > Size[m] THEN DataBufferAppend(current_buf_, m)
                       ELSE DataBufferAppend(EmptyBuffer, m)
    /\ appended' = Append(appended, m)
    /\ UNCHANGED <<stop_, next_buf_, buffers_, localVars, consumer, owner, crash, fileVars>>

\* With next_buf_ gone too, current_buf_->Reset() dereferences the pointer
\* that was just moved from.
AppendMessage(m) ==
    /\ Running
    /\ owner # "constructing"
    /\ m \notin Range(appended)
    /\ IF Avail(current_buf_) > Size[m]
       THEN /\ current_buf_' = DataBufferAppend(current_buf_, m)
            /\ appended' = Append(appended, m)
            /\ UNCHANGED <<buffers_, next_buf_, crash>>
       ELSE /\ buffers_' = Append(buffers_, current_buf_)
            /\ next_buf_' = Null
            /\ IF next_buf_ # Null
               THEN /\ current_buf_' = DataBufferAppend(next_buf_, m)
                    /\ appended' = Append(appended, m)
                    /\ UNCHANGED crash
               ELSE /\ current_buf_' = Null
                    /\ crash' = "null pointer in Append"
                    /\ UNCHANGED appended
    /\ UNCHANGED <<stop_, localVars, consumer, owner, fileVars>>

------------------------------------------------------------------------------
(* ConsumeLog.                                                              *)

\* assert(stop_ == false), then the thread makes its two spare buffers.
ConsumerStart ==
    /\ Running
    /\ consumer = "start"
    /\ IF stop_
       THEN /\ crash' = "assert in ConsumeLog"
            /\ UNCHANGED <<buf1, buf2, consumer>>
       ELSE /\ buf1' = EmptyBuffer
            /\ buf2' = EmptyBuffer
            /\ consumer' = "loop"
            /\ UNCHANGED crash
    /\ UNCHANGED <<stop_, sharedVars, write_buffers, written, owner, fileVars, appended>>

\* Mutant: the loop never ends.
ConsumerLoopForever ==
    /\ Running
    /\ consumer = "loop"
    /\ consumer' = "lock"
    /\ UNCHANGED <<stop_, sharedVars, localVars, owner, crash, fileVars, appended>>

ConsumerLoop ==
    /\ Running
    /\ consumer = "loop"
    /\ consumer' = IF stop_ THEN "leave" ELSE "lock"
    /\ UNCHANGED <<stop_, sharedVars, localVars, owner, crash, fileVars, appended>>

\* Mutant: buffers_ is copied and not emptied by the exchange.
ExchangeCopies ==
    /\ write_buffers' = Append(buffers_, current_buf_)
    /\ current_buf_' = buf1
    /\ buf1' = Null
    /\ next_buf_' = IF next_buf_ = Null THEN buf2 ELSE next_buf_
    /\ buf2' = IF next_buf_ = Null THEN Null ELSE buf2
    /\ consumer' = "trim"
    /\ UNCHANGED buffers_

\* Mutant: next_buf_ is not replaced.
ExchangeKeepsSpare ==
    /\ write_buffers' = Append(buffers_, current_buf_)
    /\ buffers_' = write_buffers
    /\ current_buf_' = buf1
    /\ buf1' = Null
    /\ consumer' = "trim"
    /\ UNCHANGED <<next_buf_, buf2>>

\* The critical section after the wait: lines 176 to 181.
Exchange ==
    /\ write_buffers' = Append(buffers_, current_buf_)
    /\ buffers_' = write_buffers
    /\ current_buf_' = buf1
    /\ buf1' = Null
    /\ next_buf_' = IF next_buf_ = Null THEN buf2 ELSE next_buf_
    /\ buf2' = IF next_buf_ = Null THEN Null ELSE buf2
    /\ consumer' = "trim"

ConsumerLock ==
    /\ Running
    /\ consumer = "lock"
    /\ IF buffers_ = << >>
       THEN /\ consumer' = "asleep"
            /\ UNCHANGED <<sharedVars, buf1, buf2, write_buffers>>
       ELSE Exchange
    /\ UNCHANGED <<stop_, written, owner, crash, fileVars, appended>>

\* wait_for returns: notified, after flush_interval_, or for no reason.
ConsumerWakes ==
    /\ Running
    /\ consumer = "asleep"
    /\ Exchange
    /\ UNCHANGED <<stop_, written, owner, crash, fileVars, appended>>

ConsumerTrims ==
    /\ Running
    /\ consumer = "trim"
    /\ consumer' = "write"
    /\ IF Len(write_buffers) > DropLimit
       THEN /\ write_buffers' = SubSeq(write_buffers, 1, 2)
            /\ file' = Append(file, DropNotice)
       ELSE UNCHANGED <<write_buffers, file>>
    /\ UNCHANGED <<stop_, sharedVars, buf1, buf2, written, owner, crash, flushed, appended>>

\* dest.Write for the next buffer.
ConsumerWrites ==
    /\ Running
    /\ consumer = "write"
    /\ IF written < Len(write_buffers)
       THEN /\ file' = file \o write_buffers[written + 1].data
            /\ written' = written + 1
            /\ UNCHANGED consumer
       ELSE /\ consumer' = "refill"
            /\ UNCHANGED <<file, written>>
    /\ UNCHANGED <<stop_, sharedVars, buf1, buf2, write_buffers, owner, crash, flushed, appended>>

\* Mutant: no dest.Flush at the end of a round.
ConsumerRefillsUnflushed ==
    /\ Running
    /\ consumer = "refill"
    /\ buf1' = IF buf1 = Null THEN EmptyBuffer ELSE buf1
    /\ buf2' = IF buf2 = Null THEN EmptyBuffer ELSE buf2
    /\ write_buffers' = << >>
    /\ written' = 0
    /\ consumer' = "loop"
    /\ UNCHANGED <<stop_, sharedVars, owner, crash, file, flushed, appended>>

\* Mutant: a refilled buffer is not Reset.
ConsumerRefillsDirty ==
    /\ Running
    /\ consumer = "refill"
    /\ buf1' = IF buf1 = Null THEN Last(write_buffers) ELSE buf1
    /\ buf2' = IF buf2 = Null THEN EmptyBuffer ELSE buf2
    /\ write_buffers' = << >>
    /\ written' = 0
    /\ consumer' = "loop"
    /\ flushed' = Len(file)
    /\ UNCHANGED <<stop_, sharedVars, owner, crash, file, appended>>

\* The spares that the exchange used up are replaced by written buffers, Reset,
\* of which there are enough (ConsumerAssertions); any others are freed.
ConsumerRefills ==
    /\ Running
    /\ consumer = "refill"
    /\ buf1' = IF buf1 = Null THEN EmptyBuffer ELSE buf1
    /\ buf2' = IF buf2 = Null THEN EmptyBuffer ELSE buf2
    /\ write_buffers' = << >>
    /\ written' = 0
    /\ consumer' = "loop"
    /\ flushed' = Len(file)
    /\ UNCHANGED <<stop_, sharedVars, owner, crash, file, appended>>

ConsumerLeaves ==
    /\ Running
    /\ consumer = "leave"
    /\ consumer' = "done"
    /\ flushed' = Len(file)
    /\ UNCHANGED <<stop_, sharedVars, localVars, owner, crash, file, appended>>

Consumer == \/ ConsumerStart \/ ConsumerLoop \/ ConsumerLock \/ ConsumerWakes
            \/ ConsumerTrims \/ ConsumerWrites \/ ConsumerRefills \/ ConsumerLeaves

------------------------------------------------------------------------------
Ended == (~Running \/ owner = "stopped") /\ UNCHANGED vars

Next == \/ \E m \in Messages : AppendMessage(m)
        \/ Consumer
        \/ Construct \/ Start \/ Stop \/ StopJoins
        \/ Ended

(* The consumer thread is scheduled, wait_for times out, the constructor    *)
(* and the join of an ended thread return.  Nobody has to append or stop.   *)
Fairness == WF_vars(Consumer) /\ WF_vars(Construct) /\ WF_vars(StopJoins)

Spec == LoggingInit /\ [][Next]_vars /\ Fairness

------------------------------------------------------------------------------
TypeOK == /\ stop_ \in BOOLEAN
          /\ current_buf_ \in Buffer \cup {Null}
          /\ next_buf_ \in Buffer \cup {Null}
          /\ buffers_ \in Seq(Buffer)
          /\ buf1 \in Buffer \cup {Null}
          /\ buf2 \in Buffer \cup {Null}
          /\ write_buffers \in Seq(Buffer)
          /\ written \in 0..Len(write_buffers)
          /\ consumer \in {"start", "loop", "lock", "asleep", "trim", "write", "refill", "leave", "done"}
          /\ owner \in {"constructing", "constructed", "running", "joining", "stopped"}
          /\ crash \in {"none", "null pointer in Append", "assert in ConsumeLog"}
          /\ file \in Seq(Messages \cup {DropNotice})
          /\ flushed \in 0..Len(file)
          /\ appended \in Seq(Messages)

(* The assertions of ConsumeLog at lines 167 to 169, 184, 203 and 210: a    *)
(* round starts with two clean spare buffers and ends with at least as many *)
(* written buffers as spares to replace.                                    *)
ConsumerAssertions ==
    /\ consumer = "loop" => buf1 = EmptyBuffer /\ buf2 = EmptyBuffer /\ write_buffers = << >>
    /\ consumer = "trim" => write_buffers # << >>
    /\ consumer = "refill" => Len(write_buffers) >= (IF buf1 = Null THEN 1 ELSE 0)
                                                  + (IF buf2 = Null THEN 1 ELSE 0)

Held(b) == IF b = Null THEN 0 ELSE 1

(* Exactly four buffers circulate for ever once the consumer has started:   *)
(* none is leaked, freed or allocated by an exchange, so the backlog never  *)
(* exceeds two buffers and lines 186 to 191 and 198 to 200 are never taken. *)
FourBuffers ==
    /\ consumer # "start" =>
           Held(current_buf_) + Held(next_buf_) + Held(buf1) + Held(buf2)
               + Len(buffers_) + Len(write_buffers) = 4
    /\ Len(write_buffers) <= 2

Data(b) == IF b = Null THEN << >> ELSE b.data
Unwritten == SubSeq(write_buffers, written + 1, Len(write_buffers)) \o buffers_

(* No message is lost, duplicated or reordered between Append and the file: *)
(* the file, the buffers on their way to it and current_buf_ together are   *)
(* what was appended, in that order.                                        *)
MessagesConserved ==
    file \o FlattenSeq([i \in DOMAIN Unwritten |-> Unwritten[i].data]) \o Data(current_buf_)
        = appended

(* While the logger is not stopped and the process lives, every message     *)
(* reaches the flushed part of the file.                                    *)
MessagesFlushed ==
    \A m \in Messages : m \in Range(appended)
                            ~> (m \in Range(SubSeq(file, 1, flushed)) \/ stop_ \/ crash # "none")

(* Stop returns: the consumer sees stop_ after at most one more round.      *)
StopReturns == owner = "joining" ~> (owner = "stopped" \/ crash # "none")

(* Append goes on when the consumer lags behind: the code means to drop     *)
(* messages only beyond 25 buffers.                                         *)
AppendSurvivesBacklog == crash # "null pointer in Append"

(* How far the loggers may get ahead: Append meets the null pointer only if *)
(* two buffers were filled since the last exchange, each up to less than    *)
(* the longest message (Append, the exchange in ConsumeLog).                *)
CrashOnlyWhenBothFull ==
    crash = "null pointer in Append" =>
        /\ Len(buffers_) = 2
        /\ \A i \in 1..2 : \E m \in Messages : Avail(buffers_[i]) <= Size[m]
==============================================================================
