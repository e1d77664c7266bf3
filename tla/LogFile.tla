------------------------------- MODULE LogFile -------------------------------
(***************************************************************************)
(* LogFile and WriteOp of base/logging.{h,cc}: one log file that rolls over *)
(* to a new one by size, by period, or when somebody has removed it.  Its  *)
(* operations are functions of the object and of the clock; whoever calls  *)
(* them holds a lock.  The clock does not move during a call: the name of  *)
(* a file and the moments a call compares are all taken from now.          *)
(***************************************************************************)
EXTENDS Integers

CONSTANTS RollSize,       \* roll_size_
          HeaderSize,     \* what RollFile writes at the head of a file
          Period,         \* roll_per_seconds, one day
          FlushInterval,  \* flush_interval_
          CheckEveryN     \* check_every_n_

ASSUME LogFileAssumption == /\ RollSize \in Nat /\ HeaderSize \in 0..RollSize
                            /\ Period \in Nat \ {0}
                            /\ FlushInterval \in Nat
                            /\ CheckEveryN \in Nat \ {0}

\* The file may be removed, or fail to open, so linked and good are apart.
LogFileType == [written_bytes : Nat, count_ : 0..(CheckEveryN - 1), start_of_period_ : Nat,
                last_roll_ : Nat, last_flush_ : Nat,
                good : BOOLEAN,      \* the stream was opened
                linked : BOOLEAN]    \* its name is still in the directory

StartOfPeriod(now) == (now \div Period) * Period

\* Mutant: the new file keeps the period of the old one.
RollFileKeepsPeriod(f, now, opened) ==
    IF now > f.last_roll_
    THEN [f EXCEPT !.last_roll_ = now, !.last_flush_ = now,
                   !.written_bytes = IF opened THEN HeaderSize ELSE 0,
                   !.good = opened, !.linked = opened]
    ELSE f

\* A file is replaced at most once a second; opened says if the new one opens.
RollFile(f, now, opened) ==
    IF now > f.last_roll_
    THEN [f EXCEPT !.last_roll_ = now, !.last_flush_ = now,
                   !.start_of_period_ = StartOfPeriod(now),
                   !.written_bytes = IF opened THEN HeaderSize ELSE 0,
                   !.good = opened, !.linked = opened]
    ELSE f

\* The constructor: time() is never 0.
NewLogFile(now, opened) ==
    RollFile([written_bytes |-> 0, count_ |-> 0, start_of_period_ |-> 0, last_roll_ |-> 0,
              last_flush_ |-> 0, good |-> FALSE, linked |-> FALSE], now, opened)

WriteOpWrite(f, size) == IF f.good THEN [f EXCEPT !.written_bytes = @ + size] ELSE f

\* Mutant: the count starts anew only after one write too many.
CheckPeriodLate(f, now, opened) ==
    IF f.count_ < CheckEveryN THEN [f EXCEPT !.count_ = @ + 1]
    ELSE LET g == [f EXCEPT !.count_ = 0] IN
         IF StartOfPeriod(now) # g.start_of_period_ THEN RollFile(g, now, opened)
         ELSE IF now - g.last_flush_ > FlushInterval THEN [g EXCEPT !.last_flush_ = now]
         ELSE g

\* Every CheckEveryN writes the period is compared and the file flushed.
CheckPeriod(f, now, opened) ==
    IF f.count_ + 1 < CheckEveryN THEN [f EXCEPT !.count_ = @ + 1]
    ELSE LET g == [f EXCEPT !.count_ = 0] IN
         IF StartOfPeriod(now) # g.start_of_period_ THEN RollFile(g, now, opened)
         ELSE IF now - g.last_flush_ > FlushInterval THEN [g EXCEPT !.last_flush_ = now]
         ELSE g

\* Mutant: the size is compared before the message is added.
WriteUnlockedLate(f, size, second, now, opened) ==
    LET is_rolled == second % 2 = 0 /\ ~f.linked
        g == IF is_rolled THEN RollFile(f, now, opened) ELSE f
    IN WriteOpWrite(IF g.written_bytes > RollSize /\ ~is_rolled THEN RollFile(g, now, opened)
                    ELSE CheckPeriod(g, now, opened), size)

\* The message is written first, to a file that may be gone.  In an even
\* second a missing file is replaced, and its size is not looked at.
WriteUnlocked(f, size, second, now, opened) ==
    LET w == WriteOpWrite(f, size)
        is_rolled == second % 2 = 0 /\ ~w.linked
        g == IF is_rolled THEN RollFile(w, now, opened) ELSE w
    IN IF g.written_bytes > RollSize /\ ~is_rolled THEN RollFile(g, now, opened)
       ELSE CheckPeriod(g, now, opened)
==============================================================================
