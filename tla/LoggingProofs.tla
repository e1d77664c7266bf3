----------------------------- MODULE LoggingProofs -----------------------------
(***************************************************************************)
(* Safety of LOG statements, of the log files and of the manager's loggers *)
(* for any threads, messages, sizes, periods and settings.                 *)
(***************************************************************************)
EXTENDS Logging, TLAPS, SequenceTheorems, NaturalsInduction, WellFoundedInduction

------------------------------------------------------------------------------
(* Induction over the natural numbers, with sets for predicates.            *)

LEMMA LeastNumber ==
  ASSUME NEW S \in SUBSET Nat, S # {}
  PROVE  \E x \in S : \A y \in S : x <= y
<1> DEFINE R == OpToRel(<, Nat)
<1>1. IsWellFoundedOn(R, Nat)
  BY NatLessThanWellFounded
<1>2. \E x \in S : \A y \in S : ~(<<y, x>> \in R)
  <2> HIDE DEF R
  <2> QED
    BY <1>1, WFMin
<1>3. \A x, y \in Nat : y < x => <<y, x>> \in R
  BY DEF OpToRel
<1> HIDE DEF R
<1>4. PICK x \in S : \A y \in S : ~(<<y, x>> \in R)
  BY <1>2
<1>5. \A y \in S : ~(y < x)
  BY <1>3, <1>4
<1>6. \A y \in S : x <= y
  BY <1>5
<1> QED
  BY <1>6

LEMMA NatSetInduction ==
  ASSUME NEW S, 0 \in S, \A n \in Nat : n \in S => n + 1 \in S
  PROVE  Nat \subseteq S
<1> SUFFICES ASSUME Nat \ S # {} PROVE FALSE
  OBVIOUS
<1>1. PICK x \in Nat \ S : \A y \in Nat \ S : x <= y
  BY LeastNumber
<1>2. x # 0 /\ x - 1 \in Nat /\ x - 1 \in S
  BY <1>1
<1> QED
  BY <1>1, <1>2

------------------------------------------------------------------------------
(* What SelectIn does for one more element.                                 *)

\* f has the values that SelectIn computes for the first n elements of s.
Selects(f, s, S, n) ==
    f = [k \in 0..n |-> IF k = 0 THEN << >>
                        ELSE IF s[k] \in S THEN Append(f[k - 1], s[k]) ELSE f[k - 1]]

LEMMA SelectsValues ==
  ASSUME NEW f, NEW s, NEW S, NEW n \in Nat, Selects(f, s, S, n)
  PROVE  /\ f[0] = << >>
         /\ \A k \in Nat : k + 1 <= n =>
               f[k + 1] = IF s[k + 1] \in S THEN Append(f[k], s[k + 1]) ELSE f[k]
<1>1. f[0] = << >>
  BY DEF Selects
<1>2. ASSUME NEW k \in Nat, k + 1 <= n
      PROVE  f[k + 1] = IF s[k + 1] \in S THEN Append(f[k], s[k + 1]) ELSE f[k]
  <2>1. k + 1 \in 0..n /\ k + 1 # 0 /\ (k + 1) - 1 = k
    BY <1>2
  <2>2. f[k + 1] = IF k + 1 = 0 THEN << >>
                   ELSE IF s[k + 1] \in S THEN Append(f[(k + 1) - 1], s[k + 1]) ELSE f[(k + 1) - 1]
    BY <2>1 DEF Selects
  <2> QED
    BY <2>1, <2>2
<1> QED
  BY <1>1, <1>2

\* The values depend on the elements before them only.
LEMMA SelectsUnique ==
  ASSUME NEW f, NEW g, NEW s, NEW r, NEW S, NEW n \in Nat, NEW p \in Nat, n <= p,
         Selects(f, s, S, n), Selects(g, r, S, p), \A k \in 1..n : s[k] = r[k]
  PROVE  f[n] = g[n]
<1> DEFINE Same == {k \in Nat : k <= n => f[k] = g[k]}
<1>1. 0 \in Same
  BY SelectsValues
<1>2. ASSUME NEW k \in Nat, k \in Same
      PROVE  k + 1 \in Same
  <2> SUFFICES ASSUME k + 1 <= n PROVE f[k + 1] = g[k + 1]
    OBVIOUS
  <2>1. k + 1 <= p /\ k <= n /\ k + 1 \in 1..n
    OBVIOUS
  <2>2. /\ f[k + 1] = IF s[k + 1] \in S THEN Append(f[k], s[k + 1]) ELSE f[k]
        /\ g[k + 1] = IF r[k + 1] \in S THEN Append(g[k], r[k + 1]) ELSE g[k]
    BY <2>1, SelectsValues
  <2>3. f[k] = g[k] /\ s[k + 1] = r[k + 1]
    BY <1>2, <2>1
  <2> QED
    BY <2>2, <2>3
<1> HIDE DEF Same
<1>3. n \in Same
  BY <1>1, <1>2, NatSetInduction
<1> QED
  BY <1>3 DEF Same

\* Every sequence has such a function, so SelectIn is its last value.
LEMMA SelectsExists ==
  ASSUME NEW s, NEW S, NEW n \in Nat
  PROVE  \E f : Selects(f, s, S, n)
<1> DEFINE Has == {k \in Nat : \E f : Selects(f, s, S, k)}
<1>1. 0 \in Has
  <2> DEFINE f == [k \in 0..0 |-> << >>]
  <2>1. Selects(f, s, S, 0)
    BY DEF Selects
  <2> QED
    BY <2>1
<1>2. ASSUME NEW k \in Nat, k \in Has
      PROVE  k + 1 \in Has
  <2>1. PICK f : Selects(f, s, S, k)
    BY <1>2
  <2> DEFINE g == [j \in 0..(k + 1) |->
                     IF j <= k THEN f[j]
                     ELSE IF s[k + 1] \in S THEN Append(f[k], s[k + 1]) ELSE f[k]]
  <2>2. \A j \in 0..k : g[j] = f[j]
    OBVIOUS
  <2>3. g[k + 1] = IF s[k + 1] \in S THEN Append(f[k], s[k + 1]) ELSE f[k]
    OBVIOUS
  <2>4. ASSUME NEW j \in 0..(k + 1)
        PROVE  g[j] = IF j = 0 THEN << >>
                      ELSE IF s[j] \in S THEN Append(g[j - 1], s[j]) ELSE g[j - 1]
    <3> HIDE DEF g
    <3>1. CASE j = 0
      BY <2>1, <2>2, <3>1, SelectsValues
    <3>2. CASE j \in 1..k
      <4>1. j - 1 \in Nat /\ (j - 1) + 1 = j /\ j - 1 \in 0..k /\ j \in 0..k
        BY <3>2
      <4>2. f[j] = IF s[j] \in S THEN Append(f[j - 1], s[j]) ELSE f[j - 1]
        BY <2>1, <3>2, <4>1, SelectsValues
      <4> QED
        BY <2>2, <3>2, <4>1, <4>2
    <3>3. CASE j = k + 1
      BY <2>2, <2>3, <3>3
    <3> QED
      BY <3>1, <3>2, <3>3
  <2>5. Selects(g, s, S, k + 1)
    <3>1. g = [j \in 0..(k + 1) |-> g[j]]
      OBVIOUS
    <3> HIDE DEF g
    <3> QED
      BY <2>4, <3>1 DEF Selects
  <2> QED
    BY <2>5
<1> HIDE DEF Has
<1>3. n \in Has
  BY <1>1, <1>2, NatSetInduction
<1> QED
  BY <1>3 DEF Has

LEMMA SelectInIs ==
  ASSUME NEW s, NEW S, Len(s) \in Nat
  PROVE  \E f : Selects(f, s, S, Len(s)) /\ SelectIn(s, S) = f[Len(s)]
<1> DEFINE F(f) == [k \in 0..Len(s) |-> IF k = 0 THEN << >>
                        ELSE IF s[k] \in S THEN Append(f[k - 1], s[k]) ELSE f[k - 1]]
           selected == CHOOSE f : f = F(f)
<1>1. \E f : f = F(f)
  <2>1. PICK f : Selects(f, s, S, Len(s))
    BY SelectsExists
  <2>2. f = F(f)
    BY <2>1 DEF Selects
  <2> HIDE DEF F
  <2> QED
    BY <2>2
<1>2. SelectIn(s, S) = selected[Len(s)]
  BY DEF SelectIn
<1>3. selected = F(selected)
  <2> HIDE DEF F
  <2> QED
    BY <1>1, Zenon
<1> HIDE DEF selected
<1>4. Selects(selected, s, S, Len(s))
  BY <1>3 DEF Selects
<1> QED
  BY <1>2, <1>4

LEMMA SelectInEmpty == \A S : SelectIn(<< >>, S) = << >>
<1> SUFFICES ASSUME NEW S PROVE SelectIn(<< >>, S) = << >>
  OBVIOUS
<1>1. Len(<< >>) = 0
  OBVIOUS
<1>2. PICK f : Selects(f, << >>, S, 0) /\ SelectIn(<< >>, S) = f[0]
  BY <1>1, SelectInIs
<1> QED
  BY <1>2, SelectsValues

LEMMA SelectInAppend ==
  ASSUME NEW E, NEW s \in Seq(E), NEW x \in E, NEW S
  PROVE  SelectIn(Append(s, x), S) = IF x \in S THEN Append(SelectIn(s, S), x) ELSE SelectIn(s, S)
<1> DEFINE r == Append(s, x)
           n == Len(s)
<1>1. /\ n \in Nat /\ Len(r) = n + 1 /\ r[n + 1] = x
      /\ \A k \in 1..n : s[k] = r[k]
  BY AppendProperties, LenProperties
<1> HIDE DEF r, n
<1>2. PICK f : Selects(f, s, S, n) /\ SelectIn(s, S) = f[n]
  BY <1>1, SelectInIs DEF n
<1>3. PICK g : Selects(g, r, S, n + 1) /\ SelectIn(r, S) = g[n + 1]
  BY <1>1, SelectInIs
<1>4. g[n + 1] = IF x \in S THEN Append(g[n], x) ELSE g[n]
  BY <1>1, <1>3, SelectsValues
<1>5. f[n] = g[n]
  <2>1. n <= n + 1 /\ n + 1 \in Nat /\ n \in Nat
    BY <1>1
  <2>2. \A k \in 1..n : s[k] = r[k]
    BY <1>1
  <2> QED
    BY <1>2, <1>3, <2>1, <2>2, SelectsUnique
<1> QED
  BY <1>2, <1>3, <1>4, <1>5 DEF r

LEMMA SelectInSeq ==
  ASSUME NEW E, NEW s \in Seq(E), NEW S
  PROVE  SelectIn(s, S) \in Seq(E)
<1> DEFINE n == Len(s)
<1>1. n \in Nat /\ \A k \in 1..n : s[k] \in E
  BY LenProperties, ElementOfSeq
<1>2. PICK f : Selects(f, s, S, n) /\ SelectIn(s, S) = f[n]
  BY <1>1, SelectInIs
<1> DEFINE Typed == {k \in Nat : k <= n => f[k] \in Seq(E)}
<1> HIDE DEF n
<1>3. 0 \in Typed
  <2>1. f[0] = << >>
    BY <1>1, <1>2, SelectsValues
  <2>2. << >> \in Seq(E)
    OBVIOUS
  <2> QED
    BY <2>1, <2>2
<1>4. ASSUME NEW k \in Nat, k \in Typed
      PROVE  k + 1 \in Typed
  <2> SUFFICES ASSUME k + 1 <= n PROVE f[k + 1] \in Seq(E)
    OBVIOUS
  <2>1. f[k] \in Seq(E) /\ s[k + 1] \in E
    BY <1>1, <1>4
  <2>2. f[k + 1] = IF s[k + 1] \in S THEN Append(f[k], s[k + 1]) ELSE f[k]
    BY <1>1, <1>2, SelectsValues
  <2> QED
    BY <2>1, <2>2, AppendProperties
<1> HIDE DEF Typed
<1>5. n \in Typed
  BY <1>1, <1>3, <1>4, NatSetInduction
<1> QED
  BY <1>1, <1>2, <1>5 DEF Typed

LEMMA ConcatOne ==
  ASSUME NEW E, NEW s \in Seq(E), NEW x \in E
  PROVE  s \o <<x>> = Append(s, x) /\ s \o << >> = s /\ Append(s, x) \in Seq(E)
  BY AppendIsConcat, ConcatEmptySeq, AppendProperties
------------------------------------------------------------------------------
(* The invariant.                                                           *)

\* What a file, a logger or stderr can be given.
Items == Messages \cup {Warning(m) : m \in Messages}

TypeInv == TypeOK /\ given \in [Indices -> Seq(Items)] /\ sent \in Seq(Items)

InLoop == {"write", "manage", "make", "append"}

\* A thread in a LOG statement has a message, and in a loop of Flush or Append
\* an index up to that of its severity.
StatementInv ==
    \A t \in Threads :
        /\ thread[t] # "idle" => message[t] \in Messages
        /\ thread[t] \in InLoop => index[t] \in Indices /\ index[t] <= LogIndex(message[t])
        /\ thread[t] = "write" => ToFiles
        /\ thread[t] \in {"manage", "make", "append"} => settings.g_async

\* The holder of mutex is the only one to write, to send or to make loggers.
MutexInv ==
    /\ mutex # NoThread => thread[mutex] \in InLoop \cup {"send"}
    /\ \A t \in Threads : thread[t] \in {"write", "make", "append", "send"} => mutex = t

\* Who has appended to the loggers of a message, or is to warn about it, finds
\* them all; the holder of mutex has made those below its index.
LoggerInv ==
    Running =>
        /\ \A i \in Indices : made[i] = IF async_loggings_[i] THEN 1 ELSE 0
        /\ settings.g_async =>
              \A t \in Threads, i \in Indices :
                  /\ thread[t] \in {"send", "warn"} \/ (thread[t] = "manage" /\ mutex # t) =>
                         (i <= LogIndex(message[t]) => async_loggings_[i])
                  /\ thread[t] \in {"manage", "make", "append"} /\ mutex = t =>
                         (i < index[t] => async_loggings_[i])
                  /\ thread[t] = "make" => ~async_loggings_[index[t]]
                  /\ thread[t] = "append" => async_loggings_[index[t]]

\* The period of a file is that of its last roll.
RollInv(f, time) == /\ f \in LogFileType /\ f.last_roll_ <= time
                    /\ f.start_of_period_ = StartOfPeriod(f.last_roll_)

\* Writes after the period are counted from the last check at the latest.
FileInv ==
    Running =>
        \A i \in Indices :
            IF log_destinations_[i] = NoFile THEN late[i] = 0
            ELSE RollInv(log_destinations_[i], now) /\ late[i] <= log_destinations_[i].count_

Inv == /\ TypeInv /\ StatementInv /\ MutexInv /\ LoggerInv /\ FileInv
       /\ LoggersMadeOnce /\ PeriodRespected /\ OneOrder

------------------------------------------------------------------------------
(* One log file.                                                            *)

LEMMA StartOfPeriodNat == \A n \in Nat : StartOfPeriod(n) \in Nat
<1>1. Period \in Nat /\ Period > 0
  BY LogFileAssumption
<1>2. \A n \in Nat : n \div Period \in Nat
  BY <1>1
<1>3. \A a, b \in Nat : a * b \in Nat
  OBVIOUS
<1> QED
  BY <1>1, <1>2, <1>3 DEF StartOfPeriod

LEMMA FileTypes ==
  ASSUME NEW f \in LogFileType
  PROVE  /\ f.written_bytes \in Nat /\ f.count_ \in Nat /\ f.count_ <= CheckEveryN - 1
         /\ f.start_of_period_ \in Nat /\ f.last_roll_ \in Nat /\ f.last_flush_ \in Nat
         /\ f.good \in BOOLEAN /\ f.linked \in BOOLEAN
  BY LogFileAssumption DEF LogFileType

\* After RollFile the file is of this second, whether it was replaced or not.
LEMMA RollFileIs ==
  ASSUME NEW time \in Nat, NEW f, RollInv(f, time), NEW opened \in BOOLEAN
  PROVE  LET r == RollFile(f, time, opened)
         IN /\ RollInv(r, time) /\ r.last_roll_ = time
            /\ r.start_of_period_ = StartOfPeriod(time) /\ r.count_ = f.count_
<1> DEFINE r == RollFile(f, time, opened)
           bytes == IF opened THEN HeaderSize ELSE 0
<1>1. f \in LogFileType /\ f.last_roll_ \in Nat /\ f.last_roll_ <= time
      /\ f.start_of_period_ = StartOfPeriod(f.last_roll_)
  BY FileTypes DEF RollInv
<1>2. CASE time > f.last_roll_
  <2>1. r = [f EXCEPT !.last_roll_ = time, !.last_flush_ = time,
                      !.start_of_period_ = StartOfPeriod(time),
                      !.written_bytes = bytes, !.good = opened, !.linked = opened]
    BY <1>2 DEF RollFile
  <2>2. bytes \in Nat
    BY LogFileAssumption
  <2> HIDE DEF r, bytes
  <2>3. r \in LogFileType
    BY <1>1, <2>1, <2>2, StartOfPeriodNat DEF LogFileType
  <2>4. /\ r.last_roll_ = time /\ r.start_of_period_ = StartOfPeriod(time)
        /\ r.count_ = f.count_
    BY <1>1, <2>1 DEF LogFileType
  <2> QED
    BY <2>3, <2>4 DEF RollInv, r
<1>3. CASE ~(time > f.last_roll_)
  <2>1. r = f /\ f.last_roll_ = time
    BY <1>1, <1>3 DEF RollFile
  <2> QED
    BY <1>1, <2>1
<1> QED
  BY <1>2, <1>3

LEMMA NewLogFileIs ==
  ASSUME NEW time \in Nat, time > 0, NEW opened \in BOOLEAN
  PROVE  RollInv(NewLogFile(time, opened), time) /\ NewLogFile(time, opened).count_ = 0
<1> DEFINE f == [written_bytes |-> 0, count_ |-> 0, start_of_period_ |-> 0, last_roll_ |-> 0,
                 last_flush_ |-> 0, good |-> FALSE, linked |-> FALSE]
<1>1. f \in LogFileType /\ f.last_roll_ = 0 /\ f.count_ = 0
  BY LogFileAssumption DEF LogFileType
<1>2. StartOfPeriod(0) = 0
  <2>1. Period \in Nat /\ Period > 0
    BY LogFileAssumption
  <2>2. 0 \div Period = 0
    BY <2>1
  <2> QED
    BY <2>1, <2>2 DEF StartOfPeriod
<1>3. RollInv(f, time)
  BY <1>1, <1>2 DEF RollInv
<1>4. NewLogFile(time, opened) = RollFile(f, time, opened)
  BY DEF NewLogFile
<1> HIDE DEF f
<1> QED
  BY <1>1, <1>3, <1>4, RollFileIs

\* CheckPeriod counts, or leaves a file of the present period; it rolls a file
\* of this second no more.
LEMMA CheckPeriodIs ==
  ASSUME NEW time \in Nat, NEW f, RollInv(f, time), NEW opened \in BOOLEAN
  PROVE  LET c == CheckPeriod(f, time, opened)
         IN /\ RollInv(c, time)
            /\ c.start_of_period_ = StartOfPeriod(time) \/ c.count_ = f.count_ + 1
            /\ c.last_roll_ = time \/ c.written_bytes = f.written_bytes
            /\ f.last_roll_ = time => c.last_roll_ = time
<1> DEFINE c == CheckPeriod(f, time, opened)
           g == [f EXCEPT !.count_ = 0]
<1>1. f \in LogFileType /\ f.last_roll_ \in Nat /\ f.last_roll_ <= time
      /\ f.start_of_period_ = StartOfPeriod(f.last_roll_) /\ f.count_ \in Nat
  BY FileTypes DEF RollInv
<1>n. CheckEveryN \in Nat /\ CheckEveryN > 0
  BY LogFileAssumption
<1>2. CASE f.count_ + 1 < CheckEveryN
  <2>1. c = [f EXCEPT !.count_ = f.count_ + 1]
    BY <1>2 DEF CheckPeriod
  <2>2. f.count_ + 1 \in 0..(CheckEveryN - 1)
    BY <1>1, <1>2, <1>n
  <2> HIDE DEF c
  <2>3. c \in LogFileType
    BY <1>1, <2>1, <2>2 DEF LogFileType
  <2>4. /\ c.count_ = f.count_ + 1 /\ c.last_roll_ = f.last_roll_
        /\ c.start_of_period_ = f.start_of_period_ /\ c.written_bytes = f.written_bytes
    BY <1>1, <2>1 DEF LogFileType
  <2> QED
    BY <1>1, <2>3, <2>4 DEF RollInv, c
<1>3. CASE ~(f.count_ + 1 < CheckEveryN)
  <2>1. c = IF StartOfPeriod(time) # g.start_of_period_ THEN RollFile(g, time, opened)
            ELSE IF time - g.last_flush_ > FlushInterval THEN [g EXCEPT !.last_flush_ = time]
            ELSE g
    BY <1>3 DEF CheckPeriod
  <2>2. 0 \in 0..(CheckEveryN - 1)
    BY <1>n
  <2>3. g \in LogFileType
    BY <1>1, <2>2 DEF LogFileType
  <2>4. /\ g.count_ = 0 /\ g.last_roll_ = f.last_roll_
        /\ g.start_of_period_ = f.start_of_period_ /\ g.written_bytes = f.written_bytes
    BY <1>1 DEF LogFileType
  <2> HIDE DEF g, c
  <2>5. RollInv(g, time)
    BY <1>1, <2>3, <2>4 DEF RollInv
  <2>6. CASE StartOfPeriod(time) # g.start_of_period_
    <3>1. c = RollFile(g, time, opened)
      BY <2>1, <2>6
    <3>2. /\ RollInv(c, time) /\ c.last_roll_ = time
          /\ c.start_of_period_ = StartOfPeriod(time)
      BY <2>5, <3>1, RollFileIs
    <3> QED
      BY <3>2 DEF c
  <2>7. CASE StartOfPeriod(time) = g.start_of_period_
    <3>1. c = g \/ c = [g EXCEPT !.last_flush_ = time]
      BY <2>1, <2>7
    <3>2. /\ c \in LogFileType /\ c.last_roll_ = g.last_roll_
          /\ c.start_of_period_ = g.start_of_period_ /\ c.written_bytes = g.written_bytes
      BY <2>3, <3>1 DEF LogFileType
    <3>3. RollInv(c, time)
      BY <2>5, <3>2 DEF RollInv
    <3> QED
      BY <2>4, <2>7, <3>2, <3>3 DEF c
  <2> QED
    BY <2>6, <2>7
<1> QED
  BY <1>2, <1>3

\* A write counts, or leaves a file of the present period, and no file above
\* the limit but one that was begun in this second.
LEMMA WriteUnlockedIs ==
  ASSUME NEW time \in Nat, NEW f, RollInv(f, time), NEW opened \in BOOLEAN,
         NEW size \in Nat, NEW sec
  PROVE  LET w == WriteUnlocked(f, size, sec, time, opened)
         IN /\ RollInv(w, time)
            /\ w.start_of_period_ = StartOfPeriod(time) \/ w.count_ = f.count_ + 1
            /\ w.written_bytes > RollSize => w.last_roll_ = time
<1> DEFINE w == WriteOpWrite(f, size)
           is_rolled == sec % 2 = 0 /\ ~w.linked
           g == IF is_rolled THEN RollFile(w, time, opened) ELSE w
           c == CheckPeriod(g, time, opened)
           r == RollFile(g, time, opened)
           result == WriteUnlocked(f, size, sec, time, opened)
<1>1. f \in LogFileType /\ f.last_roll_ \in Nat /\ f.last_roll_ <= time
      /\ f.start_of_period_ = StartOfPeriod(f.last_roll_) /\ f.written_bytes \in Nat
  BY FileTypes DEF RollInv
<1>2. RollInv(w, time) /\ w.count_ = f.count_
  <2>1. w = f \/ w = [f EXCEPT !.written_bytes = f.written_bytes + size]
    BY DEF WriteOpWrite
  <2>2. f.written_bytes + size \in Nat
    BY <1>1
  <2> HIDE DEF w
  <2>3. w \in LogFileType
    BY <1>1, <2>1, <2>2 DEF LogFileType
  <2>4. /\ w.count_ = f.count_ /\ w.last_roll_ = f.last_roll_
        /\ w.start_of_period_ = f.start_of_period_
    BY <1>1, <2>1 DEF LogFileType
  <2> QED
    BY <1>1, <2>3, <2>4 DEF RollInv
<1>3. result = IF g.written_bytes > RollSize /\ ~is_rolled THEN r ELSE c
  BY DEF WriteUnlocked
<1> HIDE DEF w
<1>4. /\ RollInv(g, time) /\ g.count_ = f.count_
      /\ is_rolled => g.last_roll_ = time
  BY <1>2, RollFileIs
<1> HIDE DEF g, is_rolled, result, c, r
<1>5. g \in LogFileType /\ g.written_bytes \in Nat /\ RollSize \in Nat
  BY <1>4, FileTypes, LogFileAssumption DEF RollInv
<1>6. CASE g.written_bytes > RollSize /\ ~is_rolled
  <2>1. result = r
    BY <1>3, <1>6
  <2>2. RollInv(r, time) /\ r.last_roll_ = time /\ r.start_of_period_ = StartOfPeriod(time)
    BY <1>4, RollFileIs DEF r
  <2> QED
    BY <2>1, <2>2 DEF result
<1>7. CASE ~(g.written_bytes > RollSize /\ ~is_rolled)
  <2>1. result = c
    BY <1>3, <1>7
  <2>2. /\ RollInv(c, time)
        /\ c.start_of_period_ = StartOfPeriod(time) \/ c.count_ = g.count_ + 1
        /\ c.last_roll_ = time \/ c.written_bytes = g.written_bytes
        /\ g.last_roll_ = time => c.last_roll_ = time
    BY <1>4, CheckPeriodIs DEF c
  <2>3. c.written_bytes > RollSize => c.last_roll_ = time
    BY <1>4, <1>5, <1>7, <2>2
  <2> QED
    BY <1>4, <2>1, <2>2, <2>3 DEF result
<1> QED
  BY <1>6, <1>7

------------------------------------------------------------------------------
(* What steps leave alone.                                                  *)

LEMMA LogIndexIs == \A m : LogIndex(m) \in Indices
  BY DEF LogIndex, GetLogFileSeverityIndex, Indices

\* The story of the files changes only with what they are given, with order
\* and with the statement of the holder of mutex.
LEMMA OrderFrame ==
  ASSUME OneOrder, UNCHANGED <<settings, mutex, given, order, sent>>,
         mutex # NoThread => /\ thread'[mutex] = thread[mutex] /\ index'[mutex] = index[mutex]
                             /\ message'[mutex] = message[mutex]
  PROVE  OneOrder'
<1>1. \A i \in Indices : PendingIn(i)' = PendingIn(i)
  BY DEF PendingIn
<1>2. ToFiles' = ToFiles /\ ToStderr' = ToStderr
  BY DEF ToFiles, ToStderr
<1> QED
  BY <1>1, <1>2 DEF OneOrder

LEMMA NotHolder ==
  ASSUME Inv, NEW t \in Threads, thread[t] \notin InLoop \cup {"send"}
  PROVE  mutex # t
<1>1. NoThread \notin Threads
  BY LoggingAssumption
<1> QED
  BY <1>1 DEF Inv, MutexInv

\* The types of a state, without the arithmetic.
LEMMA Types ==
  ASSUME Inv
  PROVE  /\ settings \in Settings /\ now \in Nat /\ now > 0
         /\ mutex \in Threads \cup {NoThread} /\ NoThread \notin Threads
         /\ thread \in [Threads -> {"idle", "fatal", "flush", "write", "manage", "make", "append",
                                    "send", "warn", "end"}]
         /\ message \in [Threads -> Messages \cup {NoMessage}]
         /\ index \in [Threads -> 0..3] /\ second \in [Threads -> 0..59]
         /\ order \in Seq(Messages) /\ given \in [Indices -> Seq(Items)] /\ sent \in Seq(Items)
         /\ made \in [Indices -> Nat] /\ async_loggings_ \in [Indices -> BOOLEAN]
<1>1. now \in Nat /\ now > 0
  <2>1. now \in 1..MaxTime
    BY DEF Inv, TypeInv, TypeOK
  <2>2. MaxTime \in Nat
    BY LoggingAssumption
  <2> QED
    BY <2>1, <2>2
<1>2. NoThread \notin Threads
  BY LoggingAssumption
<1> QED
  BY <1>1, <1>2 DEF Inv, TypeInv, TypeOK

LEMMA FileFrame ==
  ASSUME FileInv, UNCHANGED <<log_destinations_, late, now>>, Running' => Running
  PROVE  FileInv'
  BY DEF FileInv

LEMMA InitInv == LoggingInit => Inv
<1> SUFFICES ASSUME LoggingInit PROVE Inv
  OBVIOUS
<1> USE DEF LoggingInit
<1>1. TypeOK
  BY LoggingAssumption, EmptySeq DEF TypeOK, Indices
<1>2. TypeInv
  BY <1>1, EmptySeq DEF TypeInv
<1>3. StatementInv /\ MutexInv /\ LoggerInv
  BY DEF StatementInv, MutexInv, LoggerInv, InLoop
<1>4. FileInv /\ LoggersMadeOnce /\ PeriodRespected
  BY LogFileAssumption DEF FileInv, LoggersMadeOnce, PeriodRespected
<1>5. OneOrder
  <2>1. << >> \o << >> = << >>
    BY ConcatEmptySeq, EmptySeq
  <2> QED
    BY <2>1, SelectInEmpty DEF OneOrder, PendingIn
<1> QED
  BY <1>2, <1>3, <1>4, <1>5 DEF Inv

LEMMA ConstructInv ==
  ASSUME Inv, NEW t \in Threads, NEW m \in Messages, Construct(t, m)
  PROVE  Inv'
<1> USE DEF Construct
<1>1. /\ UNCHANGED <<settings, now, mutex, log_destinations_, given, late, async_loggings_, made,
                     index, process, order, sent>>
      /\ Running' = Running
  BY DEF fileVars, loggerVars, Running
<1>2. TypeInv'
  <2>1. now % 60 \in 0..59
    <3>1. now \in Nat
      BY Types
    <3>2. \A n \in Nat : n % 60 \in 0..59
      OBVIOUS
    <3> QED
      BY <3>1, <3>2
  <2>2. begun' \in 0..Len(Severity)
    BY LoggingAssumption, LenProperties DEF Messages
  <2> QED
    BY <1>1, <2>1, <2>2 DEF Inv, TypeInv, TypeOK
<1>3. thread[t] = "idle" /\ thread'[t] \in {"fatal", "flush"} /\ mutex # t
  BY Types, NotHolder DEF InLoop
<1>4. \A u \in Threads : u # t => thread'[u] = thread[u] /\ message'[u] = message[u]
  BY DEF Inv, TypeInv, TypeOK
<1>5. message'[t] \in Messages
  BY DEF Inv, TypeInv, TypeOK
<1>6. StatementInv'
  BY <1>1, <1>3, <1>4, <1>5 DEF Inv, StatementInv, ToFiles, InLoop
<1>7. MutexInv'
  BY <1>1, <1>3, <1>4 DEF Inv, TypeInv, TypeOK, MutexInv, InLoop
<1>8. LoggerInv'
  BY <1>1, <1>3, <1>4 DEF Inv, LoggerInv
<1>9. FileInv' /\ LoggersMadeOnce' /\ PeriodRespected'
  BY <1>1, FileFrame DEF Inv, LoggersMadeOnce, PeriodRespected
<1>10. OneOrder'
  BY <1>1, <1>3, <1>4, OrderFrame DEF Inv, TypeInv, TypeOK
<1> QED
  BY <1>2, <1>6, <1>7, <1>8, <1>9, <1>10 DEF Inv

LEMMA FatalThrowsInv ==
  ASSUME Inv, NEW t \in Threads, FatalThrows(t)
  PROVE  Inv'
<1> USE DEF FatalThrows
<1>1. /\ UNCHANGED <<settings, now, mutex, log_destinations_, given, late, async_loggings_, made,
                     message, begun, second, index, order, sent>>
      /\ Running /\ process' \in {"running", "terminated"}
  BY DEF fileVars, loggerVars, Running
<1>2. thread[t] = "fatal" /\ mutex # t
  BY NotHolder DEF InLoop
<1>3. /\ thread' \in [Threads -> {"idle", "fatal", "flush", "write", "manage", "make", "append",
                                   "send", "warn", "end"}]
      /\ thread'[t] \in {"fatal", "flush"} /\ \A u \in Threads : u # t => thread'[u] = thread[u]
  BY Types
<1>4. TypeInv'
  BY <1>1, <1>3 DEF Inv, TypeInv, TypeOK
<1>5. StatementInv'
  BY <1>1, <1>2, <1>3 DEF Inv, StatementInv, ToFiles, InLoop
<1>6. MutexInv'
  BY <1>1, <1>2, <1>3, Types DEF Inv, MutexInv, InLoop
<1>7. LoggerInv'
  BY <1>1, <1>2, <1>3 DEF Inv, LoggerInv
<1>8. FileInv' /\ LoggersMadeOnce' /\ PeriodRespected'
  BY <1>1, FileFrame DEF Inv, LoggersMadeOnce, PeriodRespected
<1>9. OneOrder'
  BY <1>1, <1>2, <1>3, Types, OrderFrame DEF Inv
<1> QED
  BY <1>4, <1>5, <1>6, <1>7, <1>8, <1>9 DEF Inv

LEMMA WarnInv ==
  ASSUME Inv, NEW t \in Threads, Warn(t)
  PROVE  Inv'
<1> USE DEF Warn
<1>1. /\ UNCHANGED <<settings, now, mutex, log_destinations_, given, late, async_loggings_, made,
                     message, begun, second, process, order>>
      /\ Running' = Running
  BY DEF fileVars, loggerVars, Running
<1>2. thread[t] = "warn" /\ mutex # t /\ message[t] \in Messages
  BY NotHolder DEF InLoop, Inv, StatementInv
<1>3. /\ thread' \in [Threads -> {"idle", "fatal", "flush", "write", "manage", "make", "append",
                                   "send", "warn", "end"}]
      /\ thread'[t] = IF settings.g_async THEN "manage" ELSE "end"
      /\ \A u \in Threads : u # t => thread'[u] = thread[u]
  BY Types
<1>4. /\ index' \in [Threads -> 0..3] /\ (settings.g_async => index'[t] = 0)
      /\ \A u \in Threads : u # t => index'[u] = index[u]
  <2>1. CASE settings.g_async
    <3>1. index' = [index EXCEPT ![t] = 0]
      BY <2>1
    <3> QED
      BY <3>1, Types
  <2>2. CASE ~settings.g_async
    BY <2>2, Types
  <2> QED
    BY <2>1, <2>2
<1>5. Warning(message[t]) \in Items /\ Warning(message[t]) \notin Messages
  BY <1>2 DEF Items, Warning, Messages
<1>6. sent' \in Seq(Items) /\ SelectIn(sent', Messages) = SelectIn(sent, Messages)
  <2>1. CASE settings.g_async
    BY <2>1, Types
  <2>2. CASE ~settings.g_async
    <3>1. sent' = Append(sent, Warning(message[t]))
      BY <2>2
    <3>2. sent \in Seq(Items)
      BY Types
    <3> QED
      BY <1>5, <3>1, <3>2, AppendProperties, SelectInAppend
  <2> QED
    BY <2>1, <2>2
<1>7. TypeInv'
  BY <1>1, <1>3, <1>4, <1>6 DEF Inv, TypeInv, TypeOK
<1>8. StatementInv'
  <2>1. 0 \in Indices /\ 0 <= LogIndex(message[t])
    BY LogIndexIs DEF Indices
  <2> QED
    BY <1>1, <1>2, <1>3, <1>4, <2>1 DEF Inv, StatementInv, ToFiles, InLoop
<1>9. MutexInv'
  BY <1>1, <1>2, <1>3, Types DEF Inv, MutexInv, InLoop
<1>10. LoggerInv'
  BY <1>1, <1>2, <1>3, <1>4 DEF Inv, LoggerInv
<1>11. FileInv' /\ LoggersMadeOnce' /\ PeriodRespected'
  BY <1>1, FileFrame DEF Inv, LoggersMadeOnce, PeriodRespected
<1>12. OneOrder'
  <2>1. mutex # NoThread => /\ thread'[mutex] = thread[mutex] /\ index'[mutex] = index[mutex]
                            /\ message'[mutex] = message[mutex]
    BY <1>1, <1>2, <1>3, <1>4, Types
  <2>2. \A i \in Indices : PendingIn(i)' = PendingIn(i)
    BY <1>1, <2>1 DEF PendingIn
  <2>3. ToFiles' = ToFiles /\ ToStderr' = ToStderr
    BY <1>1 DEF ToFiles, ToStderr
  <2> QED
    BY <1>1, <1>6, <2>2, <2>3 DEF Inv, OneOrder
<1> QED
  BY <1>7, <1>8, <1>9, <1>10, <1>11, <1>12 DEF Inv

LEMMA EndInv ==
  ASSUME Inv, NEW t \in Threads, End(t)
  PROVE  Inv'
<1> USE DEF End
<1>1. /\ UNCHANGED <<settings, now, mutex, log_destinations_, given, late, async_loggings_, made,
                     begun, second, order, sent>>
      /\ Running /\ process' \in {"running", "terminated"}
  BY DEF fileVars, loggerVars, Running
<1>2. thread[t] = "end" /\ mutex # t
  BY NotHolder DEF InLoop
<1>3. /\ thread' \in [Threads -> {"idle", "fatal", "flush", "write", "manage", "make", "append",
                                   "send", "warn", "end"}]
      /\ message' \in [Threads -> Messages \cup {NoMessage}]
      /\ index' \in [Threads -> 0..3]
      /\ thread'[t] = "idle"
      /\ \A u \in Threads : u # t => /\ thread'[u] = thread[u] /\ message'[u] = message[u]
                                     /\ index'[u] = index[u]
  BY Types
<1>4. TypeInv'
  BY <1>1, <1>3 DEF Inv, TypeInv, TypeOK
<1>5. StatementInv'
  BY <1>1, <1>2, <1>3 DEF Inv, StatementInv, ToFiles, InLoop
<1>6. MutexInv'
  BY <1>1, <1>2, <1>3, Types DEF Inv, MutexInv, InLoop
<1>7. LoggerInv'
  BY <1>1, <1>2, <1>3 DEF Inv, LoggerInv
<1>8. FileInv' /\ LoggersMadeOnce' /\ PeriodRespected'
  BY <1>1, FileFrame DEF Inv, LoggersMadeOnce, PeriodRespected
<1>9. OneOrder'
  BY <1>1, <1>2, <1>3, Types, OrderFrame DEF Inv
<1> QED
  BY <1>4, <1>5, <1>6, <1>7, <1>8, <1>9 DEF Inv

LEMMA ManagerTestInv ==
  ASSUME Inv, NEW t \in Threads, ManagerTest(t)
  PROVE  Inv'
<1> USE DEF ManagerTest
<1>1. /\ UNCHANGED <<settings, now, mutex, log_destinations_, given, late, async_loggings_, made,
                     message, begun, second, index, process, order, sent>>
      /\ Running /\ Running' = Running
  BY DEF fileVars, loggerVars, Running
<1>2. /\ thread[t] = "manage" /\ message[t] \in Messages /\ settings.g_async
      /\ index[t] \in Indices /\ index[t] <= LogIndex(message[t]) /\ ~async_loggings_[index[t]]
  BY DEF InLoop, Inv, StatementInv
<1>3. /\ thread' \in [Threads -> {"idle", "fatal", "flush", "write", "manage", "make", "append",
                                   "send", "warn", "end"}]
      /\ thread'[t] = "make" /\ \A u \in Threads : u # t => thread'[u] = thread[u]
  BY Types
\* A thread that warns has all the loggers it needs.
<1>4. mutex = t
  BY <1>1, <1>2 DEF Inv, LoggerInv
<1>5. TypeInv'
  BY <1>1, <1>3 DEF Inv, TypeInv, TypeOK
<1>6. StatementInv'
  BY <1>1, <1>2, <1>3 DEF Inv, StatementInv, ToFiles, InLoop
<1>7. MutexInv'
  BY <1>1, <1>3, <1>4, Types DEF Inv, MutexInv, InLoop
<1>8. LoggerInv'
  BY <1>1, <1>2, <1>3, <1>4 DEF Inv, LoggerInv
<1>9. FileInv' /\ LoggersMadeOnce' /\ PeriodRespected'
  BY <1>1, FileFrame DEF Inv, LoggersMadeOnce, PeriodRespected
<1>10. OneOrder'
  <2>1. \A i \in Indices : PendingIn(i)' = PendingIn(i)
    BY <1>1, <1>2, <1>3, <1>4 DEF PendingIn
  <2>2. ToFiles' = ToFiles /\ ToStderr' = ToStderr
    BY <1>1 DEF ToFiles, ToStderr
  <2> QED
    BY <1>1, <2>1, <2>2 DEF Inv, OneOrder
<1> QED
  BY <1>5, <1>6, <1>7, <1>8, <1>9, <1>10 DEF Inv

LEMMA ManagerMakeInv ==
  ASSUME Inv, NEW t \in Threads, ManagerMake(t)
  PROVE  Inv'
<1> USE DEF ManagerMake
<1>1. /\ UNCHANGED <<settings, now, mutex, log_destinations_, given, late,
                     message, begun, second, index, process, order, sent>>
      /\ Running /\ Running' = Running
  BY DEF fileVars, Running
<1>2. /\ thread[t] = "make" /\ message[t] \in Messages /\ settings.g_async /\ mutex = t
      /\ index[t] \in Indices /\ index[t] <= LogIndex(message[t])
  BY DEF InLoop, Inv, StatementInv, MutexInv
<1>3. /\ thread' \in [Threads -> {"idle", "fatal", "flush", "write", "manage", "make", "append",
                                   "send", "warn", "end"}]
      /\ thread'[t] = "append" /\ \A u \in Threads : u # t => thread'[u] = thread[u]
  BY Types
\* The manager has no logger there yet, and none was made.
<1>4. ~async_loggings_[index[t]] /\ made[index[t]] = 0
  BY <1>1, <1>2 DEF Inv, LoggerInv
<1>5. /\ async_loggings_' \in [Indices -> BOOLEAN] /\ made' \in [Indices -> Nat]
      /\ async_loggings_'[index[t]] = TRUE /\ made'[index[t]] = 1
      /\ \A i \in Indices : i # index[t] =>
            async_loggings_'[i] = async_loggings_[i] /\ made'[i] = made[i]
  BY <1>2, <1>4, Types
<1>6. TypeInv'
  BY <1>1, <1>3, <1>5 DEF Inv, TypeInv, TypeOK
<1>7. StatementInv'
  BY <1>1, <1>2, <1>3 DEF Inv, StatementInv, ToFiles, InLoop
<1>8. MutexInv'
  BY <1>1, <1>2, <1>3, Types DEF Inv, MutexInv, InLoop
<1>9. LoggerInv'
  <2>1. \A i \in Indices : made'[i] = IF async_loggings_'[i] THEN 1 ELSE 0
    BY <1>1, <1>5 DEF Inv, LoggerInv
  <2>2. \A i \in Indices : async_loggings_[i] => async_loggings_'[i]
    BY <1>5
  <2>3. \A u \in Threads : u # t => thread[u] \notin {"make", "append"}
    BY <1>2 DEF Inv, MutexInv
  <2> QED
    BY <1>1, <1>2, <1>3, <1>5, <2>1, <2>2, <2>3 DEF Inv, LoggerInv
<1>10. LoggersMadeOnce'
  BY <1>5 DEF Inv, LoggersMadeOnce
<1>11. FileInv' /\ PeriodRespected'
  BY <1>1, FileFrame DEF Inv, PeriodRespected
<1>12. OneOrder'
  <2>1. \A i \in Indices : PendingIn(i)' = PendingIn(i)
    BY <1>1, <1>2, <1>3 DEF PendingIn
  <2>2. ToFiles' = ToFiles /\ ToStderr' = ToStderr
    BY <1>1 DEF ToFiles, ToStderr
  <2> QED
    BY <1>1, <2>1, <2>2 DEF Inv, OneOrder
<1> QED
  BY <1>6, <1>7, <1>8, <1>9, <1>10, <1>11, <1>12 DEF Inv

LEMMA TickInv ==
  ASSUME Inv, Tick
  PROVE  Inv'
<1> USE DEF Tick
<1>1. /\ UNCHANGED <<settings, mutex, log_destinations_, given, late, async_loggings_, made,
                     thread, message, begun, second, index, process, order, sent>>
      /\ Running /\ Running' = Running
  BY DEF fileVars, loggerVars, Running
<1>2. now' \in 1..MaxTime /\ now \in Nat /\ now' = now + 1
  <2>1. now \in 1..MaxTime
    BY DEF Inv, TypeInv, TypeOK
  <2>2. MaxTime \in Nat
    BY LoggingAssumption
  <2> QED
    BY <2>1, <2>2
<1>3. TypeInv'
  BY <1>1, <1>2 DEF Inv, TypeInv, TypeOK
<1>4. StatementInv' /\ MutexInv' /\ LoggerInv' /\ LoggersMadeOnce' /\ PeriodRespected'
  BY <1>1 DEF Inv, StatementInv, MutexInv, LoggerInv, LoggersMadeOnce, PeriodRespected, ToFiles
<1>5. FileInv'
  <2>1. ASSUME NEW f, RollInv(f, now)
        PROVE  RollInv(f, now')
    BY <1>2, <2>1, FileTypes DEF RollInv
  <2> QED
    BY <1>1, <2>1 DEF Inv, FileInv
<1>6. OneOrder'
  BY <1>1, OrderFrame DEF Inv
<1> QED
  BY <1>3, <1>4, <1>5, <1>6 DEF Inv

LEMMA RemoveFileInv ==
  ASSUME Inv, NEW i \in Indices, RemoveFile(i)
  PROVE  Inv'
<1> USE DEF RemoveFile
<1> DEFINE f == log_destinations_[i]
           g == [f EXCEPT !.linked = FALSE]
<1>1. /\ UNCHANGED <<settings, now, mutex, given, late, async_loggings_, made,
                     thread, message, begun, second, index, process, order, sent>>
      /\ Running /\ Running' = Running
  BY DEF loggerVars, Running
<1>2. f \in LogFileType /\ NoFile \notin LogFileType
  BY LoggingAssumption DEF Inv, TypeInv, TypeOK
<1>3. /\ g \in LogFileType /\ g.count_ = f.count_ /\ g.last_roll_ = f.last_roll_
      /\ g.start_of_period_ = f.start_of_period_
  BY <1>2 DEF LogFileType
<1>4. log_destinations_' = [log_destinations_ EXCEPT ![i] = g]
  OBVIOUS
<1> HIDE DEF g
<1>5. log_destinations_' \in [Indices -> LogFileType \cup {NoFile}]
  BY <1>3, <1>4 DEF Inv, TypeInv, TypeOK
<1>6. TypeInv'
  BY <1>1, <1>5 DEF Inv, TypeInv, TypeOK
<1>7. StatementInv' /\ MutexInv' /\ LoggerInv' /\ LoggersMadeOnce' /\ PeriodRespected'
  BY <1>1 DEF Inv, StatementInv, MutexInv, LoggerInv, LoggersMadeOnce, PeriodRespected, ToFiles
<1>8. FileInv'
  <2>1. /\ log_destinations_'[i] = g
        /\ \A j \in Indices : j # i => log_destinations_'[j] = log_destinations_[j]
    BY <1>4 DEF Inv, TypeInv, TypeOK
  <2>2. RollInv(g, now) /\ late[i] <= g.count_ /\ g # NoFile
    BY <1>1, <1>2, <1>3 DEF Inv, FileInv, RollInv
  <2> QED
    BY <1>1, <2>1, <2>2 DEF Inv, FileInv
<1>9. OneOrder'
  BY <1>1, OrderFrame DEF Inv
<1> QED
  BY <1>6, <1>7, <1>8, <1>9 DEF Inv

LEMMA ShutdownInv ==
  ASSUME Inv, ShutdownLogging
  PROVE  Inv'
<1> USE DEF ShutdownLogging
<1>1. /\ UNCHANGED <<settings, now, mutex, given, late, made,
                     thread, message, begun, second, index, order, sent>>
      /\ process' = "shut down" /\ ~Running'
  BY DEF Running
<1>2. TypeInv'
  BY <1>1 DEF Inv, TypeInv, TypeOK
<1>3. StatementInv' /\ MutexInv' /\ LoggersMadeOnce' /\ PeriodRespected'
  BY <1>1 DEF Inv, StatementInv, MutexInv, LoggersMadeOnce, PeriodRespected, ToFiles
<1>4. LoggerInv' /\ FileInv'
  BY <1>1 DEF LoggerInv, FileInv
<1>5. OneOrder'
  BY <1>1, OrderFrame DEF Inv
<1> QED
  BY <1>2, <1>3, <1>4, <1>5 DEF Inv

\* The holder of mutex gives its message to the next file or logger.
LEMMA HolderGives ==
  ASSUME Inv, NEW t \in Threads, mutex = t, thread[t] \in InLoop,
         given' = [given EXCEPT ![index[t]] = Append(given[index[t]], message[t])],
         index' = [index EXCEPT ![t] = index[t] + 1],
         thread'[t] = "send" <=> index[t] = LogIndex(message[t]),
         UNCHANGED <<settings, mutex, message, order, sent>>
  PROVE  given' \in [Indices -> Seq(Items)] /\ OneOrder'
<1>a. /\ message[t] \in Messages /\ index[t] \in Indices /\ index[t] <= LogIndex(message[t])
      /\ t # NoThread
  <2>1. thread[t] # "idle" /\ t # NoThread
    BY Types DEF InLoop
  <2> QED
    BY <2>1 DEF Inv, StatementInv
<1>b. PICK i \in Indices, m \in Messages : i = index[t] /\ m = message[t]
  BY <1>a
<1>1. /\ m \in Items /\ t # NoThread /\ i <= LogIndex(m) /\ LogIndex(m) \in Indices
      /\ i = index[t] /\ m = message[t]
  BY <1>a, <1>b, LogIndexIs DEF Items
<1>2. /\ given \in [Indices -> Seq(Items)] /\ index \in [Threads -> 0..3]
      /\ given[i] \in Seq(Items) /\ SelectIn(given[i], Messages) \in Seq(Items)
  BY <1>1, Types, SelectInSeq
<1>3. /\ given'[i] = Append(given[i], m)
      /\ given' \in [Indices -> Seq(Items)] /\ index'[t] = i + 1
      /\ \A j \in Indices : j # i => given'[j] = given[j]
  BY <1>1, <1>2, ConcatOne
<1>4. SelectIn(given'[i], Messages) = Append(SelectIn(given[i], Messages), m)
  BY <1>1, <1>2, <1>3, SelectInAppend
<1>5. PendingIn(i) = <<m>> /\ PendingIn(i)' = << >>
  <2>1. thread[t] # "send" /\ ~(i + 1 <= i)
    BY <1>1 DEF InLoop, Indices
  <2> QED
    BY <1>1, <1>3, <2>1 DEF PendingIn, Indices
<1>6. \A j \in Indices : j # i => PendingIn(j)' = PendingIn(j)
  <2> SUFFICES ASSUME NEW j \in Indices, j # i PROVE PendingIn(j)' = PendingIn(j)
    OBVIOUS
  <2>1. thread[t] # "send" /\ message'[t] = m
    BY <1>1 DEF InLoop
  <2>2. CASE i = LogIndex(m)
    <3>1. ~(i <= j /\ j <= LogIndex(m))
      BY <1>1, <2>2 DEF Indices
    <3> QED
      BY <1>1, <2>1, <2>2, <3>1 DEF PendingIn
  <2>3. CASE i # LogIndex(m)
    <3>1. i <= j <=> i + 1 <= j
      BY <1>1 DEF Indices
    <3> QED
      BY <1>1, <1>3, <2>1, <2>3, <3>1 DEF PendingIn
  <2> QED
    BY <2>2, <2>3
<1>7. ToFiles' = ToFiles /\ ToStderr' = ToStderr
  BY DEF ToFiles, ToStderr
<1>8. SelectIn(given'[i], Messages) \o PendingIn(i)' = SelectIn(given[i], Messages) \o PendingIn(i)
  <2>1. PICK s \in Seq(Items) : s = SelectIn(given[i], Messages)
    BY <1>1, <1>2
  <2>2. s \o <<m>> = Append(s, m) /\ Append(s, m) \o << >> = Append(s, m)
    <3>1. s \o <<m>> = Append(s, m) /\ Append(s, m) \in Seq(Items)
      BY <1>1, ConcatOne
    <3> QED
      BY <3>1, ConcatEmptySeq
  <2> QED
    BY <1>4, <1>5, <2>1, <2>2
<1>9. \A j \in Indices : SelectIn(given'[j], Messages) \o PendingIn(j)'
                           = SelectIn(given[j], Messages) \o PendingIn(j)
  BY <1>3, <1>6, <1>8
<1> QED
  BY <1>3, <1>7, <1>9 DEF Inv, OneOrder

LEMMA FlushInv ==
  ASSUME Inv, NEW t \in Threads, Flush(t)
  PROVE  Inv'
<1> USE DEF Flush
<1> DEFINE m == message[t]
<1>1. /\ UNCHANGED <<settings, now, log_destinations_, given, late, async_loggings_, made,
                     message, begun, second, process, sent>>
      /\ Running' = Running
  BY DEF fileVars, loggerVars, Running
<1>2. /\ thread[t] = "flush" /\ m \in Messages /\ m \in Items
      /\ mutex = NoThread /\ mutex' = t /\ t # NoThread
  BY Types DEF Inv, StatementInv, Items
<1>3. /\ thread' \in [Threads -> {"idle", "fatal", "flush", "write", "manage", "make", "append",
                                   "send", "warn", "end"}]
      /\ index' \in [Threads -> 0..3]
      /\ thread'[t] = NextInFlush /\ index'[t] = 0
      /\ \A u \in Threads : u # t => thread'[u] = thread[u] /\ index'[u] = index[u]
  BY Types DEF NextInFlush
<1>4. /\ NextInFlush = "manage" <=> settings.g_async
      /\ NextInFlush = "write" <=> ToFiles
      /\ NextInFlush \in {"manage", "write", "send"}
  BY DEF NextInFlush, ToFiles
<1>5. order' \in Seq(Messages)
  BY <1>2, Types, ConcatOne
<1>6. TypeInv'
  BY <1>1, <1>2, <1>3, <1>5 DEF Inv, TypeInv, TypeOK
<1>7. StatementInv'
  <2>1. 0 \in Indices /\ 0 <= LogIndex(m)
    BY LogIndexIs DEF Indices
  <2> QED
    BY <1>1, <1>2, <1>3, <1>4, <2>1 DEF Inv, StatementInv, ToFiles, InLoop
<1>8. MutexInv'
  BY <1>2, <1>3, <1>4, Types DEF Inv, MutexInv, InLoop
<1>9. LoggerInv'
  <2>1. \A i \in Indices : ~(i < 0)
    BY DEF Indices
  <2>2. settings.g_async => thread'[t] = "manage"
    BY <1>3, <1>4
  <2>3. \A u \in Threads : u # t => mutex # u /\ mutex' # u
    BY <1>2, Types
  <2>4. ASSUME Running, settings.g_async, NEW u \in Threads, NEW i \in Indices
        PROVE  /\ thread'[u] \in {"send", "warn"} \/ (thread'[u] = "manage" /\ mutex' # u) =>
                      (i <= LogIndex(message[u]) => async_loggings_[i])
               /\ thread'[u] \in {"manage", "make", "append"} /\ mutex' = u =>
                      (i < index'[u] => async_loggings_[i])
               /\ thread'[u] = "make" => ~async_loggings_[index'[u]]
               /\ thread'[u] = "append" => async_loggings_[index'[u]]
    <3>1. CASE u = t
      BY <1>2, <1>3, <2>1, <2>2, <2>4, <3>1
    <3>2. CASE u # t
      BY <1>3, <2>3, <2>4, <3>2 DEF Inv, LoggerInv
    <3> QED
      BY <3>1, <3>2
  <2>5. Running => \A i \in Indices : made[i] = IF async_loggings_[i] THEN 1 ELSE 0
    BY DEF Inv, LoggerInv
  <2> QED
    BY <1>1, <2>4, <2>5 DEF LoggerInv
<1>10. FileInv' /\ LoggersMadeOnce' /\ PeriodRespected'
  BY <1>1, FileFrame DEF Inv, LoggersMadeOnce, PeriodRespected
<1>11. OneOrder'
  <2> DEFINE Above(i) == {k \in Messages : LogIndex(k) >= i}
  <2>1. ToFiles' = ToFiles /\ ToStderr' = ToStderr /\ order' = Append(order, m)
    BY <1>1 DEF ToFiles, ToStderr
  <2>2. ASSUME NEW i \in Indices
        PROVE  SelectIn(given[i], Messages) \o PendingIn(i)' =
                   IF ToFiles \/ settings.g_async THEN SelectIn(order', Above(i)) ELSE << >>
    <3> DEFINE s == SelectIn(given[i], Messages)
    <3>1. PendingIn(i) = << >> /\ s \in Seq(Items)
      BY <1>2, Types, SelectInSeq DEF PendingIn
    <3>2. s = IF ToFiles \/ settings.g_async THEN SelectIn(order, Above(i)) ELSE << >>
      <4>1. s \o << >> = s
        BY <1>2, <3>1, ConcatOne
      <4> QED
        BY <3>1, <4>1 DEF Inv, OneOrder
    <3>3. PendingIn(i)' = IF (ToFiles \/ settings.g_async) /\ i <= LogIndex(m) THEN <<m>> ELSE << >>
      <4>1. 0 <= i
        BY DEF Indices
      <4>2. message'[t] = m /\ index'[t] = 0
        BY <1>1, <1>3
      <4>3. thread'[t] # "send" <=> ToFiles \/ settings.g_async
        BY <1>3, <1>4
      <4> QED
        BY <1>2, <4>1, <4>2, <4>3 DEF PendingIn
    <3>4. SelectIn(order', Above(i)) =
              IF i <= LogIndex(m) THEN Append(SelectIn(order, Above(i)), m)
              ELSE SelectIn(order, Above(i))
      <4>1. m \in Above(i) <=> i <= LogIndex(m)
        BY <1>2, LogIndexIs DEF Indices
      <4> HIDE DEF Above
      <4> QED
        BY <1>2, <2>1, <4>1, Types, SelectInAppend
    <3> HIDE DEF s, Above, m
    <3>5. s \o <<m>> = Append(s, m) /\ s \o << >> = s
      BY <1>2, <3>1, ConcatOne
    <3> QED
      BY <3>2, <3>3, <3>4, <3>5 DEF s
  <2>3. SelectIn(sent, Messages) \o (IF ToStderr THEN <<m>> ELSE << >>)
            = IF ToStderr THEN order' ELSE << >>
    <3> DEFINE s == SelectIn(sent, Messages)
    <3>1. s \in Seq(Items)
      BY Types, SelectInSeq
    <3>2. s \o <<m>> = Append(s, m) /\ s \o << >> = s
      BY <1>2, <3>1, ConcatOne
    <3>3. s = IF ToStderr THEN order ELSE << >>
      BY <1>2, <3>2 DEF Inv, OneOrder
    <3> HIDE DEF s, m
    <3> QED
      BY <2>1, <3>2, <3>3 DEF s
  <2>4. message'[mutex'] = m /\ mutex' # NoThread
    BY <1>1, <1>2
  <2> QED
    BY <1>1, <2>1, <2>2, <2>3, <2>4 DEF OneOrder
<1> QED
  BY <1>6, <1>7, <1>8, <1>9, <1>10, <1>11 DEF Inv

LEMMA SendInv ==
  ASSUME Inv, NEW t \in Threads, Send(t)
  PROVE  Inv'
<1> USE DEF Send
<1> DEFINE m == message[t]
<1>1. /\ UNCHANGED <<settings, now, log_destinations_, given, late, async_loggings_, made,
                     message, begun, second, index, process, order>>
      /\ Running' = Running
  BY DEF fileVars, loggerVars, Running
<1>2. /\ thread[t] = "send" /\ m \in Messages /\ m \in Items
      /\ mutex = t /\ mutex' = NoThread /\ t # NoThread
  BY Types DEF Inv, StatementInv, MutexInv, Items
<1>3. /\ thread' \in [Threads -> {"idle", "fatal", "flush", "write", "manage", "make", "append",
                                   "send", "warn", "end"}]
      /\ thread'[t] \in {"warn", "end"}
      /\ \A u \in Threads : u # t => thread'[u] = thread[u]
  BY Types
<1>4. sent \in Seq(Items) /\ sent' = IF ToStderr THEN Append(sent, m) ELSE sent
  BY Types
<1>5. sent' \in Seq(Items)
  BY <1>2, <1>4, ConcatOne
<1>6. TypeInv'
  BY <1>1, <1>2, <1>3, <1>5 DEF Inv, TypeInv, TypeOK
<1>7. StatementInv'
  BY <1>1, <1>2, <1>3 DEF Inv, StatementInv, ToFiles, InLoop
<1>8. MutexInv'
  BY <1>2, <1>3, Types DEF Inv, MutexInv, InLoop
<1>9. LoggerInv'
  <2>1. \A u \in Threads : u # t => mutex # u /\ mutex' # u
    BY <1>2, Types
  <2> QED
    BY <1>1, <1>2, <1>3, <2>1 DEF Inv, LoggerInv
<1>10. FileInv' /\ LoggersMadeOnce' /\ PeriodRespected'
  BY <1>1, FileFrame DEF Inv, LoggersMadeOnce, PeriodRespected
<1>11. OneOrder'
  <2>1. ToFiles' = ToFiles /\ ToStderr' = ToStderr
    BY <1>1 DEF ToFiles, ToStderr
  <2>2. \A i \in Indices : PendingIn(i)' = << >> /\ PendingIn(i) = << >>
    BY <1>2 DEF PendingIn
  <2>3. SelectIn(sent', Messages) \o << >> = IF ToStderr THEN order ELSE << >>
    <3> DEFINE s == SelectIn(sent, Messages)
    <3>1. s \in Seq(Items)
      BY <1>4, SelectInSeq
    <3>2. s \o <<m>> = Append(s, m) /\ s \o << >> = s /\ Append(s, m) \o << >> = Append(s, m)
      BY <1>2, <3>1, ConcatOne
    <3>3. s \o (IF ToStderr THEN <<m>> ELSE << >>) = IF ToStderr THEN order ELSE << >>
      BY <1>2 DEF Inv, OneOrder
    <3>4. SelectIn(sent', Messages) = IF ToStderr THEN Append(s, m) ELSE s
      <4>1. SelectIn(Append(sent, m), Messages) = Append(s, m)
        BY <1>2, <1>4, SelectInAppend
      <4> QED
        BY <1>4, <4>1
    <3> HIDE DEF s, m
    <3> QED
      BY <3>2, <3>3, <3>4
  <2> QED
    BY <1>1, <1>2, <2>1, <2>2, <2>3 DEF Inv, OneOrder
<1> QED
  BY <1>6, <1>7, <1>8, <1>9, <1>10, <1>11 DEF Inv

LEMMA WriteDestinationInv ==
  ASSUME Inv, NEW t \in Threads, WriteDestination(t)
  PROVE  Inv'
<1> USE DEF WriteDestination
<1>1. /\ UNCHANGED <<settings, now, mutex, async_loggings_, made, message, begun, second, process,
                     order, sent>>
      /\ Running /\ Running' = Running
  BY DEF loggerVars, Running
<1>2. /\ thread[t] = "write" /\ message[t] \in Messages /\ mutex = t /\ ToFiles
      /\ index[t] \in Indices /\ index[t] <= LogIndex(message[t])
  BY DEF Inv, StatementInv, MutexInv, InLoop
<1>3. PICK i \in Indices, l \in Indices : i = index[t] /\ l = LogIndex(message[t]) /\ i <= l
  BY <1>2, LogIndexIs
<1>4. /\ thread' \in [Threads -> {"idle", "fatal", "flush", "write", "manage", "make", "append",
                                   "send", "warn", "end"}]
      /\ thread'[t] = IF i = l THEN "send" ELSE "write"
      /\ \A u \in Threads : u # t => thread'[u] = thread[u]
  <2>1. i < l <=> i # l
    BY <1>3 DEF Indices
  <2> QED
    BY <1>3, <2>1, Types
<1>5. /\ index' \in [Threads -> 0..3] /\ index'[t] = i + 1
      /\ \A u \in Threads : u # t => index'[u] = index[u]
  <2>1. i + 1 \in 0..3
    BY DEF Indices
  <2> QED
    BY <1>3, <2>1, Types
<1>6. given' \in [Indices -> Seq(Items)] /\ OneOrder'
  <2>1. thread'[t] = "send" <=> index[t] = LogIndex(message[t])
    BY <1>3, <1>4
  <2> QED
    BY <1>1, <1>2, <2>1, HolderGives DEF InLoop
<1>7. PICK opened \in BOOLEAN :
         log_destinations_' = [log_destinations_ EXCEPT ![i] =
             WriteUnlocked(log_destination(i, opened), MessageSize, second[t], now, opened)]
  BY <1>3
<1> DEFINE f == log_destination(i, opened)
           w == WriteUnlocked(f, MessageSize, second[t], now, opened)
<1>8. RollInv(f, now) /\ late[i] <= f.count_ /\ f.count_ \in Nat /\ late[i] \in Nat
  <2>1. late[i] \in Nat
    BY DEF Inv, TypeInv, TypeOK
  <2>2. CASE log_destinations_[i] = NoFile
    <3>1. f = NewLogFile(now, opened) /\ late[i] = 0
      BY <1>1, <2>2 DEF log_destination, Inv, FileInv
    <3>2. RollInv(NewLogFile(now, opened), now) /\ NewLogFile(now, opened).count_ = 0
      BY NewLogFileIs, Types
    <3> QED
      BY <2>1, <3>1, <3>2
  <2>3. CASE log_destinations_[i] # NoFile
    <3>1. f = log_destinations_[i]
      BY <2>3 DEF log_destination
    <3>2. RollInv(f, now) /\ late[i] <= f.count_
      BY <1>1, <2>3, <3>1 DEF Inv, FileInv
    <3> QED
      BY <2>1, <3>2, FileTypes DEF RollInv
  <2> QED
    BY <2>2, <2>3
<1>9. /\ RollInv(w, now) /\ w \in LogFileType /\ w # NoFile
      /\ w.start_of_period_ = StartOfPeriod(now) \/ w.count_ = f.count_ + 1
      /\ w.count_ \in Nat /\ w.count_ < CheckEveryN
  <2>1. MessageSize \in Nat /\ now \in Nat /\ NoFile \notin LogFileType /\ CheckEveryN \in Nat
    BY LoggingAssumption, LogFileAssumption, Types
  <2> HIDE DEF f
  <2>2. /\ RollInv(w, now)
        /\ w.start_of_period_ = StartOfPeriod(now) \/ w.count_ = f.count_ + 1
    BY <1>8, <2>1, WriteUnlockedIs
  <2> HIDE DEF w
  <2>3. w \in LogFileType
    BY <2>2 DEF RollInv
  <2>4. w.count_ \in Nat /\ w.count_ <= CheckEveryN - 1
    BY <2>3, FileTypes
  <2> QED
    BY <2>1, <2>2, <2>3, <2>4
<1> HIDE DEF f, w
<1>10. /\ log_destinations_' \in [Indices -> LogFileType \cup {NoFile}]
       /\ log_destinations_'[i] = w
       /\ \A j \in Indices : j # i => log_destinations_'[j] = log_destinations_[j]
  BY <1>7, <1>9 DEF Inv, TypeInv, TypeOK, f, w
<1>11. /\ late' \in [Indices -> Nat]
       /\ late'[i] = IF w.start_of_period_ = StartOfPeriod(now) THEN 0 ELSE late[i] + 1
       /\ \A j \in Indices : j # i => late'[j] = late[j]
  <2>1. late' = [late EXCEPT ![i] = IF w.start_of_period_ = StartOfPeriod(now) THEN 0
                                    ELSE late[i] + 1]
    BY <1>3, <1>10
  <2>2. late \in [Indices -> Nat]
    BY DEF Inv, TypeInv, TypeOK
  <2>3. late[i] + 1 \in Nat /\ 0 \in Nat
    BY <1>8
  <2> QED
    BY <2>1, <2>2, <2>3
<1>12. late'[i] <= w.count_
  BY <1>8, <1>9, <1>11
<1>13. TypeInv'
  BY <1>1, <1>4, <1>5, <1>6, <1>10, <1>11 DEF Inv, TypeInv, TypeOK
<1>14. StatementInv'
  <2>1. i # l => i + 1 \in Indices /\ i + 1 <= l
    BY <1>3 DEF Indices
  <2> QED
    BY <1>1, <1>2, <1>3, <1>4, <1>5, <2>1 DEF Inv, StatementInv, ToFiles, InLoop
<1>15. MutexInv'
  BY <1>1, <1>2, <1>4, Types DEF Inv, MutexInv, InLoop
<1>16. LoggerInv'
  BY <1>1, <1>2 DEF Inv, LoggerInv, ToFiles
<1>17. LoggersMadeOnce'
  BY <1>1 DEF Inv, LoggersMadeOnce
<1>18. FileInv'
  BY <1>1, <1>9, <1>10, <1>11, <1>12 DEF Inv, FileInv
<1>19. PeriodRespected'
  <2>1. late'[i] < CheckEveryN
    <3>1. late'[i] \in Nat /\ CheckEveryN \in Nat
      BY <1>11, LogFileAssumption
    <3> QED
      BY <1>9, <1>12, <3>1
  <2> QED
    BY <1>11, <2>1 DEF Inv, PeriodRespected
<1> QED
  BY <1>6, <1>13, <1>14, <1>15, <1>16, <1>17, <1>18, <1>19 DEF Inv

LEMMA ManagerAppendInv ==
  ASSUME Inv, NEW t \in Threads, ManagerAppend(t)
  PROVE  Inv'
<1> USE DEF ManagerAppend
<1>1. /\ UNCHANGED <<settings, now, mutex, log_destinations_, late, async_loggings_, made, message,
                     begun, second, process, order, sent>>
      /\ Running /\ Running' = Running
  BY DEF loggerVars, Running
<1>2. /\ thread[t] \in {"append", "manage"} /\ message[t] \in Messages /\ settings.g_async
      /\ index[t] \in Indices /\ index[t] <= LogIndex(message[t])
      /\ thread[t] = "append" => mutex = t
  BY DEF Inv, StatementInv, MutexInv, InLoop
<1>3. PICK i \in Indices, l \in Indices : i = index[t] /\ l = LogIndex(message[t]) /\ i <= l
  BY <1>2, LogIndexIs
<1>4. async_loggings_[i]
  BY <1>1, <1>2, <1>3 DEF Inv, LoggerInv
<1>5. /\ thread' \in [Threads -> {"idle", "fatal", "flush", "write", "manage", "make", "append",
                                   "send", "warn", "end"}]
      /\ thread'[t] = IF i # l THEN "manage" ELSE IF mutex # t THEN "end" ELSE "send"
      /\ \A u \in Threads : u # t => thread'[u] = thread[u]
  BY <1>3, Types DEF WarningIndex
<1>6. /\ index' \in [Threads -> 0..3] /\ index'[t] = i + 1
      /\ \A u \in Threads : u # t => index'[u] = index[u]
  <2>1. i + 1 \in 0..3
    BY DEF Indices
  <2> QED
    BY <1>3, <2>1, Types
<1>7. given' \in [Indices -> Seq(Items)] /\ OneOrder'
  <2>1. CASE mutex = t
    <3>1. given' = [given EXCEPT ![index[t]] = Append(given[index[t]], message[t])]
      BY <2>1
    <3>2. thread'[t] = "send" <=> index[t] = LogIndex(message[t])
      BY <1>3, <1>5, <2>1
    <3>3. thread[t] \in InLoop /\ index' = [index EXCEPT ![t] = index[t] + 1]
      BY <1>2 DEF InLoop
    <3> QED
      BY <1>1, <2>1, <3>1, <3>2, <3>3, HolderGives
  <2>2. CASE mutex # t
    <3>1. PICK x \in Items \ Messages : x = Warning(message[t])
      BY <1>2 DEF Items, Warning, Messages
    <3>2. given' = [given EXCEPT ![i] = Append(given[i], x)]
      BY <1>3, <2>2, <3>1
    <3>3. given \in [Indices -> Seq(Items)] /\ Append(given[i], x) \in Seq(Items)
      BY Types, ConcatOne
    <3>4. given' \in [Indices -> Seq(Items)]
      BY <3>2, <3>3
    <3>5. \A j \in Indices : SelectIn(given'[j], Messages) = SelectIn(given[j], Messages)
      <4>1. SelectIn(Append(given[i], x), Messages) = SelectIn(given[i], Messages)
        BY <3>3, SelectInAppend
      <4> QED
        BY <3>2, <3>3, <4>1
    <3>6. mutex # NoThread => /\ thread'[mutex] = thread[mutex] /\ index'[mutex] = index[mutex]
                              /\ message'[mutex] = message[mutex]
      BY <1>1, <1>5, <1>6, <2>2, Types
    <3>7. \A j \in Indices : PendingIn(j)' = PendingIn(j)
      BY <1>1, <3>6 DEF PendingIn
    <3>8. ToFiles' = ToFiles /\ ToStderr' = ToStderr
      BY <1>1 DEF ToFiles, ToStderr
    <3>9. OneOrder'
      BY <1>1, <3>5, <3>7, <3>8 DEF Inv, OneOrder
    <3> QED
      BY <3>4, <3>9
  <2> QED
    BY <2>1, <2>2
<1>8. TypeInv'
  BY <1>1, <1>5, <1>6, <1>7 DEF Inv, TypeInv, TypeOK
<1>9. StatementInv'
  <2>1. i # l => i + 1 \in Indices /\ i + 1 <= l
    BY <1>3 DEF Indices
  <2> QED
    BY <1>1, <1>2, <1>3, <1>5, <1>6, <2>1 DEF Inv, StatementInv, ToFiles, InLoop
<1>10. MutexInv'
  BY <1>1, <1>2, <1>5, Types DEF Inv, MutexInv, InLoop
<1>11. LoggerInv'
  <2>1. \A j \in Indices : (j < i + 1 => j < i \/ j = i) /\ (i = l /\ j <= l => j < i \/ j = i)
    BY DEF Indices
  <2>2. ASSUME NEW u \in Threads, NEW j \in Indices
        PROVE  /\ thread'[u] \in {"send", "warn"} \/ (thread'[u] = "manage" /\ mutex # u) =>
                      (j <= LogIndex(message[u]) => async_loggings_[j])
               /\ thread'[u] \in {"manage", "make", "append"} /\ mutex = u =>
                      (j < index'[u] => async_loggings_[j])
               /\ thread'[u] = "make" => ~async_loggings_[index'[u]]
               /\ thread'[u] = "append" => async_loggings_[index'[u]]
    <3>1. CASE u = t /\ mutex = t
      <4>1. j < i => async_loggings_[j]
        BY <1>1, <1>2, <1>3, <3>1 DEF Inv, LoggerInv
      <4> QED
        BY <1>3, <1>4, <1>5, <1>6, <2>1, <3>1, <4>1
    <3>2. CASE u = t /\ mutex # t
      <4>1. j <= l => async_loggings_[j]
        BY <1>1, <1>2, <1>3, <3>2 DEF Inv, LoggerInv
      <4> QED
        BY <1>3, <1>5, <1>6, <3>2, <4>1
    <3>3. CASE u # t
      BY <1>1, <1>2, <1>5, <1>6, <3>3 DEF Inv, LoggerInv
    <3> QED
      BY <3>1, <3>2, <3>3
  <2>3. \A j \in Indices : made[j] = IF async_loggings_[j] THEN 1 ELSE 0
    BY <1>1 DEF Inv, LoggerInv
  <2> QED
    BY <1>1, <2>2, <2>3 DEF LoggerInv
<1>12. FileInv' /\ LoggersMadeOnce' /\ PeriodRespected'
  BY <1>1, FileFrame DEF Inv, LoggersMadeOnce, PeriodRespected
<1> QED
  BY <1>7, <1>8, <1>9, <1>10, <1>11, <1>12 DEF Inv

LEMMA StutterInv ==
  ASSUME Inv, UNCHANGED vars
  PROVE  Inv'
<1>1. UNCHANGED <<settings, now, mutex, log_destinations_, given, late, async_loggings_, made, thread,
                  message, begun, second, index, process, order, sent>>
  BY DEF vars, fileVars, loggerVars
<1>2. TypeInv' /\ StatementInv' /\ MutexInv' /\ LoggerInv' /\ FileInv'
  BY <1>1 DEF Inv, TypeInv, TypeOK, StatementInv, MutexInv, LoggerInv, FileInv, ToFiles, Running
<1>3. LoggersMadeOnce' /\ PeriodRespected' /\ OneOrder'
  BY <1>1, OrderFrame DEF Inv, LoggersMadeOnce, PeriodRespected
<1> QED
  BY <1>2, <1>3 DEF Inv

LEMMA NextInv == Inv /\ [Next]_vars => Inv'
<1> SUFFICES ASSUME Inv, [Next]_vars PROVE Inv'
  OBVIOUS
<1>1. ASSUME NEW t \in Threads, NEW m \in Messages, Construct(t, m) PROVE Inv'
  BY <1>1, ConstructInv
<1>2. ASSUME NEW t \in Threads, FatalThrows(t) \/ Flush(t) \/ WriteDestination(t) \/ Send(t)
      PROVE  Inv'
  BY <1>2, FatalThrowsInv, FlushInv, WriteDestinationInv, SendInv
<1>3. ASSUME NEW t \in Threads, ManagerAppend(t) \/ ManagerTest(t) \/ ManagerMake(t) PROVE Inv'
  BY <1>3, ManagerAppendInv, ManagerTestInv, ManagerMakeInv
<1>4. ASSUME NEW t \in Threads, Warn(t) \/ End(t) PROVE Inv'
  BY <1>4, WarnInv, EndInv
<1>5. ASSUME NEW i \in Indices, RemoveFile(i) PROVE Inv'
  BY <1>5, RemoveFileInv
<1>6. CASE ShutdownLogging \/ Tick
  BY <1>6, ShutdownInv, TickInv
<1>7. CASE Ended \/ UNCHANGED vars
  BY <1>7, StutterInv DEF Ended
<1> QED
  BY <1>1, <1>2, <1>3, <1>4, <1>5, <1>6, <1>7 DEF Next

\* The inductive invariant holds in every state of a LOG statement, whatever
\* the threads, the settings and the environment do.
THEOREM Safety == Spec => []Inv
  BY InitInv, NextInv, PTL DEF Spec

------------------------------------------------------------------------------
(* What it gives.                                                           *)

\* The variables of LOG statements keep their types, the files theirs.
THEOREM TypeCorrect == Spec => []TypeOK
<1>1. Inv => TypeOK
  BY DEF Inv, TypeInv
<1> QED
  BY <1>1, Safety, PTL

\* However threads, shutdown, removals and the clock interleave with Flush, the
\* files, the loggers and stderr tell the one story of the order in which the
\* messages got mutex.
THEOREM StoryCorrect == Spec => []OneOrder
<1>1. Inv => OneOrder
  BY DEF Inv
<1> QED
  BY <1>1, Safety, PTL

\* AsyncLoggingManager::Append needs no lock of its own.
THEOREM LoggersCorrect == Spec => []LoggersMadeOnce
<1>1. Inv => LoggersMadeOnce
  BY DEF Inv
<1> QED
  BY <1>1, Safety, PTL

\* Files end with their period, but for fewer than check_every_n_ messages.
THEOREM PeriodCorrect == Spec => []PeriodRespected
<1>1. Inv => PeriodRespected
  BY DEF Inv
<1> QED
  BY <1>1, Safety, PTL

\* Only WriteDestination, of all steps, gives a file something, and no write
\* leaves a file above its limit that was not begun in this second.
LEMMA WritesBounded ==
  ASSUME Inv, NEW t \in Threads, WriteDestination(t), NEW i \in Indices,
         given'[i] # given[i], log_destinations_'[i].written_bytes > RollSize
  PROVE  log_destinations_'[i].last_roll_ = now
<1> USE DEF WriteDestination
<1>1. index[t] = i /\ Running
  BY Types
<1>2. PICK opened \in BOOLEAN :
         log_destinations_' = [log_destinations_ EXCEPT ![i] =
             WriteUnlocked(log_destination(i, opened), MessageSize, second[t], now, opened)]
  BY <1>1
<1> DEFINE f == log_destination(i, opened)
           w == WriteUnlocked(f, MessageSize, second[t], now, opened)
<1>3. log_destinations_'[i] = w
  BY <1>2 DEF Inv, TypeInv, TypeOK
<1>4. RollInv(f, now) /\ MessageSize \in Nat /\ now \in Nat
  <2>1. now \in Nat /\ now > 0 /\ MessageSize \in Nat
    BY Types, LoggingAssumption
  <2>2. CASE log_destinations_[i] = NoFile
    BY <2>1, <2>2, NewLogFileIs DEF log_destination
  <2>3. CASE log_destinations_[i] # NoFile
    BY <1>1, <2>1, <2>3 DEF log_destination, Inv, FileInv
  <2> QED
    BY <2>2, <2>3, <2>1
<1> HIDE DEF f
<1>5. w.written_bytes > RollSize => w.last_roll_ = now
  BY <1>4, WriteUnlockedIs
<1> QED
  BY <1>3, <1>5

THEOREM SizeCorrect == Spec => SizeBounded
<1> DEFINE Bounded == \A i \in Indices :
                         ToFiles /\ given'[i] # given[i] /\ log_destinations_'[i].written_bytes > RollSize
                             => log_destinations_'[i].last_roll_ = now
<1>1. Inv /\ [Next]_vars => [Bounded]_vars
  <2> SUFFICES ASSUME Inv, Next, NEW i \in Indices,
                      ToFiles, given'[i] # given[i], log_destinations_'[i].written_bytes > RollSize
               PROVE  log_destinations_'[i].last_roll_ = now
    OBVIOUS
  <2>1. ~settings.g_async
    BY DEF ToFiles
  <2>2. ASSUME NEW t \in Threads, ManagerAppend(t) PROVE FALSE
    BY <2>1, <2>2 DEF ManagerAppend, Inv, StatementInv
  <2>3. PICK t \in Threads : WriteDestination(t)
    BY <2>2 DEF Next, Construct, FatalThrows, Flush, Send, ManagerTest, ManagerMake, Warn, End,
                ShutdownLogging, Tick, RemoveFile, Ended, vars, fileVars
  <2> QED
    BY <2>3, WritesBounded
<1> QED
  BY <1>1, Safety, PTL DEF Spec, SizeBounded
==============================================================================
