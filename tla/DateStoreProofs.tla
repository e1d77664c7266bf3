---------------------------- MODULE DateStoreProofs ----------------------------
(***************************************************************************)
(* The dates of both HumanDate functions and the objects of ThreadLocal,   *)
(* for any days up to 2038, any times of day, any threads and any sequence *)
(* of calls.                                                               *)
(***************************************************************************)
EXTENDS DateStore, TLAPS, FiniteSetTheorems

USE DEF DAY, YEARFIRST, YEARSTART

------------------------------------------------------------------------------
(* The arithmetic of HumanDate.                                             *)

\* The seconds a call can be made at.
Clock == {s \in Nat : YEARSTART * DAY <= s /\ s < 24855 * DAY}

\* In the years of the clock every fourth one is a leap year.
LEMMA NewYearIs ==
  ASSUME NEW y \in 2001..2039
  PROVE  NewYear(y) = 365 * (y - 1970) + (y - 1) \div 4 - 492
  BY DEF NewYear, LeapYearsBefore

LEMMA YearsGrow ==
  ASSUME NEW y \in 2001..2039, NEW z \in 2001..2039, y < z
  PROVE  NewYear(y) < NewYear(z)
  BY NewYearIs

\* The year of a day is the one it lies in.
LEMMA YearOfUnique ==
  ASSUME NEW d \in Nat, NEW y \in 2001..2038, NewYear(y) <= d, d < NewYear(y + 1)
  PROVE  YearOf(d) = y
<1>1. \A z \in 2001..2039 : NewYear(z) \in Int
  BY NewYearIs
<1>2. \A z \in 2001..2038 : NewYear(z) <= d /\ d < NewYear(z + 1) => z = y
  <2> SUFFICES ASSUME NEW z \in 2001..2038, NewYear(z) <= d, d < NewYear(z + 1), z # y
               PROVE  FALSE
    OBVIOUS
  <2>1. CASE z < y
    <3>1. z + 1 = y \/ z + 1 < y
      BY <2>1
    <3>2. NewYear(z + 1) <= NewYear(y)
      BY <1>1, <3>1, YearsGrow
    <3> QED
      BY <1>1, <3>2
  <2>2. CASE y < z
    <3>1. y + 1 = z \/ y + 1 < z
      BY <2>2
    <3>2. NewYear(y + 1) <= NewYear(z)
      BY <1>1, <3>1, YearsGrow
    <3> QED
      BY <1>1, <3>2
  <2> QED
    BY <2>1, <2>2
<1>3. YearOf(d) = CHOOSE z \in 2001..2038 : NewYear(z) <= d /\ d < NewYear(z + 1)
  BY DEF YearOf
<1> QED
  BY <1>2, <1>3, SMT

LEMMA YearOfIs ==
  \A d \in Nat, y \in 2001..2038 :
      NewYear(y) <= d /\ d < NewYear(y + 1) => YearOf(d) = y
  BY YearOfUnique

\* The centuries do not matter, and four years are a cycle.
LEMMA YearAndDayIs ==
  ASSUME NEW s \in Clock
  PROVE  LET ad == s \div DAY - YEARSTART
         IN /\ YearAndDay(s).year = (ad \div 1461) * 4 + (ad % 1461) \div 365 + 2001
            /\ YearAndDay(s).dd = (ad % 1461) % 365
            /\ YearAndDay(s).dd \in Int /\ 0 <= YearAndDay(s).dd /\ YearAndDay(s).dd <= 364
<1> DEFINE ad == s \div DAY - YEARSTART
<1>1. ad \in Int /\ 0 <= ad /\ ad <= 13531
  BY DEF Clock
<1>2. YearAndDay(s) =
          [year |-> (ad \div 164097) * 400 + ((ad % 164097) \div 36524) * 100
                    + (((ad % 164097) % 36524) \div 1461) * 4
                    + (((ad % 164097) % 36524) % 1461) \div 365 + 2001,
           dd |-> (((ad % 164097) % 36524) % 1461) % 365]
  BY DEF YearAndDay, YEAR400, YEAR100, YEAR004, YEAR001
<1> HIDE DEF ad
<1>3. ad \div 164097 = 0 /\ ad % 164097 = ad /\ ad \div 36524 = 0 /\ ad % 36524 = ad
  BY <1>1
<1>4. YearAndDay(s) =
          [year |-> 0 * 400 + 0 * 100 + (ad \div 1461) * 4 + (ad % 1461) \div 365 + 2001,
           dd |-> (ad % 1461) % 365]
  BY <1>2, <1>3
<1>5. \A i, j \in Int : 0 * 400 + 0 * 100 + i * 4 + j + 2001 = i * 4 + j + 2001
  OBVIOUS
<1>6. /\ ad \div 1461 \in Int /\ (ad % 1461) \div 365 \in Int
      /\ (ad % 1461) % 365 \in Int /\ 0 <= (ad % 1461) % 365 /\ (ad % 1461) % 365 <= 364
  BY <1>1
<1> QED
  BY <1>4, <1>5, <1>6 DEF ad

\* HumanDate has the right year, except that it gives the last day of a leap
\* year to the next one.
LEMMA YearIs ==
  ASSUME NEW s \in Clock
  PROVE  LET y == YearAndDay(s).year
             d == s \div DAY
         IN /\ y \in 2001..2039 /\ YearOf(d) \in 2001..2038 /\ d \in Nat
            /\ \/ /\ y = YearOf(d)
                  /\ d = NewYear(y) + YearAndDay(s).dd
               \/ /\ y = YearOf(d) + 1 /\ YearAndDay(s).dd = 0
                  /\ YearOf(d) % 4 = 0 /\ d + 1 = NewYear(y)
<1> DEFINE d == s \div DAY
           ad == d - YEARSTART
           q == ad \div 1461
           r == ad % 1461
           k == r \div 365
           x == r % 365
           y == 2001 + 4 * q + k
<1>1. ad \in Int /\ 0 <= ad /\ ad <= 13531 /\ d \in Nat /\ d = ad + 11323
  BY DEF Clock
<1>2. YearAndDay(s).year = y /\ YearAndDay(s).dd = x
  <2>1. q \in Int /\ k \in Int
    <3> HIDE DEF ad
    <3> QED
      BY <1>1
  <2>2. YearAndDay(s).year = q * 4 + k + 2001 /\ YearAndDay(s).dd = x
    BY YearAndDayIs
  <2> HIDE DEF q, k, r, x
  <2> QED
    BY <2>1, <2>2
<1> SUFFICES /\ y \in 2001..2039 /\ YearOf(d) \in 2001..2038
             /\ \/ y = YearOf(d) /\ d = NewYear(y) + x
                \/ /\ y = YearOf(d) + 1 /\ x = 0
                   /\ YearOf(d) % 4 = 0 /\ d + 1 = NewYear(y)
  <2> HIDE DEF y, x, d
  <2> QED
    BY <1>1, <1>2 DEF d
<1> HIDE DEF d, ad
<1>q. q \in 0..9 /\ r \in 0..1460 /\ ad = 1461 * q + r
  <2>1. q \in Int /\ q >= 0
    BY <1>1
  <2>3. q <= 9
    BY <1>1
  <2>2. r \in 0..1460 /\ ad = 1461 * q + r
    BY <1>1
  <2> HIDE DEF q, r
  <2> QED
    BY <2>1, <2>2, <2>3
<1> HIDE DEF q, r
<1>k. k \in 0..4 /\ r = 365 * k + x /\ x \in 0..364
  BY <1>q
<1> HIDE DEF k, x
<1>3. d = 11323 + 1461 * q + 365 * k + x
  BY <1>1, <1>q, <1>k
<1>4. q = 9 => k <= 1
  BY <1>1, <1>q, <1>k
<1>5. CASE k \in 0..3
  <2>1. y \in 2001..2038
    BY <1>1, <1>q, <1>k, <1>4, <1>5
  <2> HIDE DEF y
  <2>2. NewYear(y) = 11323 + 1461 * q + 365 * k
    <3>1. NewYear(y) = 365 * (y - 1970) + (y - 1) \div 4 - 492
      BY <2>1, NewYearIs
    <3>2. (y - 1) \div 4 = 500 + q
      BY <1>q, <1>5 DEF y
    <3> QED
      BY <1>q, <1>k, <3>1, <3>2 DEF y
  <2>3. NewYear(y + 1) >= 11323 + 1461 * q + 365 * k + 365
    <3>1. NewYear(y + 1) = 365 * (y + 1 - 1970) + y \div 4 - 492
      BY <2>1, NewYearIs
    <3>2. y \div 4 \in Int /\ y \div 4 >= 500 + q
      BY <1>q, <1>5 DEF y
    <3> QED
      BY <1>q, <1>k, <3>1, <3>2 DEF y
  <2>4. NewYear(y) <= d /\ d < NewYear(y + 1)
    <3>1. NewYear(y + 1) \in Int
      BY <2>1, NewYearIs
    <3> QED
      BY <1>1, <1>q, <1>k, <1>3, <2>2, <2>3, <3>1
  <2>5. YearOf(d) = y
    <3>1. d \in Nat
      BY <1>1
    <3> QED
      BY <2>1, <2>4, <3>1, YearOfIs
  <2> QED
    BY <1>3, <2>1, <2>2, <2>5
<1>6. CASE k = 4
  <2> DEFINE z == 2004 + 4 * q
  <2>1. x = 0 /\ y = z + 1 /\ d = 11323 + 1461 * q + 1460
    BY <1>1, <1>q, <1>k, <1>3, <1>6
  <2>2. z \in 2001..2038 /\ z + 1 \in 2001..2039 /\ z % 4 = 0
    BY <1>1, <1>q, <1>k, <1>4, <1>6
  <2>3. NewYear(z + 1) = d + 1
    <3>1. NewYear(z + 1) = 365 * (z + 1 - 1970) + z \div 4 - 492
      BY <2>2, NewYearIs
    <3>2. z \div 4 = 501 + q
      BY <1>1, <1>q, <1>k
    <3> QED
      BY <1>1, <1>q, <1>k, <2>1, <3>1, <3>2
  <2>4. NewYear(z) = d - 365
    <3>1. NewYear(z) = 365 * (z - 1970) + (z - 1) \div 4 - 492
      BY <2>2, NewYearIs
    <3>2. (z - 1) \div 4 = 500 + q
      BY <1>1, <1>q, <1>k
    <3> QED
      BY <1>1, <1>q, <1>k, <2>1, <3>1, <3>2
  <2> HIDE DEF z
  <2>5. YearOf(d) = z
    <3>2. d \in Nat
      BY <1>1
    <3>1. NewYear(z) <= d /\ d < NewYear(z + 1)
      BY <1>1, <1>q, <1>k, <2>3, <2>4
    <3> QED
      BY <2>2, <3>1, <3>2, YearOfIs
  <2> QED
    BY <2>1, <2>2, <2>3, <2>5
<1> QED
  BY <1>1, <1>q, <1>k, <1>5, <1>6

\* The time of day.
LEMMA TimeIs ==
  ASSUME NEW s \in Nat
  PROVE  /\ ComputeHour(s) \in Nat /\ ComputeMinute(s) \in Nat /\ ComputeSecond(s) \in Nat
         /\ ComputeHour(s) * 3600 + ComputeMinute(s) * 60 + ComputeSecond(s) = s % DAY
  BY DEF ComputeHour, ComputeMinute, ComputeSecond

------------------------------------------------------------------------------
(* Months and days.                                                         *)

\* The table of months, before and after a call in a leap year.
Tables == {Months, [Months EXCEPT ![1] = 29]}

\* The days before the i-th month of the table, when its February has x days.
Passed(x, i) == IF i = 1 THEN 0 ELSE IF i = 2 THEN x ELSE IF i = 3 THEN x + 31
                ELSE IF i = 4 THEN x + 61 ELSE IF i = 5 THEN x + 92
                ELSE IF i = 6 THEN x + 122 ELSE IF i = 7 THEN x + 153
                ELSE IF i = 8 THEN x + 184 ELSE IF i = 9 THEN x + 214
                ELSE IF i = 10 THEN x + 245 ELSE IF i = 11 THEN x + 275 ELSE x + 306

LEMMA TableIs ==
  ASSUME NEW table \in Tables
  PROVE  /\ table[1] \in {28, 29}
         /\ \A i \in 2..11 : table[i] = IF i \in {3, 5, 8, 10} THEN 30 ELSE 31
<1>1. CASE table = Months
  BY <1>1 DEF Months
<1>2. CASE table = [Months EXCEPT ![1] = 29]
  BY <1>2 DEF Months
<1> QED
  BY <1>1, <1>2 DEF Tables

LEMMA PassedStep ==
  ASSUME NEW table \in Tables, NEW i \in 2..12
  PROVE  Passed(table[1], i) = Passed(table[1], i - 1) + table[i - 1]
  BY TableIs DEF Passed

LEMMA PassedGrows ==
  ASSUME NEW x \in {28, 29}
  PROVE  /\ \A i \in 1..12 : Passed(x, i) \in Int
         /\ \A i, j \in 1..12 : i < j => Passed(x, i) + 28 <= Passed(x, j)
         /\ \A i \in 1..11 : Passed(x, i + 1) <= Passed(x, i) + 31
  BY DEF Passed

\* The recursive function of MonthAndDay has these values.
LEMMA PassedIs ==
  ASSUME NEW table \in Tables, NEW f,
         f = [i \in 1..12 |-> IF i = 1 THEN 0 ELSE f[i - 1] + table[i - 1]]
  PROVE  \A i \in 1..12 : f[i] = Passed(table[1], i)
<1>1. \A i \in 2..12 : f[i] = f[i - 1] + table[i - 1]
  OBVIOUS
<1>2. \A i \in 2..12 : f[i - 1] = Passed(table[1], i - 1) => f[i] = Passed(table[1], i)
  BY <1>1, PassedStep
<1>a. f[1] = Passed(table[1], 1)
  BY DEF Passed
<1>b. f[2] = Passed(table[1], 2)
  BY <1>2, <1>a
<1>c. f[3] = Passed(table[1], 3)
  BY <1>2, <1>b
<1>d. f[4] = Passed(table[1], 4)
  BY <1>2, <1>c
<1>e. f[5] = Passed(table[1], 5)
  BY <1>2, <1>d
<1>f. f[6] = Passed(table[1], 6)
  BY <1>2, <1>e
<1>g. f[7] = Passed(table[1], 7)
  BY <1>2, <1>f
<1>h. f[8] = Passed(table[1], 8)
  BY <1>2, <1>g
<1>i. f[9] = Passed(table[1], 9)
  BY <1>2, <1>h
<1>j. f[10] = Passed(table[1], 10)
  BY <1>2, <1>i
<1>k. f[11] = Passed(table[1], 11)
  BY <1>2, <1>j
<1>l. f[12] = Passed(table[1], 12)
  BY <1>2, <1>k
<1>3. \A i \in 1..12 : i \in {1, 2, 3, 4, 5, 6, 7, 8, 9, 10, 11, 12}
  OBVIOUS
<1> QED
  BY <1>3, <1>a, <1>b, <1>c, <1>d, <1>e, <1>f, <1>g, <1>h, <1>i, <1>j, <1>k, <1>l

LEMMA MonthAndDayIs ==
  ASSUME NEW table \in Tables, NEW dd \in Int, 0 <= dd, dd <= 364
  PROVE  /\ MonthAndDay(table, dd).month \in 1..12
         /\ MonthAndDay(table, dd).day \in 1..31
         /\ dd = Passed(table[1], MonthAndDay(table, dd).month) + MonthAndDay(table, dd).day - 1
         /\ MonthAndDay(table, dd).month < 12
               => dd < Passed(table[1], MonthAndDay(table, dd).month + 1)
<1> DEFINE F(f) == [i \in 1..12 |-> IF i = 1 THEN 0 ELSE f[i - 1] + table[i - 1]]
           passed == CHOOSE f : f = F(f)
           g == [i \in 1..12 |-> Passed(table[1], i)]
           month == CHOOSE i \in 1..12 : /\ passed[i] <= dd
                                         /\ i < 12 => dd < passed[i + 1]
<1>1. MonthAndDay(table, dd) = [month |-> month, day |-> dd - passed[month] + 1]
  BY DEF MonthAndDay
<1>2. g = F(g)
  <2>1. \A i \in 1..12 : g[i] = IF i = 1 THEN 0 ELSE g[i - 1] + table[i - 1]
    <3>1. g[1] = 0
      BY DEF Passed
    <3>2. \A i \in 2..12 : g[i] = g[i - 1] + table[i - 1]
      BY PassedStep
    <3> HIDE DEF g
    <3> QED
      BY <3>1, <3>2
  <2> QED
    BY <2>1
<1>3. passed = F(passed)
  <2> HIDE DEF F, g
  <2> QED
    BY <1>2, Zenon
<1> HIDE DEF passed, month, g
<1>4. \A i \in 1..12 : passed[i] = Passed(table[1], i)
  BY <1>3, PassedIs
<1>5. PICK x \in {28, 29} : table[1] = x
  BY TableIs
<1>6. \A i \in 1..12 : passed[i] = Passed(x, i) /\ passed[i] \in Int
  BY <1>4, <1>5, PassedGrows
<1>7. \E i \in 1..12 : passed[i] <= dd /\ (i < 12 => dd < passed[i + 1])
  <2>1. \E i \in 1..12 : Passed(x, i) <= dd /\ (i < 12 => dd < Passed(x, i + 1))
    BY DEF Passed
  <2>2. \A i \in 1..12 : i < 12 => i + 1 \in 1..12
    OBVIOUS
  <2> QED
    BY <1>6, <2>1, <2>2
<1>8. /\ month \in 1..12 /\ passed[month] <= dd
      /\ month < 12 => dd < passed[month + 1]
  BY <1>7 DEF month
<1>9. /\ dd = passed[month] + (dd - passed[month] + 1) - 1
      /\ dd - passed[month] + 1 \in 1..31
  <2>1. CASE month < 12
    <3>1. passed[month + 1] <= passed[month] + 31 /\ passed[month + 1] \in Int
      BY <1>6, <1>8, <2>1, PassedGrows
    <3>2. \A p, r \in Int : p <= dd /\ dd < r /\ r <= p + 31
                            => dd = p + (dd - p + 1) - 1 /\ dd - p + 1 \in 1..31
      OBVIOUS
    <3> QED
      BY <1>6, <1>8, <2>1, <3>1, <3>2
  <2>2. CASE month = 12
    <3>1. passed[month] >= 334
      BY <1>6, <2>2 DEF Passed
    <3> QED
      BY <1>6, <1>8, <3>1
  <2> QED
    BY <1>8, <2>1, <2>2
<1>10. MonthAndDay(table, dd).month = month /\ MonthAndDay(table, dd).day = dd - passed[month] + 1
  BY <1>1
<1>11. month < 12 => passed[month + 1] = Passed(table[1], month + 1)
  BY <1>4, <1>8
<1> QED
  BY <1>4, <1>8, <1>9, <1>10, <1>11

\* A later day of a year has a later date.
LEMMA DayGrows ==
  ASSUME NEW table \in Tables, NEW dd \in Int, 0 <= dd, NEW ee \in Int, ee <= 364, dd < ee
  PROVE  LET a == MonthAndDay(table, dd)
             b == MonthAndDay(table, ee)
         IN a.month < b.month \/ (a.month = b.month /\ a.day < b.day)
<1> DEFINE a == MonthAndDay(table, dd)
           b == MonthAndDay(table, ee)
<1>1. PICK x \in {28, 29} : table[1] = x
  BY TableIs
<1>2. /\ a.month \in 1..12 /\ a.day \in 1..31
      /\ dd = Passed(x, a.month) + a.day - 1
  BY <1>1, MonthAndDayIs
<1>3. /\ b.month \in 1..12 /\ b.day \in 1..31
      /\ ee = Passed(x, b.month) + b.day - 1
      /\ b.month < 12 => ee < Passed(x, b.month + 1)
  BY <1>1, MonthAndDayIs
<1> HIDE DEF a, b
<1>4. ~(b.month < a.month)
  <2> SUFFICES ASSUME b.month < a.month PROVE FALSE
    OBVIOUS
  <2>1. b.month + 1 \in 1..12 /\ (b.month + 1 = a.month \/ b.month + 1 < a.month)
    BY <1>2, <1>3
  <2>2. /\ Passed(x, b.month + 1) <= Passed(x, a.month)
        /\ Passed(x, b.month + 1) \in Int /\ Passed(x, a.month) \in Int
    BY <1>2, <2>1, PassedGrows
  <2> QED
    BY <1>2, <1>3, <2>1, <2>2
<1>5. a.month = b.month => a.day < b.day
  <2>1. Passed(x, a.month) \in Int
    BY <1>2, PassedGrows
  <2> QED
    BY <1>2, <1>3, <2>1
<1>6. a.month < b.month \/ (a.month = b.month /\ a.day < b.day)
  BY <1>2, <1>3, <1>4, <1>5
<1> QED
  BY <1>6 DEF a, b

\* What a call computes is a date of the clock's years, and never NoDate.
LEMMA DateInfoIs ==
  ASSUME NEW s \in Clock, NEW table \in Tables
  PROVE  LET dt == DateInfo(s, table)
         IN /\ dt \in Dates
            /\ dt.year = YearAndDay(s).year
            /\ dt.month = MonthAndDay(table, YearAndDay(s).dd).month /\ dt.month \in 1..12
            /\ dt.day = MonthAndDay(table, YearAndDay(s).dd).day /\ dt.day \in 1..31
            /\ dt.hour = ComputeHour(s) /\ dt.hour \in Nat
            /\ dt.minute = ComputeMinute(s) /\ dt.minute \in Nat
            /\ dt.second = ComputeSecond(s) /\ dt.second \in Nat
<1> DEFINE md == MonthAndDay(table, YearAndDay(s).dd)
<1>1. YearAndDay(s).year \in 2001..2039
  BY YearIs
<1>2. md.month \in 1..12 /\ md.day \in 1..31
  BY YearAndDayIs, MonthAndDayIs
<1>3. ComputeHour(s) \in Nat /\ ComputeMinute(s) \in Nat /\ ComputeSecond(s) \in Nat
  BY TimeIs DEF Clock
<1>4. DateInfo(s, table) = [year |-> YearAndDay(s).year, month |-> md.month, day |-> md.day,
                            hour |-> ComputeHour(s), minute |-> ComputeMinute(s),
                            second |-> ComputeSecond(s)]
  BY DEF DateInfo
<1> QED
  BY <1>1, <1>2, <1>3, <1>4 DEF Dates

------------------------------------------------------------------------------
(* The invariant.                                                           *)

\* The dates that a call computes.
GoodDates == [year : 2001..2039, month : 1..12, day : 1..31,
              hour : Nat, minute : Nat, second : Nat]

TypeInv ==
    /\ sec \in Clock /\ m \in Tables /\ header \in {"logging.h", "date.h"}
    /\ running \in SUBSET Threads /\ key_ \in {"live", "invalid", "deleted"}
    /\ value \in [Threads -> GoodDates \cup {NoObject}]
    /\ objects \in Nat /\ failures \in Nat
    /\ last \in [Threads -> Nat] /\ skipped \in [Threads -> SUBSET Parts]

\* The last call of HumanDate left the date of its time, computed with the
\* table as it is now.
DateInv ==
    \/ date = NoDate
    \/ /\ header = "logging.h" /\ date = DateInfo(sec, m)
       /\ m = MonthTable(m, YearAndDay(sec).year)

Users == {t \in running : value[t] # NoObject}

\* Only running threads have values, and nobody without a live key.
ValueInv == \A t \in Threads :
               value[t] # NoObject => t \in running /\ key_ = "live" /\ last[t] \in Clock

\* The objects of the ThreadLocal.
KeyInv ==
    /\ key_ # "deleted" => objects = Cardinality(Users) + failures
    /\ objects <= Cardinality(Threads) + failures

\* The objects of the singleton.  Each running thread without one may still
\* get one, so the bound on data_ leaves room for them.
TptrInv ==
    /\ tptr \subseteq running /\ data_ \in Nat \cup {-1} /\ started \in Nat
    /\ data_ # -1 => /\ Cardinality(tptr) <= data_
                     /\ data_ + Cardinality(running \ tptr) <= started + 1

Inv == TypeInv /\ DateInv /\ ValueInv /\ KeyInv /\ TptrInv /\ CachedDateRight

LEMMA TablesClosed ==
  ASSUME NEW table \in Tables, NEW y
  PROVE  MonthTable(table, y) \in Tables
<1>1. [[Months EXCEPT ![1] = 29] EXCEPT ![1] = 29] = [Months EXCEPT ![1] = 29]
  BY DEF Months
<1> QED
  BY <1>1 DEF Tables, MonthTable

LEMMA DateInfoGood ==
  ASSUME NEW s \in Clock, NEW table \in Tables
  PROVE  DateInfo(s, table) \in GoodDates
<1> DEFINE dt == DateInfo(s, table)
<1>1. /\ dt \in Dates /\ dt.month \in 1..12 /\ dt.day \in 1..31
      /\ dt.hour \in Nat /\ dt.minute \in Nat /\ dt.second \in Nat
  BY DateInfoIs
<1>2. dt.year \in 2001..2039
  BY DateInfoIs, YearIs
<1> HIDE DEF dt
<1>3. dt \in GoodDates
  BY <1>1, <1>2 DEF Dates, GoodDates
<1> QED
  BY <1>3 DEF dt

LEMMA DayNat == DAY \in Nat
  OBVIOUS

LEMMA SecondsOfDay ==
  ASSUME NEW S \in SUBSET (0..(DAY - 1)), NEW time \in S
  PROVE  time \in Nat /\ time < DAY
<1> HIDE DEF DAY
<1> QED
  BY DayNat

\* The times of both headers are times of the clock.
LEMMA TimesInClock ==
  ASSUME NEW d \in Nat, YEARSTART <= d, d < 24855, NEW time \in Nat, time < DAY
  PROVE  d * DAY + time \in Clock
  BY DEF Clock

LEMMA ClockDay ==
  ASSUME NEW s \in Clock
  PROVE  s \in Nat /\ s \div DAY \in Nat /\ YEARSTART <= s \div DAY
  BY DEF Clock

LEMMA DayBound ==
  ASSUME NEW d \in Nat, NEW e \in Nat, NEW time \in Nat, time < DAY, d * DAY + time < (e + 1) * DAY
  PROVE  d <= e
  OBVIOUS

HIDE DEF DAY, YEARFIRST, YEARSTART

LEMMA NoObjectIsNoDate == T = NoDate /\ NoObject \notin Dates
  BY StoreAssumption

LEMMA GoodDatesAre ==
  /\ GoodDates \subseteq Dates /\ NoObject \notin GoodDates
  /\ \A d \in GoodDates : d.year # 0 /\ d.hour # -1 /\ d.minute # -1
<1>1. GoodDates \subseteq Dates
  BY DEF GoodDates, Dates
<1>2. NoObject \notin GoodDates
  BY <1>1, NoObjectIsNoDate
<1>3. \A d \in GoodDates : d.year \in 2001..2039 /\ d.hour \in Nat /\ d.minute \in Nat
  BY DEF GoodDates
<1>4. \A d \in GoodDates : d.year # 0 /\ d.hour # -1 /\ d.minute # -1
  BY <1>3
<1> QED
  BY <1>1, <1>2, <1>4

------------------------------------------------------------------------------
\* Sets of threads can be counted.
LEMMA Counted ==
  ASSUME NEW S, S \subseteq Threads
  PROVE  /\ IsFiniteSet(S) /\ Cardinality(S) \in Nat /\ Cardinality(Threads) \in Nat
         /\ Cardinality(S) <= Cardinality(Threads)
  BY ThreadLocalAssumption, FS_Subset, FS_CardinalityType

LEMMA AddThread ==
  ASSUME NEW S, S \subseteq Threads, NEW t \in Threads
  PROVE  Cardinality(S \cup {t}) = IF t \in S THEN Cardinality(S) ELSE Cardinality(S) + 1
  BY Counted, FS_AddElement

LEMMA RemoveThread ==
  ASSUME NEW S, S \subseteq Threads, NEW t \in Threads
  PROVE  Cardinality(S \ {t}) = IF t \in S THEN Cardinality(S) - 1 ELSE Cardinality(S)
  BY Counted, FS_RemoveElement

LEMMA TptrStays ==
  ASSUME TptrInv, UNCHANGED <<running, tptr, data_, started>>
  PROVE  TptrInv'
  BY DEF TptrInv

LEMMA InitInv == StoreInit => Inv
<1> SUFFICES ASSUME StoreInit PROVE Inv
  OBVIOUS
<1> USE DEF StoreInit, DateInit, ThreadLocalInit
<1>1. sec \in Clock
  <2>1. PICK d \in FirstDay..LastDay, time \in Times : sec = d * DAY + time
    OBVIOUS
  <2>2. d \in Nat /\ YEARSTART <= d /\ d < 24855 /\ time \in Nat /\ time < DAY
    BY <2>1, SecondsOfDay, DateAssumption DEF YEARSTART, YEARFIRST
  <2> QED
    BY <2>1, <2>2, TimesInClock
<1>2. TypeInv
  BY <1>1, ThreadLocalAssumption DEF TypeInv, Tables
<1>3. DateInv
  BY DEF DateInv
<1>4. \A t \in Threads : value[t] = NoObject
  OBVIOUS
<1>5. ValueInv /\ CachedDateRight
  BY <1>4 DEF ValueInv, CachedDateRight
<1>6. Cardinality({}) = 0 /\ Cardinality(Threads) \in Nat
  BY FS_EmptySet, Counted
<1>7. KeyInv
  <2>1. Users = {}
    BY <1>2, <1>4 DEF TypeInv, Users
  <2>2. objects = 0 /\ failures = 0
    OBVIOUS
  <2> QED
    BY <1>6, <2>1, <2>2 DEF KeyInv
<1>8. TptrInv
  <2>1. Cardinality(running \ tptr) = 1
    <3>1. running \ tptr = {Main}
      OBVIOUS
    <3>2. Cardinality({Main}) = 1
      BY FS_Singleton
    <3> QED
      BY <3>1, <3>2
  <2>2. tptr = {} /\ data_ = 0 /\ started = 0
    OBVIOUS
  <2> QED
    BY <1>6, <2>1, <2>2 DEF TptrInv
<1> QED
  BY <1>2, <1>3, <1>5, <1>7, <1>8 DEF Inv

LEMMA MonthTableTwice ==
  ASSUME NEW table \in Tables, NEW y
  PROVE  MonthTable(MonthTable(table, y), y) = MonthTable(table, y)
  BY DEF MonthTable, Tables, Months

LEMMA HumanDateInv ==
  ASSUME Inv, header = "logging.h", Next, UNCHANGED <<localVars, header, last, skipped>>
  PROVE  Inv' /\ \E s \in Clock : HumanDate(s)
<1>1. PICK gap \in Gaps, time \in Times :
        /\ (sec \div DAY + gap) * DAY + time < (LastDay + 1) * DAY
        /\ HumanDate((sec \div DAY + gap) * DAY + time)
  BY DEF Next
<1> DEFINE d == sec \div DAY + gap
           s == d * DAY + time
<1>2. /\ d \in Nat /\ YEARSTART <= d /\ LastDay \in Nat /\ LastDay < 24855
      /\ time \in Nat /\ time < DAY
  BY ClockDay, SecondsOfDay, DateAssumption DEF Inv, TypeInv, YEARSTART, YEARFIRST
<1> HIDE DEF d
<1>3. d <= LastDay
  BY <1>1, <1>2, DayBound DEF d
<1>4. s \in Clock /\ HumanDate(s)
  BY <1>1, <1>2, <1>3, TimesInClock DEF d
<1> HIDE DEF s
<1>5. sec' = s /\ m' = MonthTable(m, YearAndDay(s).year) /\ date' = DateInfo(s, m')
  BY <1>4 DEF HumanDate
<1>6. UNCHANGED <<running, key_, value, objects, tptr, data_, started, failures,
                  header, last, skipped>>
  BY DEF localVars
<1>7. TypeInv'
  BY <1>4, <1>5, <1>6, TablesClosed DEF Inv, TypeInv
<1>8. DateInv'
  BY <1>5, <1>6, MonthTableTwice DEF Inv, TypeInv, DateInv
<1>9. ValueInv' /\ KeyInv' /\ CachedDateRight'
  BY <1>6 DEF Inv, ValueInv, KeyInv, Users, CachedDateRight
<1>10. TptrInv'
  BY <1>6, TptrStays DEF Inv
<1> QED
  BY <1>4, <1>7, <1>8, <1>9, <1>10 DEF Inv

LEMMA StartInv ==
  ASSUME Inv, NEW t \in Threads, Start(t), UNCHANGED <<vars, header, last, skipped>>
  PROVE  Inv'
<1> USE DEF Start, vars
<1>1. TypeInv' /\ DateInv'
  BY DEF Inv, TypeInv, DateInv
<1>2. ValueInv' /\ CachedDateRight'
  BY DEF Inv, ValueInv, CachedDateRight
<1>3. value[t] = NoObject
  BY DEF Inv, ValueInv
<1>4. Users' = Users
  BY <1>3 DEF Users
<1>5. KeyInv'
  BY <1>4 DEF Inv, KeyInv
<1>6. TptrInv'
  <2>1. running \ tptr \subseteq Threads /\ t \notin running \ tptr
    BY DEF Inv, TypeInv
  <2>2. running' \ tptr' = (running \ tptr) \cup {t}
    BY DEF Inv, TptrInv
  <2>3. Cardinality(running' \ tptr') = Cardinality(running \ tptr) + 1
    BY <2>1, <2>2, AddThread
  <2>4. Cardinality(running \ tptr) \in Nat
    BY <2>1, Counted
  <2> QED
    BY <2>3, <2>4 DEF Inv, TptrInv
<1> QED
  BY <1>1, <1>2, <1>5, <1>6 DEF Inv

LEMMA ExitInv ==
  ASSUME Inv, NEW t \in running, Exit(t), UNCHANGED <<vars, header, last, skipped>>
  PROVE  Inv'
<1> USE DEF Exit, vars
<1>1. t \in Threads /\ Users \subseteq Threads
  BY DEF Inv, TypeInv, Users
<1>2. DateInv'
  BY DEF Inv, DateInv
<1>3. ValueInv' /\ CachedDateRight'
  BY <1>1 DEF Inv, TypeInv, ValueInv, CachedDateRight
<1>4. Users' = Users \ {t}
  BY <1>1 DEF Inv, TypeInv, Users
<1>5. /\ Cardinality(Users) \in Nat /\ Cardinality(Users') \in Nat
      /\ Cardinality(Threads) \in Nat
  BY <1>1, <1>4, Counted
<1>6. objects \in Nat /\ failures \in Nat /\ failures' = failures /\ key_' = key_
  BY DEF Inv, TypeInv
<1>7. objects' \in Nat /\ KeyInv'
  <2>1. CASE value[t] = NoObject
    <3>1. objects' = objects /\ Users' = Users
      BY <1>4, <2>1 DEF Users
    <3> QED
      BY <1>6, <3>1 DEF Inv, KeyInv
  <2>2. CASE value[t] # NoObject
    <3>1. objects' = objects - 1 /\ t \in Users
      BY <2>2 DEF Users
    <3>2. Cardinality(Users') = Cardinality(Users) - 1
      BY <1>1, <1>4, <3>1, RemoveThread
    <3>3. objects = Cardinality(Users) + failures
      BY <1>1, <2>2 DEF Inv, ValueInv, KeyInv
    <3>4. objects' = Cardinality(Users') + failures
      BY <1>5, <1>6, <3>1, <3>2, <3>3
    <3>5. objects' \in Nat /\ objects' <= Cardinality(Threads) + failures
      BY <1>1, <1>4, <1>5, <1>6, <3>4, Counted
    <3> QED
      BY <1>6, <3>4, <3>5 DEF KeyInv
  <2> QED
    BY <2>1, <2>2
<1>8. TypeInv'
  BY <1>1, <1>7 DEF Inv, TypeInv
<1>9. TptrInv'
  <2>1. tptr \subseteq Threads /\ running \ tptr \subseteq Threads
    BY DEF Inv, TypeInv, TptrInv
  <2>2. tptr' = tptr \ {t} /\ running' \ tptr' = (running \ tptr) \ {t} /\ tptr' \subseteq running'
    BY DEF Inv, TptrInv
  <2>3. /\ Cardinality(tptr) \in Nat /\ Cardinality(running \ tptr) \in Nat
        /\ Cardinality(tptr') \in Nat /\ Cardinality(running' \ tptr') \in Nat
    BY <2>1, <2>2, Counted
  <2>4. Cardinality(tptr') <= Cardinality(tptr)
    BY <1>1, <2>1, <2>2, <2>3, RemoveThread
  <2>5. Cardinality(running' \ tptr') <= Cardinality(running \ tptr)
    BY <1>1, <2>1, <2>2, <2>3, RemoveThread
  <2> QED
    BY <2>2, <2>3, <2>4, <2>5 DEF Inv, TptrInv
<1> QED
  BY <1>2, <1>3, <1>7, <1>8, <1>9 DEF Inv

LEMMA DeleteKeyInv ==
  ASSUME Inv, DeleteKey, UNCHANGED <<vars, header, last, skipped>>
  PROVE  Inv'
<1> USE DEF DeleteKey, vars
<1>1. \A t \in Threads : value'[t] = NoObject
  OBVIOUS
<1>2. TypeInv' /\ DateInv'
  BY DEF Inv, TypeInv, DateInv
<1>3. ValueInv' /\ CachedDateRight'
  BY <1>1 DEF ValueInv, CachedDateRight
<1>4. KeyInv'
  BY DEF Inv, KeyInv
<1>5. TptrInv'
  BY TptrStays DEF Inv
<1> QED
  BY <1>2, <1>3, <1>4, <1>5 DEF Inv

LEMMA SingletonInv ==
  ASSUME Inv, DestroySingleton \/ \E t \in running : Get(t),
         UNCHANGED <<vars, header, last, skipped>>
  PROVE  Inv'
<1>1. UNCHANGED <<running, key_, value, objects, started, failures,
                  sec, m, date, header, last, skipped>>
  BY DEF DestroySingleton, Get, vars
<1>2. TptrInv'
  <2>1. CASE DestroySingleton
    BY <1>1, <2>1 DEF DestroySingleton, Inv, TptrInv
  <2>2. ASSUME NEW t \in running, Get(t), data_ = -1 \/ t \in tptr
        PROVE  TptrInv'
    <3>1. UNCHANGED <<tptr, data_>>
      BY <2>2 DEF Get
    <3> QED
      BY <1>1, <3>1, TptrStays DEF Inv
  <2>3. ASSUME NEW t \in running, Get(t), data_ # -1, t \notin tptr
        PROVE  TptrInv'
    <3>1. tptr' = tptr \cup {t} /\ data_' = data_ + 1
      BY <2>3 DEF Get
    <3>2. /\ t \in Threads /\ tptr \subseteq Threads /\ running \ tptr \subseteq Threads
          /\ t \in running \ tptr
      BY <2>3 DEF Inv, TypeInv, TptrInv
    <3>3. running' \ tptr' = (running \ tptr) \ {t} /\ tptr' \subseteq running'
      BY <1>1, <3>1 DEF Inv, TptrInv
    <3>4. Cardinality(tptr') = Cardinality(tptr) + 1
      <4>1. Cardinality(tptr \cup {t}) = Cardinality(tptr) + 1
        BY <2>3, <3>2, AddThread, Zenon
      <4> QED
        BY <3>1, <4>1, Zenon
    <3>5. Cardinality(running' \ tptr') = Cardinality(running \ tptr) - 1
      <4>1. Cardinality((running \ tptr) \ {t}) = Cardinality(running \ tptr) - 1
        BY <3>2, RemoveThread, Zenon
      <4> QED
        BY <3>3, <4>1, Zenon
    <3>6. Cardinality(tptr) \in Nat /\ Cardinality(running \ tptr) \in Nat
      BY <3>2, Counted
    <3> QED
      BY <1>1, <2>3, <3>1, <3>3, <3>4, <3>5, <3>6 DEF Inv, TptrInv
  <2> QED
    BY <2>1, <2>2, <2>3
<1>3. TypeInv' /\ DateInv'
  BY <1>1 DEF Inv, TypeInv, DateInv
<1>4. ValueInv' /\ KeyInv' /\ CachedDateRight'
  BY <1>1 DEF Inv, ValueInv, KeyInv, Users, CachedDateRight
<1> QED
  BY <1>2, <1>3, <1>4 DEF Inv

\* A full computation, as HumanDate of date.h makes it.
Exact(s) == DateInfo(s, MonthTable(Months, YearAndDay(s).year))

LEMMA ExactIs ==
  ASSUME NEW s \in Clock
  PROVE  /\ Exact(s) \in GoodDates
         /\ Exact(s).hour = ComputeHour(s) /\ Exact(s).minute = ComputeMinute(s)
<1>1. MonthTable(Months, YearAndDay(s).year) \in Tables
  BY TablesClosed DEF Tables
<1> QED
  BY <1>1, DateInfoGood, DateInfoIs DEF Exact

\* The parts of a date do not change within a day, an hour and a minute.
LEMMA PartsStay ==
  ASSUME NEW s \in Clock, NEW u \in Clock
  PROVE  /\ s \div DAY = u \div DAY => /\ Exact(s).year = Exact(u).year
                                        /\ Exact(s).month = Exact(u).month
                                        /\ Exact(s).day = Exact(u).day
         /\ s \div 3600 = u \div 3600 => Exact(s).hour = Exact(u).hour
         /\ s \div 60 = u \div 60 => Exact(s).minute = Exact(u).minute
<1>1. ASSUME s \div DAY = u \div DAY
      PROVE  /\ Exact(s).year = Exact(u).year
             /\ Exact(s).month = Exact(u).month
             /\ Exact(s).day = Exact(u).day
  <2>1. YearAndDay(s) = YearAndDay(u)
    BY <1>1 DEF YearAndDay
  <2> QED
    BY <2>1 DEF Exact, DateInfo
<1>2. ASSUME s \div 3600 = u \div 3600
      PROVE  Exact(s).hour = Exact(u).hour
  BY <1>2, ExactIs DEF ComputeHour
<1>3. ASSUME s \div 60 = u \div 60
      PROVE  Exact(s).minute = Exact(u).minute
  <2>1. \A n \in Nat : n \div 3600 = (n \div 60) \div 60
    OBVIOUS
  <2>2. s \in Nat /\ u \in Nat
    BY ClockDay
  <2>3. s \div 3600 = u \div 3600
    BY <1>3, <2>1, <2>2
  <2>4. ComputeMinute(s) = ComputeMinute(u)
    BY <1>3, <2>3 DEF ComputeMinute
  <2> QED
    BY <2>4, ExactIs
<1> QED
  BY <1>1, <1>2, <1>3

\* A first call computes everything, a later one what begins at its second.
LEMMA RefreshIs ==
  ASSUME NEW d \in GoodDates \cup {NoDate}, NEW s \in Clock
  PROVE  LET r == Refresh(d, s)
         IN /\ r \in GoodDates
            /\ IF d = NoDate \/ s % DAY = 0
               THEN r.year = Exact(s).year /\ r.month = Exact(s).month /\ r.day = Exact(s).day
               ELSE r.year = d.year /\ r.month = d.month /\ r.day = d.day
            /\ r.hour = IF d = NoDate \/ s % 3600 = 0 THEN Exact(s).hour ELSE d.hour
            /\ r.minute = IF d = NoDate \/ s % 60 = 0 THEN Exact(s).minute ELSE d.minute
            /\ r.second = Exact(s).second
<1>1. Exact(s) \in GoodDates
  BY ExactIs
<1>2. d.year = 0 <=> d = NoDate
  BY GoodDatesAre DEF NoDate
<1>3. d.hour = -1 <=> d = NoDate
  BY GoodDatesAre DEF NoDate
<1>4. d.minute = -1 <=> d = NoDate
  BY GoodDatesAre DEF NoDate
<1>5. Refresh(d, s) =
        [year |-> IF s % DAY = 0 \/ d = NoDate THEN Exact(s).year ELSE d.year,
         month |-> IF s % DAY = 0 \/ d = NoDate THEN Exact(s).month ELSE d.month,
         day |-> IF s % DAY = 0 \/ d = NoDate THEN Exact(s).day ELSE d.day,
         hour |-> IF s % 3600 = 0 \/ d = NoDate THEN Exact(s).hour ELSE d.hour,
         minute |-> IF s % 60 = 0 \/ d = NoDate THEN Exact(s).minute ELSE d.minute,
         second |-> Exact(s).second]
  BY <1>2, <1>3, <1>4 DEF Refresh, Exact
<1>6. Refresh(d, s) \in GoodDates
  BY <1>1, <1>5 DEF GoodDates
<1> QED
  BY <1>5, <1>6

LEMMA CachedHumanDateInv ==
  ASSUME Inv, header = "date.h", NEW t \in running, NEW s \in Clock, CachedHumanDate(t, s)
  PROVE  Inv'
<1> DEFINE r == Refresh(Value(t), s)
<1>1. /\ sec' = s /\ SetValue(t, r) /\ last' = [last EXCEPT ![t] = s]
      /\ UNCHANGED <<m, date, header>>
  BY DEF CachedHumanDate
<1>2. skipped' = [skipped EXCEPT ![t] =
          {p \in Parts : /\ value[t] # NoObject /\ s % p # 0
                         /\ p \in skipped[t] \/ s \div p # last[t] \div p}]
  BY DEF CachedHumanDate
<1>3. t \in Threads /\ Value(t) \in GoodDates \cup {NoDate}
      /\ (value[t] = NoObject <=> Value(t) = NoDate)
  <2>1. t \in Threads /\ value[t] \in GoodDates \cup {NoObject}
    BY DEF Inv, TypeInv
  <2>2. NoDate \notin GoodDates
    BY GoodDatesAre DEF NoDate
  <2> QED
    BY <2>1, <2>2, NoObjectIsNoDate DEF Value
<1>4. r \in GoodDates /\ r # NoObject
  BY <1>3, RefreshIs, GoodDatesAre
<1>5. s \in Nat
  BY ClockDay
<1>6. UNCHANGED <<running, key_, tptr, data_, started>>
  BY <1>1 DEF SetValue
<1>7. DateInv' /\ TptrInv'
  BY <1>1, <1>6, TptrStays DEF Inv, DateInv
<1>8. Users \subseteq Threads /\ Cardinality(Users) \in Nat /\ Cardinality(Threads) \in Nat
  BY Counted DEF Inv, TypeInv, Users
<1>9. ASSUME NotStored(t) \/ ForeignKey
      PROVE  Inv'
  <2>1. value' = value /\ value[t] = NoObject
    BY <1>3, <1>9 DEF NotStored, ForeignKey, Inv, ValueInv
  <2>2. Users' = Users
    BY <1>6, <2>1 DEF Users
  <2>3. \/ objects' = objects /\ failures' = failures
        \/ objects' = objects + 1 /\ failures' = failures + 1
    BY <1>9 DEF NotStored, ForeignKey
  <2>4. objects \in Nat /\ failures \in Nat
    BY DEF Inv, TypeInv
  <2>5. TypeInv'
    BY <1>1, <1>2, <1>3, <1>5, <1>6, <2>1, <2>3 DEF Inv, TypeInv
  <2>6. KeyInv'
    BY <1>6, <1>8, <2>2, <2>3, <2>4 DEF Inv, KeyInv
  <2>7. \A u \in Threads :
          value'[u] # NoObject => last'[u] = last[u] /\ skipped'[u] = skipped[u]
    BY <1>1, <1>2, <2>1 DEF Inv, TypeInv
  <2>8. ValueInv' /\ CachedDateRight'
    BY <1>6, <2>1, <2>7 DEF Inv, ValueInv, CachedDateRight
  <2> QED
    BY <1>7, <2>5, <2>6, <2>8 DEF Inv
<1>10. ASSUME Stored(t, r)
       PROVE  Inv'
  <2> HIDE DEF r
  <2>1. /\ value' = [value EXCEPT ![t] = r]
        /\ objects' = IF value[t] = NoObject THEN objects + 1 ELSE objects
        /\ key_ = "live" /\ failures' = failures
    BY <1>10 DEF Stored
  <2>2. TypeInv'
    BY <1>1, <1>2, <1>3, <1>4, <1>5, <1>6, <2>1 DEF Inv, TypeInv
  <2>3. ValueInv'
    BY <1>1, <1>3, <1>6, <2>1 DEF Inv, TypeInv, ValueInv
  <2>4. KeyInv'
    <3>1. Users' = Users \cup {t}
      BY <1>3, <1>4, <1>6, <2>1 DEF Inv, TypeInv, Users
    <3>2. t \in Users <=> value[t] # NoObject
      BY DEF Users
    <3>3. Cardinality(Users') = IF value[t] = NoObject THEN Cardinality(Users) + 1
                                ELSE Cardinality(Users)
      BY <1>3, <1>8, <3>1, <3>2, AddThread
    <3>4. objects = Cardinality(Users) + failures /\ failures \in Nat
      BY <2>1 DEF Inv, TypeInv, KeyInv
    <3>5. objects' = Cardinality(Users') + failures'
      BY <1>8, <2>1, <3>3, <3>4
    <3>6. Cardinality(Users') \in Nat /\ Cardinality(Users') <= Cardinality(Threads)
      BY <1>3, <1>8, <3>1, Counted
    <3>7. objects' <= Cardinality(Threads) + failures'
      BY <1>8, <2>1, <3>4, <3>5, <3>6
    <3> QED
      BY <3>5, <3>7 DEF KeyInv
  <2>5. CachedDateRight'
    <3> SUFFICES ASSUME NEW u \in Threads, value'[u] # NoObject
                 PROVE  /\ DAY \notin skipped'[u] => /\ value'[u].year = Exact(last'[u]).year
                                                     /\ value'[u].month = Exact(last'[u]).month
                                                     /\ value'[u].day = Exact(last'[u]).day
                        /\ 3600 \notin skipped'[u] => value'[u].hour = Exact(last'[u]).hour
                        /\ 60 \notin skipped'[u] => value'[u].minute = Exact(last'[u]).minute
                        /\ value'[u].second = Exact(last'[u]).second
      BY DEF CachedDateRight, Exact
    <3>1. CASE u # t
      <4>1. value'[u] = value[u] /\ last'[u] = last[u] /\ skipped'[u] = skipped[u]
        BY <1>1, <1>2, <2>1, <3>1 DEF Inv, TypeInv
      <4> QED
        BY <4>1 DEF Inv, CachedDateRight, Exact
    <3>2. CASE u = t
      <4>1. value'[u] = r /\ last'[u] = s
        BY <1>1, <1>3, <2>1, <3>2 DEF Inv, TypeInv
      <4>2. \A p \in Parts : p \notin skipped'[u] =>
               \/ value[t] = NoObject
               \/ s % p = 0
               \/ p \notin skipped[t] /\ s \div p = last[t] \div p
        BY <1>2, <1>3, <3>2 DEF Inv, TypeInv
      <4>3. CASE value[t] = NoObject
        BY <1>3, <4>1, <4>3, RefreshIs DEF r
      <4>4. CASE value[t] # NoObject
        <5>1. /\ Value(t) = value[t] /\ Value(t) # NoDate /\ last[t] \in Clock
          BY <1>3, <4>4 DEF Value, Inv, ValueInv
        <5>2. /\ DAY \notin skipped[t] => /\ value[t].year = Exact(last[t]).year
                                           /\ value[t].month = Exact(last[t]).month
                                           /\ value[t].day = Exact(last[t]).day
              /\ 3600 \notin skipped[t] => value[t].hour = Exact(last[t]).hour
              /\ 60 \notin skipped[t] => value[t].minute = Exact(last[t]).minute
          BY <1>3, <4>4 DEF Inv, CachedDateRight, Exact
        <5>3. /\ IF s % DAY = 0
                 THEN r.year = Exact(s).year /\ r.month = Exact(s).month /\ r.day = Exact(s).day
                 ELSE r.year = value[t].year /\ r.month = value[t].month /\ r.day = value[t].day
              /\ r.hour = IF s % 3600 = 0 THEN Exact(s).hour ELSE value[t].hour
              /\ r.minute = IF s % 60 = 0 THEN Exact(s).minute ELSE value[t].minute
              /\ r.second = Exact(s).second
          BY <1>3, <5>1, RefreshIs DEF r
        <5>4. DAY \in Parts /\ 3600 \in Parts /\ 60 \in Parts
          BY DEF Parts
        <5>5. DAY \notin skipped'[u] => /\ r.year = Exact(s).year
                                        /\ r.month = Exact(s).month
                                        /\ r.day = Exact(s).day
          BY <4>2, <4>4, <5>1, <5>2, <5>3, <5>4, PartsStay
        <5>6. 3600 \notin skipped'[u] => r.hour = Exact(s).hour
          BY <4>2, <4>4, <5>1, <5>2, <5>3, <5>4, PartsStay
        <5>7. 60 \notin skipped'[u] => r.minute = Exact(s).minute
          BY <4>2, <4>4, <5>1, <5>2, <5>3, <5>4, PartsStay
        <5> QED
          BY <4>1, <5>3, <5>5, <5>6, <5>7
      <4> QED
        BY <4>3, <4>4
    <3> QED
      BY <3>1, <3>2
  <2> QED
    BY <1>7, <2>2, <2>3, <2>4, <2>5 DEF Inv
<1> QED
  BY <1>1, <1>9, <1>10 DEF SetValue

LEMMA StutterInv == ASSUME Inv, UNCHANGED storeVars PROVE Inv'
<1>1. UNCHANGED <<sec, m, date, running, key_, value, objects, tptr, data_, started,
                  failures, header, last, skipped>>
  BY DEF storeVars, vars, localVars
<1>2. TypeInv' /\ DateInv'
  BY <1>1 DEF Inv, TypeInv, DateInv
<1>3. ValueInv' /\ KeyInv' /\ CachedDateRight'
  BY <1>1 DEF Inv, ValueInv, KeyInv, Users, CachedDateRight
<1>4. TptrInv'
  BY <1>1, TptrStays DEF Inv
<1> QED
  BY <1>2, <1>3, <1>4 DEF Inv

LEMMA NextInv == Inv /\ [StoreNext]_storeVars => Inv'
<1> SUFFICES ASSUME Inv, [StoreNext]_storeVars PROVE Inv'
  OBVIOUS
<1>1. CASE header = "logging.h" /\ Next /\ UNCHANGED <<localVars, header, last, skipped>>
  BY <1>1, HumanDateInv
<1>2. CASE LocalStep /\ UNCHANGED <<vars, header, last, skipped>>
  BY <1>2, StartInv, ExitInv, DeleteKeyInv, SingletonInv DEF LocalStep
<1>3. ASSUME header = "date.h", NEW t \in running, NEW d \in 0..(CacheDays - 1),
             NEW time \in CacheTimes, CachedHumanDate(t, (FirstDay + d) * DAY + time)
      PROVE  Inv'
  <2>1. FirstDay + d \in Nat /\ YEARSTART <= FirstDay + d /\ FirstDay + d < 24855
    BY DateAssumption, StoreAssumption DEF YEARSTART, YEARFIRST
  <2>2. time \in Nat /\ time < DAY
    BY StoreAssumption, SecondsOfDay
  <2>3. (FirstDay + d) * DAY + time \in Clock
    BY <2>1, <2>2, TimesInClock
  <2> QED
    BY <1>3, <2>3, CachedHumanDateInv
<1>4. CASE UNCHANGED storeVars
  BY <1>4, StutterInv
<1> QED
  BY <1>1, <1>2, <1>3, <1>4 DEF StoreNext

(* Whatever threads come and go, whenever they call and whatever pthread    *)
(* refuses them, the objects of the ThreadLocal are those of the running    *)
(* threads and one for each failed pthread_setspecific, and no thread gets  *)
(* a second object of the singleton.                                        *)
THEOREM ObjectsCounted == StoreSpec => []ObjectsAccounted
<1>1. Inv => ObjectsAccounted
  <2> SUFFICES ASSUME Inv PROVE ObjectsAccounted
    OBVIOUS
  <2>1. Cardinality(running \ tptr) \in Nat
    BY Counted DEF Inv, TypeInv
  <2>2. data_ # -1 => Cardinality(tptr) <= data_ /\ data_ <= started + 1
    BY <2>1 DEF Inv, TptrInv
  <2> QED
    BY <2>2 DEF Inv, KeyInv, Users, ObjectsAccounted
<1> QED
  BY InitInv, NextInv, <1>1, PTL DEF StoreSpec

(* The date a thread gets from its cache is that of a full computation, but *)
(* for the parts whose first second it missed: for any times of day, any    *)
(* number of days and any interleaving of the calls of the threads.         *)
THEOREM CacheCorrect == StoreSpec => []CachedDateRight
<1>1. Inv => CachedDateRight
  BY DEF Inv
<1> QED
  BY InitInv, NextInv, <1>1, PTL DEF StoreSpec

(* On every day from 2001 to 2038 the year is the calendar's, but for the   *)
(* last day of a leap year, which gets the next year.                       *)
THEOREM YearCorrect == StoreSpec => []YearIsRight
<1>1. Inv => YearIsRight
  <2> SUFFICES ASSUME Inv, Called PROVE YearIsRight
    BY DEF YearIsRight
  <2>1. date # NoDate
    BY DEF Called, NoDate
  <2>2. sec \in Clock /\ m \in Tables /\ date = DateInfo(sec, m)
    BY <2>1 DEF Inv, TypeInv, DateInv
  <2>3. date.year = YearAndDay(sec).year
    BY <2>2, DateInfoIs
  <2> DEFINE y == YearOf(Today)
  <2>4. y \in 2001..2038
    BY <2>2, YearIs DEF Today
  <2>5. \/ date.year = y
        \/ date.year = y + 1 /\ y % 4 = 0 /\ Today + 1 = NewYear(y + 1)
    BY <2>2, <2>3, YearIs DEF Today
  <2> HIDE DEF y
  <2>6. y % 4 = 0 => IsLeap(y)
    BY <2>4 DEF IsLeap
  <2> QED
    BY <2>5, <2>6 DEF YearIsRight, y
<1> QED
  BY InitInv, NextInv, <1>1, PTL DEF StoreSpec

------------------------------------------------------------------------------
(* Stamps sort.                                                             *)

LEMMA LeapYearLength ==
  ASSUME NEW y \in 2001..2038, y % 4 = 0
  PROVE  NewYear(y + 1) = NewYear(y) + 366 /\ NewYear(y) \in Int
<1>1. /\ NewYear(y) = 365 * (y - 1970) + (y - 1) \div 4 - 492
      /\ NewYear(y + 1) = 365 * (y + 1 - 1970) + y \div 4 - 492
  BY NewYearIs
<1>2. y \div 4 = (y - 1) \div 4 + 1 /\ (y - 1) \div 4 \in Int
  OBVIOUS
<1> QED
  BY <1>1, <1>2

LEMMA RankGrows ==
  ASSUME NEW d \in GoodDates, NEW e \in GoodDates,
         \/ d.year < e.year
         \/ d.year = e.year /\ d.month < e.month
         \/ d.year = e.year /\ d.month = e.month /\ d.day < e.day
  PROVE  DayRank(d) < DayRank(e)
<1> DEFINE y == d.year
           z == e.year
           i == d.month
           j == e.month
           a == d.day
           b == e.day
<1>1. /\ y \in 2001..2039 /\ i \in 1..12 /\ a \in 1..31
      /\ z \in 2001..2039 /\ j \in 1..12 /\ b \in 1..31
  BY DEF GoodDates
<1>2. y < z \/ (y = z /\ i < j) \/ (y = z /\ i = j /\ a < b)
  OBVIOUS
<1>3. DayRank(d) = (y * 13 + i) * 32 + a /\ DayRank(e) = (z * 13 + j) * 32 + b
  BY DEF DayRank
<1> HIDE DEF y, z, i, j, a, b
<1>4. (y * 13 + i) * 32 + a < (z * 13 + j) * 32 + b
  BY <1>1, <1>2
<1> QED
  BY <1>3, <1>4

\* Two calls on one day of one year differ by the time of day.
LEMMA TimeGrows ==
  ASSUME NEW s \in Clock, NEW u \in Clock, s < u, s \div DAY = u \div DAY,
         NEW table \in Tables
  PROVE  /\ DayRank(DateInfo(s, table)) = DayRank(DateInfo(u, table))
         /\ TimeOfDay(DateInfo(s, table)) < TimeOfDay(DateInfo(u, table))
<1>1. YearAndDay(s) = YearAndDay(u)
  BY DEF YearAndDay
<1>2. DayRank(DateInfo(s, table)) = DayRank(DateInfo(u, table))
  BY <1>1, DateInfoIs DEF DayRank
<1>3. s % DAY < u % DAY
  <2>1. s \in Nat /\ u \in Nat
    BY ClockDay
  <2> QED
    BY <2>1 DEF DAY
<1>4. /\ TimeOfDay(DateInfo(s, table)) = s % DAY
      /\ TimeOfDay(DateInfo(u, table)) = u % DAY
  BY DateInfoIs, TimeIs, ClockDay DEF TimeOfDay
<1> QED
  BY <1>2, <1>3, <1>4

LEMMA StampStep ==
  ASSUME Inv, Called, NEW s \in Clock, HumanDate(s), sec < s,
         YearOf(sec \div DAY) = YearOf(s \div DAY)
  PROVE  \/ DayRank(date) < DayRank(date')
         \/ DayRank(date) = DayRank(date') /\ TimeOfDay(date) < TimeOfDay(date')
<1> DEFINE y == YearOf(sec \div DAY)
           d == sec \div DAY
           e == s \div DAY
           a == YearAndDay(sec)
           b == YearAndDay(s)
<1>1. date # NoDate
  BY DEF Called, NoDate
<1>2. /\ sec \in Clock /\ m \in Tables /\ date = DateInfo(sec, m)
      /\ m = MonthTable(m, a.year)
  BY <1>1 DEF Inv, TypeInv, DateInv
<1>3. sec' = s /\ m' = MonthTable(m, b.year) /\ m' \in Tables /\ date' = DateInfo(s, m')
  BY <1>2, TablesClosed DEF HumanDate
<1>4. /\ date \in GoodDates /\ date.year = a.year
      /\ date.month = MonthAndDay(m, a.dd).month /\ date.day = MonthAndDay(m, a.dd).day
  BY <1>2, DateInfoIs, DateInfoGood
<1>5. /\ date' \in GoodDates /\ date'.year = b.year
      /\ date'.month = MonthAndDay(m', b.dd).month /\ date'.day = MonthAndDay(m', b.dd).day
  BY <1>3, DateInfoIs, DateInfoGood
<1>6. d \in Nat /\ e \in Nat /\ d <= e
  <2>1. sec \in Nat /\ s \in Nat
    BY <1>2, ClockDay
  <2> QED
    BY <2>1 DEF DAY
<1>7. /\ a.dd \in Int /\ 0 <= a.dd /\ a.dd <= 364
      /\ b.dd \in Int /\ 0 <= b.dd /\ b.dd <= 364
  BY <1>2, YearAndDayIs
<1>8. /\ y \in 2001..2038
      /\ \/ a.year = y /\ d = NewYear(y) + a.dd
         \/ a.year = y + 1 /\ y % 4 = 0 /\ d + 1 = NewYear(y + 1)
      /\ \/ b.year = y /\ e = NewYear(y) + b.dd
         \/ b.year = y + 1 /\ y % 4 = 0 /\ e + 1 = NewYear(y + 1)
  BY <1>2, YearIs
<1> HIDE DEF y, d, e, a, b
<1>9. NewYear(y) \in Int
  BY <1>8, NewYearIs
<1>10. CASE a.year = b.year
  <2>1. m' = m
    BY <1>2, <1>3, <1>10
  <2>2. CASE d = e
    BY <1>2, <1>3, <2>1, <2>2, TimeGrows DEF d, e
  <2>3. CASE d # e
    <3>1. a.dd < b.dd
      BY <1>6, <1>7, <1>8, <1>9, <1>10, <2>3
    <3>2. \/ date.month < date'.month
          \/ date.month = date'.month /\ date.day < date'.day
      BY <1>2, <1>4, <1>5, <1>7, <2>1, <3>1, DayGrows
    <3> QED
      BY <1>4, <1>5, <1>10, <3>2, RankGrows
  <2> QED
    BY <2>2, <2>3
<1>11. CASE a.year = y /\ b.year = y + 1
  BY <1>4, <1>5, <1>8, <1>11, RankGrows
<1>12. CASE a.year = y + 1 /\ b.year = y
  <2>1. y % 4 = 0 /\ d + 1 = NewYear(y + 1) /\ e = NewYear(y) + b.dd
    BY <1>8, <1>12
  <2>2. NewYear(y + 1) = NewYear(y) + 366
    BY <1>8, <2>1, LeapYearLength
  <2> QED
    BY <1>6, <1>7, <1>9, <2>1, <2>2
<1> QED
  BY <1>8, <1>10, <1>11, <1>12

(* Of two calls of HumanDate in one calendar year the later one gets the    *)
(* greater stamp, on any days from 2001 to 2038 and at any times, whatever  *)
(* earlier calls have left in the table of months.                          *)
THEOREM StampsAreSorted == StoreSpec => StampsSort
<1>1. ASSUME Inv, [StoreNext]_storeVars
      PROVE  [Called /\ sec < sec' /\ YearOf(Today) = YearOf(Today')
                => \/ DayRank(date) < DayRank(date')
                   \/ DayRank(date) = DayRank(date') /\ TimeOfDay(date) < TimeOfDay(date')]_vars
  <2>1. CASE header = "logging.h" /\ Next /\ UNCHANGED <<localVars, header, last, skipped>>
    <3>1. PICK s \in Clock : HumanDate(s)
      BY <1>1, <2>1, HumanDateInv
    <3>2. sec' = s
      BY <3>1 DEF HumanDate
    <3> QED
      BY <1>1, <3>1, <3>2, StampStep DEF Today
  <2>2. CASE header = "date.h"
    <3>1. ~Called
      BY <1>1, <2>2 DEF Inv, DateInv, Called, NoDate
    <3> QED
      BY <3>1
  <2>3. CASE UNCHANGED storeVars
    BY <2>3 DEF storeVars
  <2> QED
    BY <1>1, <2>1, <2>2, <2>3 DEF StoreNext
<1> QED
  BY InitInv, NextInv, <1>1, PTL DEF StoreSpec, StampsSort
================================================================================
