--------------------------------- MODULE Date ---------------------------------
(***************************************************************************)
(* Date::HumanDate of base/logging.cc, which turns the clock into the date *)
(* that stamps log lines and log files.  The lengths of the months are a   *)
(* static table that a call in a leap year changes for all later calls, so *)
(* the date depends on earlier calls as well as on the time.               *)
(***************************************************************************)
EXTENDS Integers

CONSTANTS FirstDay, LastDay,  \* bound: days since 1970, in the time of Beijing
          Times,              \* seconds of the day at which HumanDate is called
          Gaps                \* days that may pass between two calls

DAY == 86400
YEARFIRST == 2001
YEARSTART == 365 * (YEARFIRST - 1970) + 8
YEAR400 == 164097
YEAR100 == 36524
YEAR004 == 1461
YEAR001 == 365

\* sec is an int and fits into one until 2038.
ASSUME DateAssumption == /\ FirstDay \in Nat /\ LastDay \in Nat
                         /\ YEARSTART <= FirstDay /\ LastDay < 24855
                         /\ Times \subseteq 0..(DAY - 1)
                         /\ Gaps \subseteq Nat

VARIABLES sec,   \* the time of the last call, in seconds
          m,     \* the static table, indexed from 0
          date   \* the DateInfo it filled in

vars == <<sec, m, date>>

\* Mutant: YEARSTART with a leap year too few.
YearAndDayLate(s) ==
    LET ad == s \div DAY - YEARSTART + 1
        rest == ((ad % YEAR400) % YEAR100) % YEAR004
    IN [year |-> (ad \div YEAR400) * 400 + ((ad % YEAR400) \div YEAR100) * 100
                 + (((ad % YEAR400) % YEAR100) \div YEAR004) * 4 + rest \div YEAR001 + YEARFIRST,
        dd |-> rest % YEAR001]

\* The year, and the days of it that have passed.
YearAndDay(s) ==
    LET ad == s \div DAY - YEARSTART
        rest == ((ad % YEAR400) % YEAR100) % YEAR004
    IN [year |-> (ad \div YEAR400) * 400 + ((ad % YEAR400) \div YEAR100) * 100
                 + (((ad % YEAR400) % YEAR100) \div YEAR004) * 4 + rest \div YEAR001 + YEARFIRST,
        dd |-> rest % YEAR001]

\* The rule for leap years, with 1000 where the calendar has 100.
LeapInCode(yy) == IF yy % 1000 = 0 THEN (yy \div 1000) % 4 = 0 ELSE yy % 4 = 0

MonthTable(table, yy) == IF LeapInCode(yy) THEN [table EXCEPT ![1] = 29] ELSE table
Months == [i \in 0..11 |-> IF i = 1 THEN 28 ELSE IF i \in {3, 5, 8, 10} THEN 30 ELSE 31]

\* The loop subtracts m[i] from i = 1 on, that is from February, until the
\* month that has more days than are left.
MonthAndDay(table, dd) ==
    LET passed[i \in 1..12] == IF i = 1 THEN 0 ELSE passed[i - 1] + table[i - 1]
        month == CHOOSE i \in 1..12 : /\ passed[i] <= dd
                                      /\ i < 12 => dd < passed[i + 1]
    IN [month |-> month, day |-> dd - passed[month] + 1]

ComputeHour(s) == (s \div 3600) % 24
ComputeMinute(s) == s \div 60 - (s \div 3600) * 60
ComputeSecond(s) == (s - (s \div 3600) * 3600) % 60

DateInfo(s, table) ==
    LET y == YearAndDay(s)
        md == MonthAndDay(table, y.dd)
    IN [year |-> y.year, month |-> md.month, day |-> md.day, hour |-> ComputeHour(s),
        minute |-> ComputeMinute(s), second |-> ComputeSecond(s)]

\* What DateInfo() constructs.
NoDate == [year |-> 0, month |-> 0, day |-> 0, hour |-> -1, minute |-> -1, second |-> 0]

\* No call has been made; the table is as the source gives it.
DateInit ==
    /\ sec \in {d * DAY + t : d \in FirstDay..LastDay, t \in Times}
    /\ m = Months
    /\ date = NoDate

\* Mutant: the table is changed after it was used.
HumanDateLate(s) ==
    /\ s >= sec
    /\ sec' = s
    /\ m' = MonthTable(m, YearAndDay(s).year)
    /\ date' = DateInfo(s, m)

\* A call at a time not before that of the last one.
HumanDate(s) ==
    /\ s >= sec
    /\ sec' = s
    /\ m' = MonthTable(m, YearAndDay(s).year)
    /\ date' = DateInfo(s, m')

Next == \E gap \in Gaps, t \in Times :
            LET s == (sec \div DAY + gap) * DAY + t
            IN s < (LastDay + 1) * DAY /\ HumanDate(s)

Spec == DateInit /\ [][Next]_vars

------------------------------------------------------------------------------
(* The calendar.                                                            *)

IsLeap(y) == y % 4 = 0 /\ (y % 100 # 0 \/ y % 400 = 0)

MonthLength(y, i) == CASE i = 2 -> IF IsLeap(y) THEN 29 ELSE 28
                       [] i \in {4, 6, 9, 11} -> 30
                       [] OTHER -> 31

\* Leap years before year y, and the first day of y, both from 1970 on.
LeapYearsBefore(y) == (y - 1) \div 4 - (y - 1) \div 100 + (y - 1) \div 400 - 477
NewYear(y) == 365 * (y - 1970) + LeapYearsBefore(y)
YearOf(d) == CHOOSE y \in YEARFIRST..2038 : NewYear(y) <= d /\ d < NewYear(y + 1)

\* The day a date denotes, if there is such a date.
Denotes(dt, d) ==
    LET passed[i \in 1..12] == IF i = 1 THEN 0 ELSE passed[i - 1] + MonthLength(dt.year, i - 1)
    IN /\ dt.day \in 1..MonthLength(dt.year, dt.month)
       /\ NewYear(dt.year) + passed[dt.month] + dt.day - 1 = d

------------------------------------------------------------------------------
Called == date.year # 0
Today == sec \div DAY

DayRank(dt) == (dt.year * 13 + dt.month) * 32 + dt.day
TimeOfDay(dt) == dt.hour * 3600 + dt.minute * 60 + dt.second

(* Stamps sort: of two calls in one calendar year the later one gets the    *)
(* greater date, whatever earlier calls have left in the table of months    *)
(* (HumanDate).  This is what sorting log lines and log files relies on.    *)
StampsSort ==
    [][Called /\ sec < sec' /\ YearOf(Today) = YearOf(Today')
           => \/ DayRank(date) < DayRank(date')
              \/ DayRank(date) = DayRank(date') /\ TimeOfDay(date) < TimeOfDay(date')]_vars

(* The year is the calendar's, but for the last day of a leap year, which   *)
(* the division by YEAR001 gives to the next year.                          *)
YearIsRight ==
    Called => \/ date.year = YearOf(Today)
              \/ /\ IsLeap(YearOf(Today)) /\ Today + 1 = NewYear(YearOf(Today) + 1)
                 /\ date.year = YearOf(Today) + 1

(* A log line begins with month and day: "[I|W|E|F]mmdd hh:mm:ss" in the    *)
(* header of each log file.  The date a call gives is the day of the call.  *)
DateIsRight == Called => Denotes(date, Today)
==============================================================================
