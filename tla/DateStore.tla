------------------------------- MODULE DateStore -------------------------------
(***************************************************************************)
(* The two HumanDate functions at work: that of base/logging.cc, and that  *)
(* of base/date.h, which keeps its last result in the DateInfo of the      *)
(* thread (base/test/date_test.cc has a ThreadLocal<DateInfo>) and         *)
(* computes a part of it again only in the first second of a day, an hour  *)
(* or a minute.  A program uses one of the headers.                        *)
(***************************************************************************)
EXTENDS Date, ThreadLocal

CONSTANTS CacheTimes,   \* seconds of the day at which the cached date is asked for
          CacheDays     \* bound: how many days

Dates == [year : Int, month : Int, day : Int, hour : Int, minute : Int, second : Int]

\* The objects are DateInfos; the clock is an int here as well.
ASSUME StoreAssumption == /\ T = NoDate /\ NoObject \notin Dates
                          /\ CacheTimes \subseteq 0..(DAY - 1)
                          /\ CacheDays \in Nat /\ FirstDay + CacheDays <= 24855

VARIABLES header,   \* which header the program uses
          last,     \* history: when each thread last called
          skipped   \* history: the parts of its date whose first second a thread has missed

storeVars == <<vars, localVars, header, last, skipped>>

Parts == {DAY, 3600, 60}   \* by their length in seconds

\* Mutant: the minute is computed once an hour.
RefreshHourly(d, s) ==
    LET exact == DateInfo(s, MonthTable(Months, YearAndDay(s).year))
        newDay == s % DAY = 0 \/ d.year = 0
    IN [year |-> IF newDay THEN exact.year ELSE d.year,
        month |-> IF newDay THEN exact.month ELSE d.month,
        day |-> IF newDay THEN exact.day ELSE d.day,
        hour |-> IF s % 3600 = 0 \/ d.hour = -1 THEN exact.hour ELSE d.hour,
        minute |-> IF s % 3600 = 0 \/ d.minute = -1 THEN exact.minute ELSE d.minute,
        second |-> exact.second]

\* HumanDate(d) of date.h, at time s; its table of months is its own.
Refresh(d, s) ==
    LET exact == DateInfo(s, MonthTable(Months, YearAndDay(s).year))
        newDay == s % DAY = 0 \/ d.year = 0
    IN [year |-> IF newDay THEN exact.year ELSE d.year,
        month |-> IF newDay THEN exact.month ELSE d.month,
        day |-> IF newDay THEN exact.day ELSE d.day,
        hour |-> IF s % 3600 = 0 \/ d.hour = -1 THEN exact.hour ELSE d.hour,
        minute |-> IF s % 60 = 0 \/ d.minute = -1 THEN exact.minute ELSE d.minute,
        second |-> exact.second]

StoreInit ==
    /\ DateInit /\ ThreadLocalInit
    /\ header \in {"logging.h", "date.h"}
    /\ header = "date.h" => sec = FirstDay * DAY
    /\ last = [t \in Threads |-> 0]
    /\ skipped = [t \in Threads |-> {}]

\* HumanDate(date_store.Value())
CachedHumanDate(t, s) ==
    /\ s >= sec /\ sec' = s
    /\ SetValue(t, Refresh(Value(t), s))
    /\ last' = [last EXCEPT ![t] = s]
    /\ skipped' = [skipped EXCEPT ![t] =
          {p \in Parts : /\ value[t] # NoObject /\ s % p # 0
                         /\ p \in @ \/ s \div p # last[t] \div p}]
    /\ UNCHANGED <<m, date, header>>

LocalStep ==
    \/ \E t \in Threads : Start(t)
    \/ \E t \in running : Exit(t)
    \/ DeleteKey
    \/ DestroySingleton
    \/ \E t \in running : Get(t)

StoreNext ==
    \/ header = "logging.h" /\ Next /\ UNCHANGED <<localVars, header, last, skipped>>
    \/ /\ header = "date.h" /\ fault = "none"
       /\ \/ LocalStep /\ UNCHANGED <<vars, header, last, skipped>>
          \/ \E t \in running, d \in 0..(CacheDays - 1), time \in CacheTimes :
                CachedHumanDate(t, (FirstDay + d) * DAY + time)

StoreSpec == StoreInit /\ [][StoreNext]_storeVars

------------------------------------------------------------------------------
(* The day, the hour and the minute that a thread gets from its cache are   *)
(* those of a full computation, unless the thread made no call in the first *)
(* second of the present day, hour or minute.  A part that has gone stale   *)
(* is right again after the next call in a first second (date.h).           *)
CachedDateRight ==
    \A t \in Threads :
        value[t] # NoObject =>
            LET exact == DateInfo(last[t], MonthTable(Months, YearAndDay(last[t]).year))
            IN /\ DAY \notin skipped[t] => /\ value[t].year = exact.year
                                           /\ value[t].month = exact.month
                                           /\ value[t].day = exact.day
               /\ 3600 \notin skipped[t] => value[t].hour = exact.hour
               /\ 60 \notin skipped[t] => value[t].minute = exact.minute
               /\ value[t].second = exact.second
===============================================================================
