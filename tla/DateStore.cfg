\* logging.h: from 2003-01-01 to 2009-12-31, with two leap years and the years between
\* and after them; calls in the first and the last second of a day.
\* date.h: two days, calls around the first second of a minute, an hour and a day.
CONSTANTS
  FirstDay = 12053
  LastDay = 14609
  Times = {0, 3599, 86399}
  Gaps = {0, 1, 365}
  Threads = {main, worker}
  Main = main
  T <- NoDate
  NoObject = NoObject
  MaxStarts = 2
  MaxFailures = 2
  CacheTimes = {0, 59, 60, 61, 3599, 3600, 86399}
  CacheDays = 2
SPECIFICATION StoreSpec
INVARIANTS
  YearIsRight
  ObjectsAccounted
  CachedDateRight
PROPERTY StampsSort
CHECK_DEADLOCK FALSE
