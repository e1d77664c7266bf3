\* The year 2003.
CONSTANTS
  FirstDay = 12053
  LastDay = 12417
  Times = {0, 3599, 86399}
  Gaps = {0, 1, 365}
SPECIFICATION Spec
INVARIANT DateIsRight
