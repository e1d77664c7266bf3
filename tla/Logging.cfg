\* Two messages make a file too large, a period is two seconds long, and the period is
\* looked at in every second write.
CONSTANTS
  Threads = {t1, t2}
  NoThread = NoThread
  NoMessage = NoMessage
  Severity <- MCSeverity
  Settings <- MCSettings
  Oversized = {1}
  MessageSize = 1
  NoFile = NoFile
  MaxTime = 3
  RollSize = 2
  HeaderSize = 1
  Period = 2
  FlushInterval = 1
  CheckEveryN = 2
SPECIFICATION Spec
INVARIANTS
  TypeOK
  OneOrder
  LoggersMadeOnce
  PeriodRespected
PROPERTIES
  SizeBounded
  StatementEnds
