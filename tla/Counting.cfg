\* Five references: enough for three concurrent calls of Unref while a
\* fourth holder still makes a fifth reference.
\* Four tasks, any subset of them in each of two rounds.
CONSTANTS
  References = {r1, r2, r3, r4, r5}
  Original = r1
  NoReference = NoReference
  Tasks = {t1, t2, t3, t4}
  MaxRounds = 2
SPECIFICATION CountingSpec
INVARIANTS
  CountIsExact
  HolderIsSafe
  SoleOwnerStays
  VerdictIsRight
  SleepsOnlyForReports
PROPERTIES
  LastUnrefDeletes
  WaitEnds
