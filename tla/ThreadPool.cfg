\* Two clients race up to three workers: Init(2), or Init(1) and, after a
\* stop, a restart with one or two more.  Two tasks let one be queued or being
\* notified while the other is taken or running.
CONSTANTS
  Clients = {c1, c2}
  Tasks = {t1, t2}
  MaxThreads = 3
  ThreadCounts = {1, 2}
  NoThread = NoThread
  NoTask = NoTask
SPECIFICATION Spec
INVARIANTS
  TaskConservation
  WaitTakeNeverSleeps
  StopDrains
  NoWorkerOutlivesPool
  TerminatesOnlyIfMisused
PROPERTIES
  AcceptedTaskRuns
  DestructorEnds
