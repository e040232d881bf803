SPECIFICATION FairSpec
CONSTANTS
  Worker = {w1, w2}
  Submitter = {s1, s2}
  Task = {t1, t2}
  CoreSize = 1
  NoOne = NoOne
  NoTask = NoTask
INVARIANTS
  TypeOK
  Conservation
  ShutdownDrains
  QuietWhenClosed
PROPERTIES
  ImplementsService
  AwakeWorkersEnd
  AwakeWorkerDrains
CHECK_DEADLOCK FALSE
