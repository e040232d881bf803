SPECIFICATION WFairSpec
CONSTANTS
  Worker = {w1, w2}
  Submitter = {s1, s2}
  Task = {t1, t2}
  CoreSize = 1
  NoOne = NoOne
  NoTask = NoTask
INVARIANTS
  WInv
  OrderlyUnlessSeen
PROPERTIES
  WImplementsService
  WAwakeWorkersEnd
  WAwakeWorkerDrains
CHECK_DEADLOCK FALSE
