SPECIFICATION FairSpec
CONSTANTS
  Workers = {w1, w2}
  Producers = {p1, p2, p3}
  Owner = owner
  Tasks = {a, b, c, d}
  NoTask = noTask
  MaxQueue = 2
CHECK_DEADLOCK FALSE
INVARIANTS
  NoSleepingWorker
  NoSleepingProducer
PROPERTIES
  StopReturns
  IsTaskQueue
