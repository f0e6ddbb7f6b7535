SPECIFICATION FairSpec
CONSTANTS
  MaxThreads = 2
  MaxTasks = 4
  Forever = {1}
  AlarmTargets = {0}
  Destroys = TRUE
INVARIANTS
  TypeOK
  QueueLinked
  IdleCount
  NoLostWakeup
  TaskHeldByOneWorker
  AlarmNeverSelfBlocks
  CounterCoversLive
  PoolFreedOnlyWhenWorkersGone
PROPERTIES
  ImplementsTaskQueue
  Served
  DrainEnds
CHECK_DEADLOCK FALSE
