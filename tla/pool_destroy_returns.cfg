SPECIFICATION FairSpec
CONSTANTS
  MaxThreads = 2
  MaxTasks = 1
  Forever = {}
  AlarmTargets = {}
  Destroys = TRUE
PROPERTIES
  DestroyReturns
CHECK_DEADLOCK FALSE
