SPECIFICATION FairSpec
CONSTANTS
  MaxThreads = 2
  MaxTasks = 2
  Forever = {1}
  AlarmTargets = {0}
  Destroys = FALSE
PROPERTIES
  AcceptedTaskStarts
CHECK_DEADLOCK FALSE
