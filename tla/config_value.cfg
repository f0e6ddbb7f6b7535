SPECIFICATION ConfSpec
CONSTANTS
  Files <- SmallFiles
  Key <- LogName
INVARIANTS
  UnambiguousNameRead
CHECK_DEADLOCK FALSE
