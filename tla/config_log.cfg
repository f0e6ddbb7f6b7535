SPECIFICATION ConfSpec
CONSTANTS
  Files <- SmallFiles
  Key <- LogName
INVARIANTS
  OwnEntryRead
CHECK_DEADLOCK FALSE
