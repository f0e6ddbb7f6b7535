SPECIFICATION Spec
CONSTANTS
  SET <- Periods230
  Handlers = {0, 1}
  MaxTicks = 5
INVARIANTS
  NeverPastZero
CHECK_DEADLOCK FALSE
