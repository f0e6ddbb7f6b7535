SPECIFICATION Spec
CONSTANTS
  SET <- Periods230
  Handlers = {0}
  MaxTicks = 20
INVARIANTS
  TypeOK
  FiresOncePerPeriod
CHECK_DEADLOCK FALSE
