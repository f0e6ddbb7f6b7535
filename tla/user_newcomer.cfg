SPECIFICATION Spec
CONSTANTS
  Clients = {"a", "b", "c"}
  Range0 <- RangeAB
  Loyal = {"a"}
  Deaf = {"refuse", "silent"}
  Hearts = {1}
  MaxNodes = 3
  CtrlData = FALSE
INVARIANTS
  LoggedInStays
