SPECIFICATION Spec
CONSTANTS
  Clients = {"a", "b", "c"}
  Range0 <- RangeACB
  Loyal = {"a"}
  Deaf = {"refuse", "silent"}
  Hearts = {1}
  MaxNodes = 3
  CtrlData = FALSE
INVARIANTS
  ListedOnce
