SPECIFICATION Spec
CONSTANTS
  Clients = {"a", "b"}
  Range0 <- RangeAB
  Loyal = {"a"}
  Deaf = {"refuse"}
  Hearts = {1, 2}
  MaxNodes = 2
  CtrlData = FALSE
INVARIANTS
  LoyalStaysListed
