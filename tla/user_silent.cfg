SPECIFICATION FairSpec
CONSTANTS
  Clients = {"a", "b"}
  Range0 <- RangeA
  Loyal = {}
  Deaf = {"silent"}
  Hearts = {1}
  MaxNodes = 2
  CtrlData = FALSE
PROPERTIES
  GoneIsRemoved
