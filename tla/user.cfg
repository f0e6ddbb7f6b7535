SPECIFICATION FairSpec
CONSTANTS
  Clients = {"a", "b", "c"}
  Range0 <- RangeACB
  Loyal = {"a", "b"}
  Deaf = {"refuse", "silent"}
  Hearts = {1}
  MaxNodes = 3
  CtrlData = FALSE
INVARIANTS
  TypeOK
  NoDuplicateUser
  ListIsLive
  SocketsClosed
  LoyalStaysListed
  RoundIsExact
PROPERTIES
  GoneIsRemoved
