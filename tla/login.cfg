SPECIFICATION FairSpec
CONSTANTS
  Clients = {"a", "b", "c"}
  Probes = {"p"}
INVARIANTS
  TypeOK
  BufferWillBeSent
PROPERTIES
  AloneIsWelcomed
CHECK_DEADLOCK FALSE
