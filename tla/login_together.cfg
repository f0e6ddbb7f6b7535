SPECIFICATION FairSpec
CONSTANTS
  Clients = {"a", "b"}
  Probes = {}
PROPERTIES
  LoginCompletes
CHECK_DEADLOCK FALSE
