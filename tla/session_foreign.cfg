SPECIFICATION Spec
CONSTANTS
  Tasks = {1, 2}
  Host <- SameHost
  Clients = {"a"}
  N = 2
  filename <- Logs
  Sizes = {1}
  MaxKills = 0
INVARIANTS
  OwnDataOnly
CHECK_DEADLOCK FALSE
