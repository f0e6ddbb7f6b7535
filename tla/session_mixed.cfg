SPECIFICATION Spec
CONSTANTS
  Tasks = {1, 2}
  Host <- TwoHosts
  Clients = {"a", "b"}
  N = 2
  filename <- Logs
  Sizes = {1}
  MaxKills = 0
INVARIANTS
  StoredUnderOwnName
CHECK_DEADLOCK FALSE
