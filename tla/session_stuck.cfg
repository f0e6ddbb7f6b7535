SPECIFICATION FairSpec
CONSTANTS
  Tasks = {1, 2}
  Host <- SameHost
  Clients = {"a"}
  N = 2
  filename <- Logs
  Sizes = {1}
  MaxKills = 0
PROPERTIES
  RequestIsAnswered
CHECK_DEADLOCK FALSE
