SPECIFICATION Spec
CONSTANTS
  Tasks = {1, 2}
  Host <- TwoHosts
  Clients = {"a", "b"}
  N = 2
  filename <- Logs
  Sizes = {0, 1}
  MaxKills = 0
INVARIANTS
  AnswerFitsRequest
  RequestHeld
PROPERTIES
  ImplementsOrdered
CHECK_DEADLOCK FALSE
