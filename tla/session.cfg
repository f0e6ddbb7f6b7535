SPECIFICATION FairSpec
CONSTANTS
  Tasks = {1, 2}
  Host <- SameHost
  Clients = {"a"}
  N = 2
  filename <- Logs
  Sizes = {0, 2}
  MaxKills = 1
INVARIANTS
  TypeOK
  AnswerFitsRequest
  DataGoesToItsSession
  SentIsStored
PROPERTIES
  AnsweredUnlessStuck
  ImplementsOrdered
CHECK_DEADLOCK FALSE
