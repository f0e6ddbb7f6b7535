SPECIFICATION Spec
CONSTANTS
  MaxLines = 3
  R_W_Times = 1
  File_Size = 3
  MaxRequests = 2
  MaxKills = 0
  BLogs = {"blog"}
INVARIANTS
  RequestAnswered
CHECK_DEADLOCK FALSE
