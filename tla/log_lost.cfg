SPECIFICATION Spec
CONSTANTS
  MaxLines = 3
  R_W_Times = 1
  File_Size = 3
  MaxRequests = 1
  MaxKills = 0
  BLogs = {"blog"}
PROPERTIES
  LineKept
CHECK_DEADLOCK FALSE
