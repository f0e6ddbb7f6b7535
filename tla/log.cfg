SPECIFICATION Spec
CONSTANTS
  MaxLines = 4
  R_W_Times = 1
  File_Size = 3
  MaxRequests = 3
  MaxKills = 1
  BLogs = {"log", "blog"}
INVARIANTS
  TypeOK
  FileStillThere
  BackUnpacks
CHECK_DEADLOCK FALSE
