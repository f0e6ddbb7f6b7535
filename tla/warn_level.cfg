SPECIFICATION Spec
CONSTANTS
  Words = {"date", "note"}
  Ends <- Levels
  Bytes <- Lengths
  Cells = 7
  MaxLines = 2
  types = {0, 1}
INVARIANTS
  WarningIsReported
