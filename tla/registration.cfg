SPECIFICATION RegistrationSpec
CONSTANTS
  Clients = {"b", "c"}
  Range0 <- RangeB
  Loyal = {"c"}
  Deaf = {"refuse"}
  Hearts = {1}
  MaxNodes = 2
  CtrlData = TRUE
PROPERTIES
  ListedAgain
CHECK_DEADLOCK FALSE
