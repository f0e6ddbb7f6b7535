SPECIFICATION FairSpec
CONSTANTS
  Self_Test = 3
INVARIANTS
  TypeOK
PROPERTIES
  FailureRemembered
  SilenceIsProbed
