SPECIFICATION Spec
CONSTANTS
  Self_Test = 3
INVARIANTS
  NoFalseAlarm
