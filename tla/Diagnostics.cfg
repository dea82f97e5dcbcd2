SPECIFICATION Spec
CONSTANTS
  Path = {"mine", "other"}
  MaxFailures = 2
  MaxSteps = 4
INVARIANTS
  TypeOK
  NoFalseAlarm
  FailureDated
CHECK_DEADLOCK FALSE
