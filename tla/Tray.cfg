SPECIFICATION Spec
CONSTANTS
  MaxId = 2
  Loop = "loop"
  Batch = {"loop", "all"}
  Single = {"command"}
  Limit = 1
  MaxTime = 2
  MaxFaults = 1
INVARIANTS
  TypeOK
  MenuCurrent
  LabelTrue
CHECK_DEADLOCK FALSE
