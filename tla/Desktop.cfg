SPECIFICATION Spec
CONSTANTS
  Saver = {a, b}
  a = a
  b = b
  Path = {"none", "custom"}
  Stamp = {1}
  MaxSaves = 2
  MaxFaults = 2
  MaxOutside = 2
  MaxLockRetries = 1
  Request <- MCRequest
INVARIANTS
  TypeOK
  AutostartHonest
  LiveFollowsStored
  NeverStranded
  DataPreserved
  ResetIsTold
PROPERTIES
  ResetOnlyCorrupt
  SaveReportTrue
SYMMETRY SaverSymmetry
