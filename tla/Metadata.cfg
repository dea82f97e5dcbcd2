SPECIFICATION Spec
CONSTANTS
  Repo = {1, 2}
  MaxPerWindow = 4
  RateWindow = 2
  RefreshWindow = 2
  Retracted = {2}
  MaxTime = 3
  Watched = {1}
  MaxPublish = 1
  MaxFaults = 1
INVARIANTS
  TypeOK
  EtagMatchesData
  AsOfHonest
  HourlyBudget
PROPERTIES
  NeverRegress
  PassComplete
  ToastOnce
CHECK_DEADLOCK FALSE
