SPECIFICATION FairSpec
CONSTANTS
  Repo = {r1, r2}
  Day = 2
  QuietStart = 1
  QuietEnd = 0
  Retention = {1, 2}
  Row <- MCRow
  DEFAULT_RETENTION_DAYS = 1
  MAX_INDIVIDUAL_TOASTS = 1
  MaxAge = 5
  MaxRuns = 2
  MaxFaults = 1
  MaxSaves = 1
  MaxSlow = 1
INVARIANT TypeOK
PROPERTIES
  NotesKept
  ReceiptsKept
  LoopServes
