SPECIFICATION Spec
CONSTANTS
  Repo = {r1}
  Cadences = {1, 3}
  MinutesPerDay = 3
  UtcOffset = 0
  QuietStart = 0
  QuietEnd = 1
  MaxTime = 2
INVARIANTS
  TypeOK
  FailuresEarned
  PausedHasReason
  OwedStaysDue
  CadenceInForce
PROPERTIES
  AutoPauseEarned
  UnpauseOnlyByUser
CHECK_DEADLOCK FALSE
