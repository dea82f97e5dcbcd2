SPECIFICATION Spec
CONSTANTS
  MaxRepo = 1
  MaxGroup = 1
  Name = {n}
  Color = {c}
  All = All
  Day = 1
  Offset = 0
  MaxTime = 0
INVARIANTS
  TypeOK
  AnswerBracketed
  BucketsDisjoint
  TablesAgree
CONSTRAINT OneReceipt
CHECK_DEADLOCK FALSE
