SPECIFICATION FairSpec
CONSTANTS
  Callers = {o1, o2}
  Limits <- MCLimits
  Size = 2
  Capacity = 1
INVARIANTS
  TypeOK
  LimitRespected
  ReportsWithinFills
  FilledIsFinal
PROPERTIES
  CallsReturn
  FillsAreReported
CHECK_DEADLOCK FALSE
