SPECIFICATION Spec
CONSTANTS
  t1 = t1
  t2 = t2
  t3 = t3
  other = other
  ids = ids
  Foreign = Foreign
  Empty = Empty
  NotAnObject = NotAnObject
  None = None
  Steps = 8
  IterationLimit = 8
  Tool <- MCTool
  Baselines <- MCBaselines
  Arguments <- MCArguments
INVARIANTS TypeOK ComparisonIsCollected SupportedIsVerified
PROPERTIES Ends
CHECK_DEADLOCK FALSE
