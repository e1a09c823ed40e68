SPECIFICATION Spec
CONSTANTS
  Process = {p1, p2}
  Key = {k1, k2}
  Result = {r1}
  None = None
  MaxResponses = 3
  MaxCalls = 3
CHECK_DEADLOCK FALSE
INVARIANTS RefreshCanBeSaved
