SPECIFICATION Spec
CONSTANTS
  Process = {p1, p2}
  Key = {k1, k2, k3}
  Result = {r1, r2}
  None = None
  MaxResponses = 3
  MaxCalls = 3
SYMMETRY Symmetric
CHECK_DEADLOCK FALSE
INVARIANTS TypeOK TraceIsOfResponse AnswerWasSaved
PROPERTIES SettledStands
