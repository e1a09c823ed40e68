SPECIFICATION Spec
CONSTANTS
  Process = {p1, p2}
  Key = {k1, k2, k3}
  Pair = {r1, r2}
  Decision = {"ACCEPTED", "REJECTED"}
  None = None
  Operation = {"discover", "decide", "normalize", "reconcile"}
  MaxVersions = 2
  MaxClock = 2
  MaxCalls = 3
SYMMETRY Symmetric
CHECK_DEADLOCK FALSE
INVARIANTS TypeOK VersionsAreDense VersionsAreReviewed AnswerCoversWrite StatusIsBacked
PROPERTIES DecisionStands
