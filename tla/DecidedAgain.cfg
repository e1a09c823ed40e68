SPECIFICATION Spec
CONSTANTS
  Process = {p1, p2}
  Key = {k1, k2, k3}
  Pair = {r1}
  Decision = {"ACCEPTED", "REJECTED"}
  None = None
  Operation = {"discover", "decide"}
  MaxVersions = 2
  MaxClock = 2
  MaxCalls = 3
CHECK_DEADLOCK FALSE
PROPERTY DecidedIsNotDecidedAgain
