SPECIFICATION Spec
CONSTANTS
  Worker = {w1, w2}
  Clients = 2
  Keys = 2
  None = None
CHECK_DEADLOCK FALSE
INVARIANT ActualProviderIsRecorded
