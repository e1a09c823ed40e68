SPECIFICATION Spec
CONSTANTS
  Worker = {w1}
  Clients = 2
  Keys = 2
  None = None
CHECK_DEADLOCK FALSE
PROPERTY LastingFailureIsFinal
