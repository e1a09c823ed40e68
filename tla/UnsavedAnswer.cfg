SPECIFICATION Spec
CONSTANTS
  p1 = p1
  k1 = k1
  e1 = e1
  Process = {p1}
  Key = {k1}
  Exception = {e1}
  NoKey = NoKey
  NoException = NoException
  NoResponse = NoResponse
  MaxInvestigations = 2
INVARIANT
  AnsweredIsSaved
