SPECIFICATION Spec
CONSTANTS
  p1 = p1
  p2 = p2
  p3 = p3
  k1 = k1
  e1 = e1
  e2 = e2
  Process = {p1, p2, p3}
  Key = {k1}
  Exception = {e1, e2}
  NoKey = NoKey
  NoException = NoException
  NoResponse = NoResponse
  MaxInvestigations = 3
SYMMETRY Symmetry
INVARIANTS
  TypeOK
  LeaseExcludes
  OneInvestigationPerKey
  ReplayCompatible
  CompletedIsSaved
PROPERTY
  CompletedIsFinal
