SPECIFICATION Spec
CONSTANTS
  p1 = p1
  p2 = p2
  k1 = k1
  k2 = k2
  k3 = k3
  r1 = r1
  r2 = r2
  fin = fin
  con1 = con1
  con2 = con2
  small = small
  large = large
  double = double
  review = review
  None = None
  Process = {p1}
  Key = {k1, k2}
  Request = {r1}
  Actor = {fin, con1, con2}
  Exception = {small}
  Action = {review}
  RoleOf <- MCRoleOf
  TypeOf <- MCTypeOf
  StatusOf <- MCStatusOf
  ExposureOf <- MCExposureOf
  Allowed <- MCAllowed
CHECK_DEADLOCK FALSE
INVARIANT
  DecisionIsAudited
