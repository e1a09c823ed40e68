SPECIFICATION Spec
CONSTANTS
  p1 = p1
  p2 = p2
  k1 = k1
  k2 = k2
  k3 = k3
  r1 = r1
  r2 = r2
  fin = fin
  con1 = con1
  con2 = con2
  small = small
  large = large
  double = double
  review = review
  None = None
  Process = {p1, p2}
  Key = {k1, k2}
  Request = {r1, r2}
  Actor = {con1, con2}
  Exception = {large}
  Action = {review}
  RoleOf <- MCRoleOf
  TypeOf <- MCTypeOf
  StatusOf <- MCStatusOf
  ExposureOf <- MCExposureOf
  Allowed <- MCAllowed
CHECK_DEADLOCK FALSE
SYMMETRY Symmetry
VIEW Unaudited
INVARIANT
  OneRequestPerKey
