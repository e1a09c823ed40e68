SPECIFICATION Spec
CONSTANTS
  w1 = w1
  w2 = w2
  s1 = s1
  s2 = s2
  orders = orders
  other = other
  ORDERS = ORDERS
  PAYMENTS = PAYMENTS
  order_id = order_id
  payment_id = payment_id
  col = col
  n1 = n1
  n2 = n2
  None = None
  Unknown = Unknown
  Worker = {w1}
  Source = {s1, s2}
  Name = {n1, n2}
  Content = {orders, other}
  Type = {ORDERS, PAYMENTS}
  Field = {order_id, payment_id}
  Column = {col}
  Class <- MCClass
  Required <- MCRequired
  Allowed <- MCAllowed
  Proposed <- MCProposed
  MaxCalls = 4
CHECK_DEADLOCK FALSE
INVARIANT NormalizationIsBlocked
