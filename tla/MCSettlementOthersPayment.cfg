SPECIFICATION Spec
CONSTANTS
  Payments = {p1, p2}
  NoPayment = NoPayment
  Requests = {r1, r2}
  Alike = TRUE
  Hazards = {}
  MaxRows = 2
  MaxFaults = 1
INVARIANT OwnPayment
\* When every payment is final or refused, nothing is left to do.
CHECK_DEADLOCK FALSE
