SPECIFICATION Spec
CONSTANTS
  Payments = {p1}
  NoPayment = NoPayment
  Requests = {r1}
  Alike = FALSE
  Hazards = {"lostReply", "deletion"}
  MaxRows = 2
  MaxFaults = 0
INVARIANT PaidOnce
\* When every payment is final or refused, nothing is left to do.
CHECK_DEADLOCK FALSE
