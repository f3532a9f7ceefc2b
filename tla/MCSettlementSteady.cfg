SPECIFICATION FairSpec
CONSTANTS
  Payments = {p1}
  NoPayment = NoPayment
  Requests = {r1, r2, r3}
  Alike = FALSE
  Hazards = {}
  MaxRows = 1
  MaxFaults = 2
PROPERTIES RequestsAreAnswered PaidTasksComplete
\* When every payment is final or refused, nothing is left to do.
CHECK_DEADLOCK FALSE
