SPECIFICATION Spec
CONSTANTS
  Payments = {p1, p2}
  NoPayment = NoPayment
  Requests = {r1, r2}
  Alike = TRUE
  Hazards = {"deletion", "missedScan"}
  MaxRows = 3
  MaxFaults = 1
SYMMETRY Symmetry
INVARIANTS PaidOnce OneBroadcast OneOwner
\* When every payment is final or refused, nothing is left to do.
CHECK_DEADLOCK FALSE
