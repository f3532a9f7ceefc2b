SPECIFICATION FairSpec
CONSTANTS
  Payments = {p1}
  NoPayment = NoPayment
  Requests = {r1}
  Alike = FALSE
  Hazards = {"lostReply"}
  MaxRows = 1
  MaxFaults = 0
PROPERTY PaidTasksComplete
\* When every payment is final or refused, nothing is left to do.
CHECK_DEADLOCK FALSE
