SPECIFICATION Spec
CONSTANTS
  Payments = {p1}
  NoPayment = NoPayment
  Requests = {r1, r2, r3}
  Alike = FALSE
  Hazards = {"lostReply", "missedScan", "deletion"}
  MaxRows = 2
  MaxFaults = 1
SYMMETRY Symmetry
INVARIANTS FinalRowsAreTrue FailedIsUnpaid CompletedIsPaid BroadcastHoldsLock ExecutionInv
PROPERTIES RowsOnlyAdvance LegalOrReopened ImplementsRecord
\* When every payment is final or refused, nothing is left to do.
CHECK_DEADLOCK FALSE
