SPECIFICATION Spec
CONSTANTS
  Actors = {alice, bob, carol}
  NoActor = NoActor
  Requests = {r1, r2}
  MaxRevisions = 2
SYMMETRY Symmetry
INVARIANT
  RoundsMatchSubmissions
  OnlyNewestIsLive
  PaymentNeedsConfirmation
  OneSettlement
  WorkIsByAssignee
  ReviewWasValidated
  SettledWasApproved
  RejectionHasItsWork
  WorkflowInv
PROPERTY
  OnlyLegalSteps
  DeadSubmissionsStayDead
  ImplementsLifecycle
\* A task that is settling, rejected or expired is at the end of the workflow.
CHECK_DEADLOCK FALSE
