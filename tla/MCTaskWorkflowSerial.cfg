SPECIFICATION FairSpec
CONSTANTS
  Actors = {alice, bob}
  NoActor = NoActor
  Requests = {r1}
  MaxRevisions = 2
INVARIANT
  ReviewFollowsValidation
  SettlesCurrent
  RejectionIsOfNewest
PROPERTY
  RequestsAreAnswered
  PastDeadlineExpires
CHECK_DEADLOCK FALSE
