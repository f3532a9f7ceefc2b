SPECIFICATION Spec
CONSTANTS
  Requester = requester
  Workers = {ann}
  Nobody = Nobody
  Slots = {s1}
  MaxRevisions = 1
  MaxSwitches = 2
  MaxMet = 2
ACTION_CONSTRAINT Bounded
INVARIANT
  TypeOK
  OffersWereLegal
  OwnWritesAreShown
PROPERTY
  PostsAreAnswered
  PageSettles
\* A page that shows a closed task to someone with nothing to do rests.
CHECK_DEADLOCK FALSE
