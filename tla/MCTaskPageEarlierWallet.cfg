SPECIFICATION Spec
CONSTANTS
  Requester = requester
  Workers = {ann, ben}
  Nobody = Nobody
  Slots = {s1, s2}
  MaxRevisions = 1
  MaxSwitches = 2
  MaxMet = 2
INVARIANT OwnView
CHECK_DEADLOCK FALSE
