SPECIFICATION Spec
CONSTANTS
  Actors = {alice, bob}
  NoActor = NoActor
  Requests = {r1, r2}
  MaxRevisions = 1
SYMMETRY Symmetry
INVARIANT
  SettlesCurrent
CHECK_DEADLOCK FALSE
