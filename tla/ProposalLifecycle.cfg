SPECIFICATION Spec
CONSTANTS
  c1 = c1
  c2 = c2
  v1 = v1
  v2 = v2
  a1 = a1
  a2 = a2
  Conflict <- TwoConflicts
  Applicable <- FirstConflict
  Reviewer <- TwoReviewers
  Applier <- TwoAppliers
  Threshold = 1
SYMMETRY ActorSymmetry
INVARIANTS
  RowsAreSound
PROPERTIES
  DecidedAsShown
  ImplementsReviewLog
CHECK_DEADLOCK FALSE
