\* Three jobs, or one with its retries, two executions at a time.
CONSTANTS
  Execution = {e1, e2}
  Run = {"r1", "r2", "r3"}
  Conflict <- MCConflict
  Detects <- MCDetects
  Cutover <- MCCutover
  Threshold = 1
  MaxStarts = 3
  MaxFaults = 1
SPECIFICATION Spec
SYMMETRY Symmetry
CHECK_DEADLOCK FALSE
INVARIANTS
  EvidenceIsEvaluated
PROPERTIES
  OneTransition
  Resolution
  OnlyDuplicatesFail
