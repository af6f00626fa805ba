SPECIFICATION Spec
CONSTANTS
  r1 = r1
  r2 = r2
  f1 = f1
  f2 = f2
  f3 = f3
  f4 = f4
  Run <- TwoRuns
  Fingerprint <- FourCalls
  MaxDay = 1
  Estimate = 3
  Costs <- ReportedCosts
  Configs <- TwoConfigs
SYMMETRY RunAndCallSymmetry
INVARIANTS
  Balanced
  CallsWithinCaps
PROPERTIES
  ChargedOnce
CHECK_DEADLOCK FALSE
