\* Two executions, retries of the same job included, two conflicts and two lanes.
SPECIFICATION FairSpec
CONSTANTS
  e1 = e1
  e2 = e2
  r1 = r1
  r2 = r2
  f1 = f1
  f2 = f2
  f3 = f3
  Execution <- TwoExecutions
  Run <- OneRun
  Fingerprint <- TwoCalls
  Concurrency = 2
  MaxDay = 1
  Estimate = 3
  Costs <- ReportedCosts
  Configs <- TwoConfigs
  MaxFaults = 1
INVARIANTS
  CallsArePaidOnce
  OverlapNeedsRejection
PROPERTIES
  OnlyRejectionsDrop
  LockIsReleased
CHECK_DEADLOCK FALSE
