\* Two executions of init, of three releases, beside sync runs and their retries.
SPECIFICATION Spec
CONSTANTS
  i1 = i1
  i2 = i2
  r1 = r1
  r2 = r2
  Process <- Inits
  Release <- Releases
  Generations = 2
  BatchSize = 1
  Tenant <- Tenants
  Run <- Runs
  RetryLimit = 1
  MaxStarts = 2
CONSTRAINT OneAtATime
SYMMETRY Symmetry
INVARIANTS
  SchemaIsRecorded
  LoadsReplace
  ReadsAreWhole
  MirrorIsEvaluated
 
CHECK_DEADLOCK FALSE
