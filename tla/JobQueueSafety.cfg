\* One API job, two workers, one crash: redelivery, stale claims, late publishers.
SPECIFICATION Spec
CONSTANTS
  j1 = j1
  j2 = j2
  w1 = w1
  w2 = w2
  ApiJob <- OneJob
  ScheduledJob <- NoJob
  Worker <- TwoWorkers
  Outcomes <- FailOrComplete
  MaxAttempts = 2
  ClaimIdle = 1
  ReadCount = 2
  ReclaimCount = 2
  MaxMsg = 3
  MaxCrashes = 1
SYMMETRY WorkerSymmetry
INVARIANTS
  TypeOK
  UnattemptedJobIsCarried
  AttemptsAreDistinct
PROPERTIES
  FinishedNotRestarted
  OnlyLateMarksOrCrashesLose
CHECK_DEADLOCK FALSE
