\* A reclaimed message acknowledged while its job still looks freshly started.
SPECIFICATION Spec
CONSTANTS
  j1 = j1
  j2 = j2
  w1 = w1
  w2 = w2
  ApiJob <- OneJob
  ScheduledJob <- NoJob
  Worker <- OneWorker
  Outcomes <- FailOrComplete
  MaxAttempts = 2
  ClaimIdle = 1
  ReadCount = 2
  ReclaimCount = 2
  MaxMsg = 3
  MaxCrashes = 1
INVARIANT RunningJobIsRecoverable
CHECK_DEADLOCK FALSE
