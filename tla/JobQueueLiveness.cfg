\* One job that the API and the schedule may both create, and one worker that may
\* crash once.
SPECIFICATION FairSpec
CONSTANTS
  j1 = j1
  j2 = j2
  w1 = w1
  w2 = w2
  ApiJob <- OneJob
  ScheduledJob <- OneJob
  Worker <- OneWorker
  Outcomes <- AllOutcomes
  MaxAttempts = 2
  ClaimIdle = 1
  ReadCount = 2
  ReclaimCount = 1
  MaxMsg = 6
  MaxCrashes = 1
PROPERTIES
  EveryJobIsAttempted
  
CHECK_DEADLOCK FALSE
