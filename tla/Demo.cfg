\* A page, the edge and the container, with faults and clicks.
SPECIFICATION FairSpec
CONSTANTS
  c1 = c1
  c2 = c2
  s1 = s1
  ConflictId <- TwoConflicts
  Submit <- OneSubmit
  Jobs = 1
  MaxFaults = 1
  MaxClicks = 2
INVARIANTS
  EvidenceIsBootstrapped
  RecordedOnce
  PageFollowsRequests
PROPERTY Recovers
CHECK_DEADLOCK FALSE
