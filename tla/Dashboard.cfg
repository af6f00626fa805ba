\* Three rebuilds of the groups, the overview, the list: each beside sync runs.
SPECIFICATION Spec
CONSTANTS
  e1 = e1
  e2 = e2
  e3 = e3
  Conflict <- Conflicts
  Distance <- OnALine
  GroupThreshold = 1
  TypeOf <- Types
  Job <- Jobs
  MaxClock = 4
  Accepted <- TwoCounts
  Micros = 2
  Limit = 1
CONSTRAINTS
  OneClient
  Relevant
SYMMETRY JobSymmetry
INVARIANTS
  GroupsAreSound
  
  MissedShareAMilli
CHECK_DEADLOCK FALSE
