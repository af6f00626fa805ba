\* A reader turns the pages of a list whose rows were seen at the same time.
SPECIFICATION Spec
CONSTANTS
  e1 = e1
  e2 = e2
  e3 = e3
  Conflict <- Conflicts
  Distance <- OnALine
  GroupThreshold = 1
  TypeOf <- Types
  Job <- Jobs
  MaxClock = 4
  Accepted <- TwoCounts
  Micros = 2
  Limit = 1
CONSTRAINTS
  OneClient
  Relevant
INVARIANT PagesCoverTheList
CHECK_DEADLOCK FALSE
