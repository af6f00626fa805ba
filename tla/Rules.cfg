\* Every order in which these records can stand in the sources.
CONSTANTS
  Student <- MCStudent
  Enrollment <- MCEnrollment
  Contact <- MCContact
  Deal <- MCDeal
  Payment <- MCPayment
  None = "none"
  Canonical <- MCCanonical
  Most <- MCMost
  Sorted <- MCSorted
SPECIFICATION Spec
CHECK_DEADLOCK FALSE
INVARIANTS
  KeysAreDistinct
  OrderMattersOnlyForDoubles
  AppliedRecordsAreLinked
  EntitiesAgreeWithConflicts
  ResultsCoverConflicts
PROPERTIES
  NeverRelinked
  OnlyC14Guesses
