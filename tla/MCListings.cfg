SPECIFICATION Spec
CONSTANTS
  Row = {1, 2, 3, 4, 5, 6}
  Limit = 2
  MaxChanges = 3
INVARIANTS ListingTypeOK MissedExplained RepeatsExplained ListingIInv
CHECK_DEADLOCK FALSE
