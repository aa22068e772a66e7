\* The owner's wait, while the controller reads its own writes.
SPECIFICATION Spec
CONSTANTS
  Parts = {p1}
  MaxTs = 3
  MaxLag = 3
  MaxFails = 1
  MaxCrashes = 0
  HastyOwner = FALSE
  StaleReads = FALSE
INVARIANT ReadyMeansApplied
CHECK_DEADLOCK FALSE
