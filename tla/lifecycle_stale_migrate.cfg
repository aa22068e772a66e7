\* A migration handled with a copy older than the controller's last write.
SPECIFICATION Spec
CONSTANTS
  Parts = {p1}
  MaxTs = 4
  MaxLag = 5
  MaxFails = 1
  MaxCrashes = 0
  HastyOwner = TRUE
  StaleReads = TRUE
INVARIANT MigratedStaysUndeployed
CHECK_DEADLOCK FALSE
