\* The controller reads its own writes; the owner writes at any time.
SPECIFICATION FairSpec
CONSTANTS
  Parts = {p1}
  MaxTs = 4
  MaxLag = 3
  MaxFails = 1
  MaxCrashes = 1
  HastyOwner = TRUE
  StaleReads = FALSE
INVARIANTS HeldInv QuietMeansApplied QuietMeansMigrated MigratedStaysUndeployed
PROPERTIES DeletionCompletes MigrationCompletes RequestHonoured
CHECK_DEADLOCK FALSE
