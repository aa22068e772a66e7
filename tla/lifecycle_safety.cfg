\* Stale reads of the cache; the owner migrates a quiet resource.
SPECIFICATION Spec
CONSTANTS
  Parts = {p1, p2}
  MaxTs = 3
  MaxLag = 4
  MaxFails = 1
  MaxCrashes = 1
  HastyOwner = FALSE
  StaleReads = TRUE
SYMMETRY PartsSymmetry
INVARIANTS TypeOK NoOrphans IInv
PROPERTY KeepsPromise
CHECK_DEADLOCK FALSE
