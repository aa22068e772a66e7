\* Two rotations; two switches, moves or removals; one failing call.
SPECIFICATION FairSpec
CONSTANTS
  MaxRotations = 2
  MaxChanges = 2
  MaxFails = 1
INVARIANTS TypeOK QuietMeansTrusted OneAuthorityUntilRotation OldKeyDropped
INVARIANTS NothingRemains
PROPERTIES TrustNeverLost TrustArrives Renewed
CHECK_DEADLOCK FALSE
