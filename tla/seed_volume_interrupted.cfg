\* One failure is enough.
SPECIFICATION FairSpec
CONSTANTS
  Sizes = {1, 2}
  MaxLag = 2
  MaxFails = 1
  MaxUpgrades = 0
PROPERTY ResizeCompletes
CHECK_DEADLOCK FALSE
