\* Two sizes, a failure and an upgrade, a claim deleted and made anew behind the cache;
\* two ConfigMaps, there or not, and a change of one of them or of the shoot-info.
SPECIFICATION SeedFairSpec
CONSTANTS
  Sizes = {1, 2}
  MaxLag = 2
  MaxFails = 1
  MaxUpgrades = 1
  Names = {1, 2}
  Contents <- MCContents
  Hours = {23}
  HvpaEnabled = TRUE
  EventLogging = TRUE
  MaxChanges = 1
INVARIANTS TypeOK SeedInv OnlyKnownFilters
PROPERTIES ChangedOnlyDetached DroppedOnlyToShrink OnlyUpgradeRepairs RunsOrInterrupted
PROPERTIES NoIdleChange ConfigurationApplied
CHECK_DEADLOCK FALSE
