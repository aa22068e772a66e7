\* The resource manager takes its time.
SPECIFICATION Spec
CONSTANTS
  Shoots = {s1}
  MaxChanges = 1
  MaxCrashes = 0
  PromptGRM = FALSE
  FreshCache = TRUE
INVARIANT InstalledWhileRegistered
CHECK_DEADLOCK FALSE
