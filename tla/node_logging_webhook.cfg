\* Another shoot of the seed, without node logging.
SPECIFICATION Spec
CONSTANTS
  Shoots = {s1, s2}
  MaxChanges = 0
  MaxCrashes = 0
  PromptGRM = TRUE
  FreshCache = TRUE
INVARIANT NodeLoggingInstalled
CHECK_DEADLOCK FALSE
