\* Two shoots, each with or without node logging, one change and one crash.
SPECIFICATION FairSpec
CONSTANTS
  Shoots = {s1, s2}
  MaxChanges = 1
  MaxCrashes = 1
  PromptGRM = TRUE
  FreshCache = TRUE
INVARIANTS TypeOK InstalledWhileRegistered FilesNotNewer OnlyOwnConfiguration
PROPERTIES ConfigurationArrives Unblocked
CHECK_DEADLOCK FALSE
