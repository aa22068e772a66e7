\* Three calls with any inputs, one failure.
SPECIFICATION FairSpec
CONSTANTS
  Inputs <- MCInputs
  MaxCalls = 3
  MaxFails = 1
  PromptGRM = TRUE
INVARIANTS TypeOK SecretsResolve OnlyKnownLeftovers
PROPERTIES KeepsContract CallEnds
CHECK_DEADLOCK FALSE
