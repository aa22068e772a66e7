\* ManagedResources that are being deleted when the next call deploys them.
SPECIFICATION Spec
CONSTANTS
  Inputs <- MCInputs
  MaxCalls = 3
  MaxFails = 1
  PromptGRM = FALSE
PROPERTY KeepsContract
CHECK_DEADLOCK FALSE
