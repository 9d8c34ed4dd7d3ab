SPECIFICATION Working
CONSTANTS
  N = 2
  Chains <- TwoChains
  Outcomes <- Few
  Budget = 2
  MaxAttempts = 2
  MaxRestarts = 1
PROPERTIES
  ArtifactsEnd
CHECK_DEADLOCK FALSE
