SPECIFICATION FairSpec
CONSTANTS
  Names = {"news", "water"}
  N = 2
  Requests <- Asked
  None = None
  MaxTokens = 2
  MaxCalls = 3
  MaxResets = 1
INVARIANTS TableInv WorkHasToken
PROPERTIES RestartKeepsTasks NoRunWaitsForever
CHECK_DEADLOCK FALSE
