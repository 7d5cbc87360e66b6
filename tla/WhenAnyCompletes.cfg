CONSTANTS
  N = 2
  MaxCalls = 1
SPECIFICATION FairSpec
PROPERTY WhenAnyCompletes
CHECK_DEADLOCK FALSE
