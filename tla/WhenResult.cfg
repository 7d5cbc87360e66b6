CONSTANTS
  N = 3
  MaxCalls = 3
SPECIFICATION FairSpec
INVARIANTS ResultFound ResumedOnce ResultsReturned ContextExclusive
PROPERTY CallsEnd
CHECK_DEADLOCK FALSE
