CONSTANTS
  MaxThreads = 2
  MaxTasks = 2
  MaxCount = 2
  Loopers = {0, 1}
  MaxCalls = 1
SPECIFICATION FairSpec
INVARIANTS QuiescentWhenDestroyed ThreadsJoined
PROPERTIES ImplementsExecutor CallsReturn
CHECK_DEADLOCK FALSE
