CONSTANTS
  Enqueuers = {c1, c2}
  Closers = {c3}
  MaxTasks = 4
SPECIFICATION FairSpec
INVARIANTS
  ExecutedInOrder
PROPERTIES
  ImplementsExecutor
  TasksLeaveQueue
CHECK_DEADLOCK FALSE
