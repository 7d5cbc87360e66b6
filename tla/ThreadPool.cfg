CONSTANTS
  N = 2
  Enqueuers = {c1}
  Closers = {c2}
  MaxTasks = 3
SPECIFICATION FairSpec
INVARIANTS
  TypeOK
  AssertionsHold
  TasksConserved
  IdleWorkersCounted
PROPERTIES
  ImplementsExecutor
  TasksPickedUp
  ShutdownReturns
CHECK_DEADLOCK FALSE
