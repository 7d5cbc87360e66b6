CONSTANTS
  N = 2
  Enqueuers = {c1}
  Closers = {}
  MaxTasks = 2
SPECIFICATION FairSpec
PROPERTY EnqueuedTaskLeavesQueue
CHECK_DEADLOCK FALSE
