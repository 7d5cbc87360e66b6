CONSTANTS
  N = 2
  Enqueuers = {c1}
  Closers = {c2}
  MaxTasks = 3
SPECIFICATION Spec
INVARIANT ExitsGracefully
CHECK_DEADLOCK FALSE
