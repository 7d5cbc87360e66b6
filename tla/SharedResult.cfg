CONSTANTS
  Consumers = {c1, c2, c3}
  Values = {v}
  Exceptions = {e}
  NoOutcome = none
SPECIFICATION FairSpec
INVARIANTS
  TypeOK
  AwaitersSuspended
PROPERTIES
  ImplementsFuture
  ConsumersReleased
CHECK_DEADLOCK FALSE
