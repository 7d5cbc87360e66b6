CONSTANTS
  Producers = {p1, p2}
  Consumers = {c1, c2}
  Nobody = nobody
SPECIFICATION FairSpec
INVARIANTS
  TypeOK
  MutualExclusion
  HandOff
  AwaitersSuspended
PROPERTIES
  ConsumersServed
