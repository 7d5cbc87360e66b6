CONSTANTS
  Regular = {r}
  Oneshot = {}
  Delay = {d}
  Callers = {c1}
  Closer = closer
  NoTimer = none
  DueTimes = {1}
  MaxTime = 2
SPECIFICATION FairSpec
INVARIANTS
  TypeOK
  AssertionsHold
  WorkerPresent
  FiresOnTime
PROPERTIES
  TimersServed
  DelaysResume
CHECK_DEADLOCK FALSE
