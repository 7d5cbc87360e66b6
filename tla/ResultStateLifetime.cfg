CONSTANTS
  Values = {v1, v2}
  Exceptions = {e1, broken}
  BrokenTask = broken
  NoOutcome = none
SPECIFICATION Spec
INVARIANT ConsumerContextProtected
