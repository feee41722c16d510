SPECIFICATION Spec
CONSTANTS
  Sds = {0, 1, 2}
  IdleLimit = 1
  CidEnabled = FALSE
  MaxClockSets = 1
INVARIANTS
  RetryFindsSocket
