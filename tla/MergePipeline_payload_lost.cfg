\* Nothing fails: the workspace is merely not clean.
SPECIFICATION Spec
CONSTANTS
  MaxAttempts = 1
  MaxFaults = 0
INVARIANTS
  PayloadRetained
CHECK_DEADLOCK FALSE
