CONSTANTS
  Paths = {v1, v2}
  MaxRuns = 2
  NULL = NULL
SPECIFICATION Spec
INVARIANTS SwappedToAccount
CHECK_DEADLOCK FALSE
