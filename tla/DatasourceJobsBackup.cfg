SPECIFICATION Spec
CONSTANTS
  Kind = "backup"
  Requests = {r1, r2}
INVARIANT OneOpen
CHECK_DEADLOCK FALSE
