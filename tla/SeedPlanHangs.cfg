CONSTANTS
  TableCount = 3
  MaxWidth = 2
  MaxColumns = 4
SPECIFICATION Spec

PROPERTIES CyclesAnswered
CHECK_DEADLOCK FALSE
