CONSTANTS
  Drives = {d1}
  Cancels = {c1}
  Steps = {s1}
  Turns = 1
  Faults = 0
SPECIFICATION Spec
PROPERTIES EndStays
