CONSTANTS
  Drives = {d1, d2}
  Cancels = {c1}
  Steps = {s1}
  Turns = 2
  Faults = 2
SPECIFICATION FairSpec
INVARIANTS StepOnce
PROPERTIES EndStaysAlone RunEnds
