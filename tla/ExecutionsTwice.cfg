CONSTANTS
  r1 = r1
  NULL = NULL
  Requests = {r1}
  Needed <- OneReviewer
  Waivable = {}
  Length <- Single
  Writes = {r1}
  Reviewers = {bob, eve}
  Calls = {c1, c2}
  Jobs = {j1, j2}
  Breaks = {}
SPECIFICATION Spec
INVARIANTS RunsOnce
CHECK_DEADLOCK FALSE
