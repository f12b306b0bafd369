CONSTANTS
  r1 = r1
  NULL = NULL
  Requests = {r1}
  Needed <- TwoReviewers
  Waivable = {r1}
  Length <- Script
  Writes = {r1}
  Reviewers = {bob, eve}
  Calls = {c1}
  Jobs = {j1, j2}
  Breaks = {"call", "worker", "handler"}
SPECIFICATION FairSpec
INVARIANTS RunsReviewed RunsOnce RevokedRunsNothing FrozenRunsNothing OutcomeTold
PROPERTIES OutcomeStays Answered
CHECK_DEADLOCK FALSE
