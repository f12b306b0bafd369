CONSTANTS
  w1 = w1  w2 = w2  a1 = a1  b1 = b1  j1 = j1  j2 = j2
  NULL = NULL
  Jobs = {j1, j2}
  MaxAttempts <- OnceAndTwice
  Reporting = {j1}
  Workers = {w1, w2}
  Passes = {a1, b1}
  Host <- OnePassEach
  Runs = {r1, r2, r3}
  Concurrency = 1
  LeaseTerm = 2
  Backoff = 1
  Retention = 1
  MaxLag = 1
  Prompt = TRUE
  MaxFaults = 2
SPECIFICATION Spec
INVARIANTS RunsInBounds AttemptsCountClaims
PROPERTIES LostForGood
