CONSTANTS
  Entries = {e1}
  Replicas = {here, there}
  Calls = {c1, c2}
  here = here
  c1 = c1
  Ttl = 1
  Lag = 1
  MaxClock = 3
  Pools = {p1, p2, p3, p4}
  Tunnels = {n1, n2}
  Tasks = {t1, t2}
  NULL = NULL
  Lines = {l1, l2, l3, l4, l5}
  Batch = 2
  MaxQueue = 2
  MaxAttempts = 2
  Flushes = {f1, f2, f3}
  NoFlush = NoFlush
  Term = 4
  Renew = 3
  MaxTime = 8
  None = None
  Collections = {k1, k2}
  Pushes = {g1, g2}
  MaxEdits = 3
  MaxLost = 1
  TableCount = 3
  MaxWidth = 2
  MaxColumns = 3
  Clients = {s1, s2}
  Plays = {g3}
  Presses = {b1, b2}
  Tabs = {x1, x2}
  MaxRuns = 3
  Requests = {q1, q2, q3}
  Paths = {v1, v2}
  Connections = {d1, d2}
  Deferred = {d2}
  MaxGeneration = 5
  MaxAsks = 2
SPECIFICATION PartsSpec
INVARIANTS PoolsTrue LinesAccounted NothingForgotten OrderedRightly MissingExplained
INVARIANTS PlaygroundUndone NothingLeaked SpinnersHeld OneOpen ShownIsOwn PanelTrue LockedOutIsTold
PROPERTIES RevocationHolds FreezeSeen LeaseLive PlanOfTheLast
CHECK_DEADLOCK FALSE
