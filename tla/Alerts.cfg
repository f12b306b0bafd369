CONSTANTS
  a1 = a1
  s1 = s1
  s2 = s2
  j1 = j1
  a2 = a2
  a3 = a3
  s3 = s3
  j2 = j2
  j3 = j3
  j4 = j4
  j5 = j5
  NULL = NULL
SPECIFICATION AlertsSpec
SYMMETRY Alike
INVARIANTS LeaseKept FiringAnnounced EditsKept OncePerPeriod
CHECK_DEADLOCK FALSE
