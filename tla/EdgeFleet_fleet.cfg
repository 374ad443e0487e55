SPECIFICATION Spec
CONSTANTS
  d1 = d1
  d2 = d2
  q1 = q1
  q2 = q2
  Devices = {d1, d2}
  Requests = {q1, q2}
  Retained = 1
  OfflineAfter = 1
  MaxClock = 2
  MaxRequests = 5
SYMMETRY Symmetry
CHECK_DEADLOCK FALSE
INVARIANTS TypeOK MetricsBounded RowsAgree
PROPERTY ConfigIsCurrent
