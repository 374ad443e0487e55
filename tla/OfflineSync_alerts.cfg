SPECIFICATION Spec
CONSTANTS
  q1 = q1
  q2 = q2
  x = x
  k = k
  Rules <- MCRules
  Tested <- MCTested
  Bases = {x}
  Keys = {k}
  MaxClock = 1
  Requests = {q1, q2}
  DedupWindow = 0
  Levels = 3
  MaxRequests = 2
  Devices = {device}
  Resolutions = {"accept_server", "force_local"}
  MaxBatches = 1
  MaxActions = 2
SYMMETRY Symmetry
CHECK_DEADLOCK FALSE
INVARIANTS TypeOK HistoryExact OneIncidentOneAlert CountersExact
PROPERTIES FieldWorkKept
