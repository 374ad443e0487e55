SPECIFICATION Spec
CONSTANTS
  s1 = s1
  s2 = s2
  q1 = q1
  q2 = q2
  Sites = {s1, s2}
  Requests = {q1, q2}
  Calls <- TrainingCalls
  MinParticipants = 1
  MaxRounds = 2
  SharesReachBudget = TRUE
  MaxRows = 1
  MaxCount = 1
  MaxShares = 2
SYMMETRY SameRequests
VIEW View
INVARIANTS TypeOK RoundsContiguous NoDoubleSubmission RoundRowConsistent ModelFromCompletedRound
PROPERTY ImplementsLedger
CHECK_DEADLOCK FALSE
