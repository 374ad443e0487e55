SPECIFICATION Spec
CONSTANTS
  s1 = s1
  s2 = s2
  q1 = q1
  q2 = q2
  Sites = {s1, s2}
  Requests = {q1, q2}
  Calls <- RaceCalls
  MinParticipants = 2
  MaxRounds = 2
  SharesReachBudget = TRUE
  MaxRows = 2
  MaxCount = 2
  MaxShares = 4
SYMMETRY Symmetry
VIEW View
INVARIANT SpendingIsCumulative
CHECK_DEADLOCK FALSE
