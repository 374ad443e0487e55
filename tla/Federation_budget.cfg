SPECIFICATION Spec
CONSTANTS
  s1 = s1
  s2 = s2
  q1 = q1
  q2 = q2
  Sites = {s1, s2}
  Requests = {q1}
  Calls <- BudgetCalls
  MinParticipants = 2
  MaxRounds = 10
  SharesReachBudget = FALSE
  MaxRows = 2
  MaxCount = 5
  MaxShares = 10
SYMMETRY Symmetry
VIEW View
PROPERTY NoRoundPastBudget
CHECK_DEADLOCK FALSE
