SPECIFICATION Spec
CONSTANTS
  q1 = q1
  q2 = q2
  q3 = q3
  Requests = {q1, q2, q3}
  MaxLimit = 2
  MaxDays = 3
SYMMETRY Symmetry
INVARIANTS TypeOK GrantsWithinLimit RenewedByMidnight
