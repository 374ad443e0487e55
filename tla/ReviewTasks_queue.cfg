SPECIFICATION Spec
CONSTANTS
  t1 = t1
  t2 = t2
  a = a
  b = b
  q1 = q1
  q2 = q2
  Requests = {q1, q2}
  Tasks = {t1, t2}
  Reviewers = {a, b}
  Nobody = Nobody
  MaxRequests = 3
SYMMETRY Symmetry
CHECK_DEADLOCK FALSE
INVARIANTS TypeOK AssignedToSomeone ReviewsDecide
PROPERTIES FairShare NothingLeftBehind
