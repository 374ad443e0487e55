SPECIFICATION FairSpec
CONSTANTS
  r1 = r1
  r2 = r2
  w1 = w1
  w2 = w2
  Runs = {r1, r2}
  Workers = {w1, w2}
  MaxLostReplies = 1
  MaxRedeliveries = 1
  MaxCrashes = 1
CHECK_DEADLOCK FALSE
INVARIANTS TypeOK RowCoherent RunsOnce PendingIsOnItsWay BellAgrees
PROPERTIES EveryRunEnds ImplementsLifecycle
