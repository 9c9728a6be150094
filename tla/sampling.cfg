CONSTANTS
  Pids = {"p1"}
  Conns = {"c1", "c2"}
  Limit = 1
  MaxUsed = 3
  MaxLives = 2
SPECIFICATION Spec
INVARIANT TypeOK
PROPERTIES FalseAlertNeedsFailedRead MissedAlertHasCause
CHECK_DEADLOCK FALSE
