CONSTANTS
  Pids = {p1, p2}
  Cpus = {c1, c2}
  MaxEntries = 1
  MaxMoves = 3
  MaxLives = 3
SPECIFICATION FairSpec
PROPERTIES DeadLeaveMap
