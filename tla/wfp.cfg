CONSTANTS
  Flows = {f1, f2}
  Cpus = {c1, c2}
  Pids = {p1}
SPECIFICATION Spec
INVARIANTS TypeOK ContextsOwned StopIsClean
PROPERTIES ContextsAreFreed
CHECK_DEADLOCK FALSE
