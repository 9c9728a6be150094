CONSTANTS
  Capacity = 2
  MaxAlerts = 3
  MaxFaults = 2
  MaxConns = 3
SPECIFICATION Spec
PROPERTIES RamKeepsBacklog
CHECK_DEADLOCK FALSE
