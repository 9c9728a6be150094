CONSTANTS
  Capacity = 2
  MaxAlerts = 1
  MaxFaults = 1
  MaxConns = 2
SPECIFICATION FairSpec
PROPERTIES ReconnectionIsServed
CHECK_DEADLOCK FALSE
