CONSTANTS
  MaxFds = 3
  MaxAlerts = 2
SPECIFICATION Spec
INVARIANTS TypeOK SafeWhileRunning NoSocketIsLost LateConnectOnce
PROPERTIES StopEnds
