CONSTANTS
  Capacity = 2
  MaxAlerts = 4
  MaxFaults = 2
  MaxConns = 3
SPECIFICATION FairSpec
INVARIANTS TypeOK NoDuplicates OneInversionPerBrokenConnection
PROPERTIES LossNeedsBrokenPathOrOverflow OutageKeepsAlerts BacklogIsLogged ImplementsDelivery
