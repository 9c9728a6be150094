CONSTANTS
  MaxEdits = 2
  MaxFaults = 1
  Storages = {"file"}
  Unusable = {}
SPECIFICATION FairSpec
PROPERTIES OfflineConfigKept
