CONSTANTS
  MaxEdits = 3
  MaxFaults = 3
  Storages = {"file", "registry"}
  Unusable = {2}
SPECIFICATION FairSpec
INVARIANTS TypeOK StaleOnlyByRace
PROPERTIES RunsForward FollowsRegister Converges
