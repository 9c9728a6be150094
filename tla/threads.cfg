CONSTANTS
  MaxConfigs = 2
  MaxSignals = 2
  Platforms = {"posix", "windows"}
SPECIFICATION FairSpec
INVARIANTS TypeOK NoUpdateWipedOut NoThreadOutlivesAgent AbortNeedsWindow
PROPERTIES ConfigIsSampledWith SignalEndsProcess
