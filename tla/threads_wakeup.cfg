CONSTANTS
  MaxConfigs = 2
  MaxSignals = 1
  Platforms = {"posix"}
SPECIFICATION Spec
INVARIANT ConfigWakesSampler
