SPECIFICATION HistorySpec
CONSTANTS
  NumPorts = 2
  Threshold = 2
  Foreign = {}
  BitPort <- OwnSwitch
  MaxFaults = 1
  MaxRemovals = 1
INVARIANTS
  HistoryTypeOK
  TimerRunsWhileIdle
  RepairsOnlyDeadPorts
  BounceRateLimited
PROPERTIES
  ImplementsLifecycle
