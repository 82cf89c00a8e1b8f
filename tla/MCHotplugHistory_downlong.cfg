SPECIFICATION HistorySpec
CONSTANTS
  NumPorts = 1
  Threshold = 3
  Foreign = {}
  BitPort <- OwnSwitch
  MaxFaults = 0
  MaxRemovals = 0
INVARIANTS
  BouncedAfterOneSecondDown
