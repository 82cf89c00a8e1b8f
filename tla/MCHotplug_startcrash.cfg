SPECIFICATION Spec
CONSTANTS
  NumPorts = 1
  Threshold = 2
  Foreign = {}
  BitPort <- OwnSwitch
  MaxFaults = 0
  MaxRemovals = 0

PROPERTIES
  StartsWithCardPresent
