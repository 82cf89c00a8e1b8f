SPECIFICATION Spec
CONSTANTS
  NumPorts = 2
  Threshold = 2
  Foreign = {}
  BitPort <- SharedSwitch
  MaxFaults = 0
  MaxRemovals = 0

PROPERTIES
  BouncesNamedPort
