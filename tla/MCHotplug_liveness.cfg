SPECIFICATION Spec
CONSTANTS
  NumPorts = 2
  Threshold = 2
  Foreign = {2}
  BitPort <- OwnSwitch
  MaxFaults = 2
  MaxRemovals = 1

PROPERTIES
  Converges
  RepairsCease
  DisabledPortRecovers
