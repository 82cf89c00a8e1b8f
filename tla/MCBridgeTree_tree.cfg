SPECIFICATION Spec
CONSTANTS
  Topologies <- AllTopologies
  MaxScans = 2
  MaxBus = 4
CHECK_DEADLOCK FALSE
INVARIANTS
  TypeOK
  HubSeenExactly
  HangsBelowItsParent
