SPECIFICATION Spec
CONSTANTS
  Number <- HexNumber
  SlotStrings <- SomeSlotStrings
  IdStrings <- SomeIdStrings
  Devices <- SomeDevices
  Filters <- SomeFilters
  Requests <- SomeRequests
  Topologies <- SomeTopologies
  Roots <- SomeRoots
  BarLists <- SomeBarLists
  Hex32 <- Word32
  Register <- SomeRegisters
  OpStrings <- SomeOpStrings
  Operations <- SomeOperations
  CommandLines <- SomeCommandLines
  Targets <- SomeTargets
  Memory <- SomeMemory
  Maps <- SomeMaps
  MapFilters <- SomeMapFilters
  LastBus = 2
  VpdImages <- SomeVpdImages
  VpdMask = 319
CHECK_DEADLOCK FALSE
INVARIANTS
  FiltersSelectAsTold
  TransfersAreExact
  GenericScanIsExact
  OperationsDoAsTold
  OpsFollowSyntax
  MapIsForest
  VpdSumIsRight
