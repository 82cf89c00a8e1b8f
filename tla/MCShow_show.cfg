SPECIFICATION Spec
CONSTANTS
  Builds = {TRUE, FALSE}
  StdPositions = {64, 252}
  ExtPositions = {252, 4092}
  ConfigSize = 4096
  ExpTypes <- Types
  Common <- CommonIds
  MaxRare = 1
  EaLists <- Entries
  VendorLengths = {15, 16, 20}
  Counts = {0, 1, 6}
CHECK_DEADLOCK FALSE
INVARIANTS
  TypeOK
  PrintersStayInBounds
  EachCapabilityOnce
  CacheIsLiveWhenUsed
PROPERTIES
  CommandWriteUndoesOnlyRaces
  ShowEnds
