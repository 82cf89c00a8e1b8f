SPECIFICATION Spec
CONSTANTS
  Positions = {1, 2}
  ExtStart = 3
  ExtPositions = {3, 4}
  Ids = {"exp", "pm"}
  Exp = "exp"
  ExtIds = {"acs"}
  Requests <- SomeRequests
  Targets = {0, 1}
  MaxNodes = 6
CHECK_DEADLOCK FALSE
INVARIANTS
  TypeOK
  ListStandsForChain
  FindsFirstOfChain
