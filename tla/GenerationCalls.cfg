SPECIFICATION FairSpec
CONSTANTS
  Run = {r1, r2}
  Permits = 1
  MaxGenerations = 2
  StorageFaults = TRUE
INVARIANTS
  TypeOK
  CallHistory
  OneLateCall
PROPERTIES
  OperationsEnd
CHECK_DEADLOCK FALSE
