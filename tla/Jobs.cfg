SPECIFICATION FairSpec
CONSTANTS
  m1 = m1
  m2 = m2
  Rotation <- MCRotation
  Limit = 1
  MaxRecords = 1
  MaxCalls = 1
  NodeIds = {i1, i2}
  MaxStarts = 2
  MaxOutages = 1
CHECK_DEADLOCK FALSE
INVARIANTS
  TypeOK
  RowsRunOnce
PROPERTIES
  PendingIsReplayed
  SupervisorKnowsNode
