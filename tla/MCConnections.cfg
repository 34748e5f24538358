SPECIFICATION FairSpec
CONSTANTS
  MaxStarts = 2
  MaxFd = 10
  ToolKey = ToolKey
  LveKey = LveKey
  NULL = NULL
INVARIANTS
  ConnectionsTypeOK
  OwnEnds
PROPERTIES
  StartCosts
  StartReturns
  LvesEnd
CHECK_DEADLOCK FALSE
