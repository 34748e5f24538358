SPECIFICATION Spec
CONSTANTS
  MaxStarts = 2
  MaxFd = 10
  ToolKey = ToolKey
  LveKey = LveKey
  NULL = NULL
PROPERTY StreamsReassociated
CHECK_DEADLOCK FALSE
