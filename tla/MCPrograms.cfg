CONSTANTS
  K = 3
  Near = 13
  Depth = 15
  Searches <- MCSearches
  None = None
SPECIFICATION PartsSpec
INVARIANT ProgramsRight
PROPERTY TransfersEnd

CHECK_DEADLOCK FALSE
