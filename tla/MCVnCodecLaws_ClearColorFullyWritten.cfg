CONSTANTS
  NULL = NULL
  UNINIT = UNINIT
  Registry = {}
  Tokens <- MCTokens
  MaxLen = 4
  MaxLinks = 3
SPECIFICATION Spec
CHECK_DEADLOCK FALSE
INVARIANT
  ClearColorFullyWritten
