CONSTANTS
  NULL = NULL
  UNINIT = UNINIT
  Registry = {}
  Tokens <- MCTokens
  MaxLen = 0
  MaxLinks = 3
SPECIFICATION Spec
CHECK_DEADLOCK FALSE
INVARIANT
  EncodeTruncatesAtUnknown
