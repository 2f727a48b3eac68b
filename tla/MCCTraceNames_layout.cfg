CONSTANTS
  Strings <- MCStrings
  MaxCats = 3
  SizeBits = 8
  NDEBUG = FALSE
  Contiguous = FALSE
  ABORT = ABORT
  NOQUERY = NOQUERY
SPECIFICATION Spec
INVARIANT LookupFindsFirstMatch
