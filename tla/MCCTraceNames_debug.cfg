CONSTANTS
  Strings <- MCStrings
  MaxCats = 3
  SizeBits = 8
  NDEBUG = FALSE
  Contiguous = TRUE
  ABORT = ABORT
  NOQUERY = NOQUERY
SPECIFICATION Spec
INVARIANTS
  LookupFindsFirstMatch
  ResultNamesQuery
