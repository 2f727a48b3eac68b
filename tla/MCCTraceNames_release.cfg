CONSTANTS
  Strings <- MCStrings
  MaxCats = 3
  SizeBits = 8
  NDEBUG = TRUE
  Contiguous = TRUE
  ABORT = ABORT
  NOQUERY = NOQUERY
SPECIFICATION Spec
INVARIANT ResultNamesQuery
