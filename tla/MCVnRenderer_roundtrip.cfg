CONSTANTS
  NULL = NULL
  UNINIT = UNINIT
  NONE = NONE
  DriverVals <- MCDriverVals
  Registry <- MCRegistry
  Inputs <- AllInputs
  ArenaCap = 2
SPECIFICATION Spec
INVARIANTS
  TypeOK
  DecodeMatchesGuest
  ExecutedArgsResolved
  ReplyMatchesQuery
