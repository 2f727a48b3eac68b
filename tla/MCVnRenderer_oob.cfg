CONSTANTS
  NULL = NULL
  UNINIT = UNINIT
  NONE = NONE
  DriverVals <- MCDriverVals
  Registry <- MCRegistry
  Inputs <- HostileInputs
  ArenaCap = 3
SPECIFICATION Spec
INVARIANT
  ReplaceInBounds
