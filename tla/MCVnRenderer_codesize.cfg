CONSTANTS
  NULL = NULL
  UNINIT = UNINIT
  NONE = NONE
  DriverVals <- MCDriverVals
  Registry <- MCRegistry
  Inputs <- ShaderInputs
  ArenaCap = 2
SPECIFICATION Spec
INVARIANT
  CodeCoversCodeSize
