CONSTANTS
  J1 = J1
  J2 = J2
  Jails <- MCJails
  MaxProcs = 2
  MaxCalls = 5
  ExitCodes <- MCExitCodes
  ExtSignals <- MCExtSignals
  HookChoices <- MCHookChoices
  SeccompChoices <- MCSeccompChoices
  MountChoices <- MCMountChoices
SPECIFICATION Spec
INVARIANTS
  StatusReportedOnce
PROPERTIES
  KillReturns
CHECK_DEADLOCK FALSE
