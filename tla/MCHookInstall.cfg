SPECIFICATION Spec
CHECK_DEADLOCK FALSE
CONSTANTS
  CHAR_MAX = 1
  SHRT_MAX = 3
  LONG_MAX = 7
  SIZE_T = 1024
  Hooks <- MCHooks
  Misread <- MCMisread
  Distances <- MCDistances
  Threads = {t1}
  Failures = {"GetModuleHandle", "UnprotectGate", "RestoreGate", "UnprotectSource", "RestoreSource"}
INVARIANTS
  TypeOK
  EntireInstructions
  SameFunction
  HookNeverDangles
  LaterCallsAreSafe
  EveryLaterCallIsHooked
  GateIsNotOverrun
