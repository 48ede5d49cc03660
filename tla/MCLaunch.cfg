SPECIFICATION Spec
CHECK_DEADLOCK FALSE
CONSTANTS
  Requests <- MCRequests
  Failures <- MCFailures
  MaxPrompts = 2
INVARIANTS
  NoErrorMeansDone
  KeptOnlyWithTheDll
  LoadedIsNotKilled
  NeverRunsFreedMemory
  NeverWaitsInVain
PROPERTIES
  LoaderEnds
  RoutineCleansUp
