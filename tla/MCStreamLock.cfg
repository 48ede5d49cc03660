CONSTANTS
  t1 = t1
  t2 = t2
  t3 = t3
  s1 = s1
  s2 = s2
  s3 = s3
  None = None
  Threads <- ThreeThreads
  Streams <- ThreeStreams
  Copies <- Downwards
  Rank <- Age
  MaxKept = 1
SPECIFICATION Spec
SYMMETRY Symmetry
INVARIANTS LockedWhileUsed OnlyFailuresKeep NoDeadlock
CHECK_DEADLOCK FALSE
