CONSTANTS
  Messages <- MCMessages
  Failures = {}
  MaxLines = 3
  MaxPieces = 3
SPECIFICATION Spec
INVARIANT BadBlocksAreAttached
CHECK_DEADLOCK FALSE
