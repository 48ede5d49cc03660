SPECIFICATION Spec
CONSTANTS
  Zero = "0"
  Byte = {"a", "b"}
  Junk = "junk"
  M = 8
  MinAlloc = 2
  Slack = 1
  Heaps = {"Com", "Virtual"}
  OutOfMemory = {"Virtual"}
  Counts <- MCCounts
  Moves <- MCMoves
  Texts <- MCTexts
  Buffers = {2}
  AnyRead = FALSE
INVARIANT LentMemoryIsBacked
