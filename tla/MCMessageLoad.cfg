CONSTANTS
  Messages <- MCMessages
  Failures = {"Temporary", "Source", "Record", "Headers", "CreateStream",
              "SetSize", "Memory", "Decode", "Name", "Write", "Attach",
              "Mark", "Combine", "Whole"}
  MaxLines = 4
  MaxPieces = 4
SPECIFICATION Spec
INVARIANTS NothingIsLost AllOrNothing MarkedIffDecoded BlocksAsWritten
PROPERTY Returns
CHECK_DEADLOCK FALSE
