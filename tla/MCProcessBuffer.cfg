CONSTANTS
  ByteCount = 12
  CR = 1
  LF = 2
  Eq = 3
  YChar = 8
  MV_ESCAPE = 3
  MV_OFFSET = 5
  MV_ESCOFF = 4
  MK_YEND <- MCYEnd
  MK_SIZE <- MCSize
  TrailerTag <- MCTrailerTag
  W = 5
  Calls <- MCCalls
  Default = Default
  MaxBody = 4
  MaxPayload = 3
  Payloads <- MCPayloads
  LineLengths = {1, 2}
  Encoders <- MCEncoders
  EndLine <- MCEndLine
  Behind <- MCBehind
  Spare = {0, 17}
SPECIFICATION Spec
INVARIANTS
  KeepsToTheBlock
  DecodesTheBlock
  RoundTrip
  TagsAreFound
PROPERTY Returns
CHECK_DEADLOCK FALSE
