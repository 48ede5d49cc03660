CONSTANTS
  UINT_MAX = 31
  USHRT_MAX = 7
  UCHAR_MAX = 3
  MAX_PATH = 12
  Length <- MCLength
  TagsIn <- MCTagsIn
  Unknown <- MCUnknown
  Names <- MCNames
  Comps <- MCComps
  Blocks <- MCBlocks
  Subjects <- MCSubjects
  Checksums = {0, 1, 2}
  MV_LINEMIN = 2
  MV_LINEMAX = 4
  MV_OFFSET = 1
  MV_DEFAULT = MV_DEFAULT
  MinStream = 2
SPECIFICATION Spec
INVARIANTS
  TypeOK
  
  StreamIsBounded
  DamageShowsInTheName
  PartsAreJoined
  StoredAttributesReadBack
CHECK_DEADLOCK FALSE
