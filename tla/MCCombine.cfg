SPECIFICATION Spec
CHECK_DEADLOCK FALSE
CONSTANTS
  Names <- MCNames
  Related <- MCRelated
  Sources <- MCSources
  MaxFailures = 2
  Failures = {"Load", "GetAttachments", "Bind", "Text", "AppendText", "Name", "Create", "BindPart", "Query", "Data", "Attach", "Properties"}
INVARIANTS
  NoPartTwice
  LostOnlyOnFailure
  JoinedByName
  RelatedAreJoined
