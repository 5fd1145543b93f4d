SPECIFICATION Spec
CONSTANTS
  Hosts <- MCHosts
  Stores <- MCStores
  LibraryOps <- MCLibraryOps
INVARIANTS
  TypeOK
  ReadReplayedOnce
  ReportedIsSaved
  DroppedStaysDropped
  SoundAuthenticated
PROPERTIES
  CallsEnd
