SPECIFICATION FairSpec
CONSTANTS
  Scenes <- AllScenes
  LateCreates = FALSE
CHECK_DEADLOCK FALSE
INVARIANTS
  TypeOK
  NothingLeftBehind
  ReadyIsUsable
  ConnectionOutlivesUsers
PROPERTIES
  ProtectedStays
  ImplementsManaged
  RecordedGoes
  ComesUp
