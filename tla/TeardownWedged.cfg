SPECIFICATION FairSpec
CONSTANTS
  Scenes <- OnlyByRef
  LateCreates = FALSE
CHECK_DEADLOCK FALSE
PROPERTIES
  EverythingGoes
