SPECIFICATION Spec
CONSTANTS
  Sources = {"url", "snapshot"}
  Files <- SameZeroFiles
  Served <- SameZeroFiles
  NoFile = NoFile
  Shas <- OldOrNone
  ChunksPerGiB = 2
  DownloadFaults = {"retry", "reject"}
  DiskMayFault = TRUE
  MaxFaults = 1
  MaxEdits = 2
INVARIANTS
  TypeOK
  ResourcesAreHeld
  IdRecordedAfterCleanup
  ImageIsAServedFile
PROPERTIES
  VerifiedSnapshot
  ObservedIsDone
  NeverForgotten
  ImplementsManaged
CHECK_DEADLOCK FALSE
