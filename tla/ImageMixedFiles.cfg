SPECIFICATION Spec
CONSTANTS
  Sources = {"url"}
  Files <- OtherZeroFiles
  Served <- OtherZeroFiles
  NoFile = NoFile
  Shas <- OtherZeroFiles
  ChunksPerGiB = 2
  DownloadFaults = {}
  DiskMayFault = FALSE
  MaxFaults = 1
  MaxEdits = 1
PROPERTIES
  VerifiedSnapshot
CHECK_DEADLOCK FALSE
