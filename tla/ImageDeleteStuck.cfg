SPECIFICATION FairSpec
CONSTANTS
  Sources = {"url"}
  Files <- SameZeroFiles
  Served <- OneFile
  NoFile = NoFile
  Shas <- OldOrNone
  ChunksPerGiB = 2
  DownloadFaults = {}
  DiskMayFault = FALSE
  MaxFaults = 0
  MaxEdits = 1
PROPERTIES
  DeletionFinishes
CHECK_DEADLOCK FALSE
