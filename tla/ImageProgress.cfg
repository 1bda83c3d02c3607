SPECIFICATION FairSpec
CONSTANTS
  Sources = {"url", "snapshot"}
  Files <- SameZeroFiles
  Served <- OneFile
  NoFile = NoFile
  Shas <- BothFiles
  ChunksPerGiB = 2
  DownloadFaults = {"retry"}
  DiskMayFault = FALSE
  MaxFaults = 2
  MaxEdits = 1
PROPERTIES
  ImportFinishes
CHECK_DEADLOCK FALSE
