SPECIFICATION Spec
CONSTANTS
  Sources = {"url"}
  Files <- WholeFile
  Served <- WholeFile
  NoFile = NoFile
  Shas = {NoFile}
  ChunksPerGiB = 2
  DownloadFaults = {"truncate"}
  DiskMayFault = FALSE
  MaxFaults = 1
  MaxEdits = 0
INVARIANTS
  ImageIsAServedFile
CHECK_DEADLOCK FALSE
