SPECIFICATION Spec
CONSTANTS
  Bytes = {0, 1}
  MaxLength = 7
  BlockSizes = {1, 2, 4}
  ChunkSize = 4
  Gib = 4
CHECK_DEADLOCK FALSE
INVARIANTS
  TypeOK
  DiskIsBody
  WritesFit
