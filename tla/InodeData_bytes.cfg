CONSTANTS
  BSIZE = 2
  NDIRECT = 2
  NINODES = 3
  IPB = 2
  Size = 20
  LOGSIZE = 6
  Width = 4
  Image <- OneFile
  Byte = {1, 2}
SPECIFICATION Spec
CHECK_DEADLOCK FALSE
INVARIANTS DiskSound ReadsContent
PROPERTIES FilesAreBytes
