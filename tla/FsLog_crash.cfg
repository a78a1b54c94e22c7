SPECIFICATION LogSpec
CONSTANTS
  NBUF = 4
  NoSector = NoSector
  Proc = {p1, p2}
  Boot = p1
  Nobody = Nobody
  NData = 6
  LOGSIZE = 4
  NLog = 5
  Trans <- AnyTrans
  Meta <- MetaBlocks
  Reads = {5}
  Faults = FALSE
INVARIANTS BuffersSound SleepersWillBeWoken
PROPERTIES DurableOnReturn KeepsAtomicity
