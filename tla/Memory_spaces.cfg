SPECIFICATION RunSpec
CONSTANTS
  NUM_IDS = 6
  MAX_CHILDREN = 2
  Word = 64
  MaxPages = 10
  MaxAddr = 22
  PAGESIZE = 2
  VM_USERLO_PI = 1
  VM_USERHI_PI = 11
  MaxEntries = 3
  Bases = {0, 2, 3, 7, 8}
  Lengths = {1, 4, 14}
  Types = {"RAM", "RESERVED"}
  MEM_RAM = "RAM"
  PDES = 2
  BootMaps <- HoleMaps
  Idle <- SmallIdle
  Images <- SmallImages
  Quotas = {2, 4, 7}
  Value = {0, 1}
  StoreAt = {1, 7}
  CopyAt <- TwoBuffers
CHECK_DEADLOCK FALSE
INVARIANTS  PagesOwned QuotasKept
PROPERTIES SpacesPrivate 
