SPECIFICATION Spec
CONSTANTS
  Thread = {t1, t2, t3}
  MaxAsk = 2
  CELLBLOCKS_MAX = 2
  createsize = 7
  Sizes <- MCSizes
  MaxMany = 3
  Worker = {w1, w2}
  Buf <- MCBuf
  Size <- MCSize
  Lens <- MCLens
  PACKETLEN_MAX_SMALL = 2
  PACKETLEN_MAX_MEDIUM = 4
  PACKETLEN_MAX_LARGE = 6
  Bunch = 2
  HistoryCellSize = 7
  Key = {"A", "B", "O"}
  ObjectKey = {"O"}
  HashOf <- MCHashOf
  HashBuckets = {1, 2}
  storetime = 2
  Margin = 1
  MaxNow = 4
  UseTime = 1
INVARIANTS
  WriterAlone
  NoLostWakeup
  CellsApart
  
  LookupStands
PROPERTIES
  ArenaIsPool
  WaiterServed
CHECK_DEADLOCK FALSE
