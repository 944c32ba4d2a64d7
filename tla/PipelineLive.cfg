SPECIFICATION FairSpec
CONSTANTS
  MaxWorkers = 2
  Pseudo = 0
  Key = {"a"}
  Mangled <- NoMangling
  AllocMayFail = FALSE
  LocalLogins = FALSE
  SeqSpace = 16
  SeqStart = 14
  NoData = 7
  StoreTime = 0
  Expiration = 0
  CountLimit <- KeepNone
  CleanupInterval = 1
  MaxInCore = 6
  MaxPackets = 2
  MaxTick = 0
  MaxReconf = 1
PROPERTIES
  PacketsGetThrough
  ReconfigurationEnds
