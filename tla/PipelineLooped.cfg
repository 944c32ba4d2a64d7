SPECIFICATION Spec
CONSTANTS
  MaxWorkers = 1
  Pseudo = 0
  Key = {"a"}
  Mangled <- NoMangling
  AllocMayFail = FALSE
  LocalLogins = TRUE
  SeqSpace = 16
  SeqStart = 14
  NoData = 7
  StoreTime = 1
  Expiration = 1
  CountLimit <- KeepNone
  CleanupInterval = 1
  MaxInCore = 6
  MaxPackets = 2
  MaxTick = 0
  MaxReconf = 0
INVARIANTS
  DupeOriginalWasSent
