SPECIFICATION Spec
CONSTANTS
  MaxWorkers = 1
  Pseudo = 0
  Key = {"spaced", "trimmed"}
  Mangled <- Trimming
  AllocMayFail = TRUE
  LocalLogins = FALSE
  SeqSpace = 16
  SeqStart = 14
  NoData = 7
  StoreTime = 1
  Expiration = 1
  CountLimit <- KeepOne
  CleanupInterval = 1
  MaxInCore = 6
  MaxPackets = 3
  MaxTick = 2
  MaxReconf = 0
INVARIANTS
  UniqueSpacing
  DupeHasOriginal
