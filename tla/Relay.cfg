SPECIFICATION Spec
CONSTANTS
  HeardBucket <- MCBucket
  HeardBuckets = {1}
  MAX_HEARD_PER_CLIENT = 4
  lastposition_storetime = 3
  ValidityMargin = 1
  KeyBucket <- MCBucket
  KeyBuckets = {1}
  Starts <- MCStarts
  HIST_LOOKUP_INTERVAL = 1
  LookupGrace = 1
  Srv <- MCServer
  Clients0 <- MCClients
  Packets <- MCPackets
  Commands <- MCCommands
  heard_list_storetime = 1
  courtesy_list_storetime = 1
  filter_entrycall_maxage = 1
  filter_wx_maxage = 1
  MaxTick = 2
  MaxPackets = 3
  MaxCommands = 1
  MaxUpgrades = 1
  MaxQueue = 1
  QServer <- MCQServer
  QPeer <- MCQPeer
  QClients <- MCQClients
  QSrcs <- MCQSrcs
  QPaths <- MCQPaths
  ReturnLinks <- MCReturnLinks
  FilterClient <- MCFilterClient
  FilterLists <- MCFilterLists
  FilterPbufs <- MCFilterPbufs
  FilterEnv <- MCFilterEnv
INVARIANTS
  CacheFresh
  
  ReturnCut
  
  DecodedRight
PROPERTIES
  MessagesReachIgates
  CourtesyReaches
  OnlyInvited
  
CHECK_DEADLOCK FALSE
