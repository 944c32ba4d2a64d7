SPECIFICATION Spec
CONSTANTS
  Line <- MCLine
  Ping <- MCPing
  EOL = 0
  Hash = 2
  Byte = {0, 1, 2}
  obuf_size = 3
  obuf_writes_threshold = 1
  obuf_writes_threshold_hys = 1
  keepalive_interval = 2
  KEEPALIVE_POLL_FREQ = 1
  sock_write_expire = 3
  client_login_timeout = 2
  client_timeout = 2
  upstream_timeout = 2
  Kinds <- MCKinds
  ibuf_size = 5
  MaxStream = 7
  Fd = {1, 2, 3}
  SCell = {1, 2, 3}
  SFd = {1, 2, 3}
  User = {"A", "B"}
  UserHash <- MCUserHash
  Scenarios <- MCScenarios
  MaxFeeds = 3
  UplinkCell = {1, 2, 3}
  UplinkConfigs <- MCUplinks
  Operators = {"careful", "hasty"}
  MaxReload = 1
  MaxFault = 1
INVARIANTS
  HealthyKept
  TimeoutsKept
  LinesHanded
  EachHandledOnce
  OnlyNewestStands
  LookupTruthful
  NoUplinkLoop
  LinksHaveClients
PROPERTIES
  OutIsStream
  UpgradeKeeps
CHECK_DEADLOCK FALSE
