SPECIFICATION ReloadSpec
CONSTANTS
  Scenarios <- Live
  UplinkCell = {1, 2, 3}
  UplinkConfigs <- MCUplinks
  Operators = {"careful"}
  MaxReload = 1
  MaxFault = 1
PROPERTIES
  PortsReconfigured
  UplinksComeUp
CHECK_DEADLOCK FALSE
