SPECIFICATION ReloadSpec
CONSTANTS
  Scenarios <- Stop
  UplinkCell = {1, 2, 3}
  UplinkConfigs <- MCUplinks
  Operators = {"patient"}
  MaxReload = 1
  MaxFault = 0
PROPERTIES
  ReloadTakesEffect
CHECK_DEADLOCK FALSE
