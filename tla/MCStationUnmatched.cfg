SPECIFICATION Spec
CONSTANTS
  wifi = wifi
  tcp = tcp
  Module = {wifi, tcp}
  Wifi = wifi
  Tcp = tcp
  NSlots = 6
  MaxLosses = 0
  MaxConn = 2
  MaxSockets = 2
  NetMayFail = FALSE
CHECK_DEADLOCK FALSE
INVARIANT TcpMatched
