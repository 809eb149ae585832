SPECIFICATION FairSpec
CONSTANTS
  wifi = wifi
  tcp = tcp
  Module = {wifi, tcp}
  Wifi = wifi
  Tcp = tcp
  NSlots = 2
  MaxLosses = 4
  MaxConn = 2
  MaxSockets = 2
  NetMayFail = TRUE
CHECK_DEADLOCK FALSE
INVARIANTS
  StationTypeOK
  NeverAborts
  WifiToken
  OneServerSocket
  AcceptsOnListener
  ClientsGoUnread
PROPERTIES
  ListenerKept
  FailedForGood
  WifiTracksIp
  EventuallyAccepting
