SPECIFICATION FairSpec
CONSTANTS
  wifi = wifi
  tcp = tcp
  client = client
  udp = udp
  Wifi = wifi
  Tcp = tcp
  Client = client
  Udp = udp
  MaxResets = 2
INVARIANTS
  StartupTypeOK
  RunsPrepared
  StartedOnce
PROPERTY ComesUp
