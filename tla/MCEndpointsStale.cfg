SPECIFICATION Spec
CONSTANTS
  wifi = wifi
  tcp = tcp
  client = client
  udp = udp
  nobody = nobody
  Module = {wifi, tcp, client, udp}
  Wifi = wifi
  Tcp = tcp
  Client = client
  Udp = udp
  Nobody = nobody
  ClientAsked = 1
  UdpAsked = 1
  MaxAsked <- MCMaxAsked
  MaxTaken = 0
  Together = TRUE
  NSlots = 4
  MaxSockets = 3
  NetMayFail = FALSE
CHECK_DEADLOCK FALSE
INVARIANT ClosesOwn
