SPECIFICATION Spec
CONSTANTS
  wifi = wifi
  tcp = tcp
  client = client
  udp = udp
  nobody = nobody
  Module = {wifi, tcp, client, udp}
  Wifi = wifi
  Tcp = tcp
  Client = client
  Udp = udp
  Nobody = nobody
  ClientAsked = 2
  UdpAsked = 2
  MaxAsked <- MCMaxAsked
  MaxTaken = 1
  Together = TRUE
  NSlots = 3
  MaxSockets = 3
  NetMayFail = TRUE
CHECK_DEADLOCK FALSE
INVARIANTS
  EndpointsTypeOK
  OneTokenEach
  OneSocketEach
