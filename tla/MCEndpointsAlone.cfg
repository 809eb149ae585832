SPECIFICATION FairSpec
CONSTANTS
  wifi = wifi
  tcp = tcp
  client = client
  udp = udp
  nobody = nobody
  Module = {wifi, tcp, client, udp}
  Wifi = wifi
  Tcp = tcp
  Client = client
  Udp = udp
  Nobody = nobody
  ClientAsked = 3
  UdpAsked = 3
  MaxAsked <- MCMaxAsked
  MaxTaken = 2
  Together = FALSE
  NSlots = 3
  MaxSockets = 3
  NetMayFail = TRUE
CHECK_DEADLOCK FALSE
PROPERTIES
  ClientKeepsSession
  UdpKeepsSession
  AnswersOnce
  NoSecondBind
  ClientLetsGo
  UdpLetsGo
