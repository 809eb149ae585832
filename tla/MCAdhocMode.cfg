SPECIFICATION FairSpec
CONSTANTS
  wifi = wifi
  tcp = tcp
  Module = {wifi, tcp}
  Wifi = wifi
  Tcp = tcp
  NSlots = 5
  MaxLosses = 2
  MaxAdhoc = 2
CHECK_DEADLOCK FALSE
INVARIANT ConfiguredOnce
PROPERTIES
  AdhocIsFinal
  AdhocHappens
