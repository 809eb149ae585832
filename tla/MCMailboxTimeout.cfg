SPECIFICATION TimedSpec
CONSTANTS
  wifi = wifi
  tcp = tcp
  nobody = nobody
  Module <- TwoTasks
  Route <- TwoTaskRoute
  KeepsPolling <- Manager
  ZeroModule = wifi
  NoTask = nobody
  NSlots = 1
  MaxSeq = 3
  MaxPosts = 3
  TakeMayTimeOut = TRUE
INVARIANT TypeOK
PROPERTY CallsReturn
CHECK_DEADLOCK FALSE
