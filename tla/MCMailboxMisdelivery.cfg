SPECIFICATION Spec
CONSTANTS
  wifi = wifi
  tcp = tcp
  nobody = nobody
  Module <- TwoTasks
  Route <- TwoTaskRoute
  KeepsPolling <- Manager
  ZeroModule = wifi
  NoTask = nobody
  NSlots = 2
  MaxSeq = 9
  MaxPosts = 4
  TakeMayTimeOut = FALSE
INVARIANT ClearsOwnMessage
CHECK_DEADLOCK FALSE
