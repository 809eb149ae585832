SPECIFICATION Spec
CONSTANTS
  wifi = wifi
  tcp = tcp
  nobody = nobody
  Module <- TwoTasks
  Route <- TwoTaskRoute
  KeepsPolling <- Manager
  ZeroModule = wifi
  NoTask = nobody
  NSlots = 2
  MaxSeq = 4
  MaxPosts = 4
  TakeMayTimeOut = FALSE
INVARIANTS
  NumberUsable
  CountExact
  OnlyTornMisleads
  OldestFirst

  
CHECK_DEADLOCK FALSE
