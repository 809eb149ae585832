SPECIFICATION FairSpec
CONSTANTS
  wifi = wifi
  tcp = tcp
  nobody = nobody
  Module <- TwoTasks
  Route <- TwoTaskRoute
  KeepsPolling <- Manager
  ZeroModule = wifi
  NoTask = nobody
  NSlots = 2
  MaxSeq = 9
  MaxPosts = 3
  TakeMayTimeOut = FALSE
INVARIANTS
  MutualExclusion
  SeqUnique
PROPERTIES
  NoOverwrite
  EventuallyDelivered
CHECK_DEADLOCK FALSE
