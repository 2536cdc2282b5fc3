CONSTANTS
  MaxItem = 5
  TEXT_NUM = 2
  Lines <- MCLines
  QueueMax = 3
  N = 2
  WCT <- MCWCT
  priority <- MCPriority
  Stale <- MCStale
  FifoMax = 2
  MaxTyped = 3
  MaxInbox = 2
  CRT_COLS = 2
  CRT_ROWS = 2
  TICK_NUM = 2
  MaxTraps = 2
SPECIFICATION Spec
CHECK_DEADLOCK FALSE
INVARIANTS MessagesKept ScheduleKept KernelSound
PROPERTIES ShmQueueSpec EveryoneEnds
