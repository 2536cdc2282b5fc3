CONSTANTS
  MAXSIZE = 5
  Ids = {1, 2, 3}
  Names = {a}
  Pointer = FALSE
  Pages = {0, 1, 2, 3}
  FRAME_SIZE = 3
  CYLINDER_NUM = 5
  CYLINDER_REQ_NUM = 3
  MAX_CONN_NUM = 2
  PipeMax = 2
  MaxTyped = 3
  Lines <- MCLines
  Commands <- MCCommands
  Procs = {p1, p2, p3}
  Goal = 1
  Removers = 3
  MaxOps = 2
  CONSBUFSIZE = 3
  MaxEvents = 4
  SECTSIZE = 2
  MemSize = 12
  BUFSIZE = 6
  MAXARGS = 2
  MaxKeys = 6
SPECIFICATION Spec
CHECK_DEADLOCK FALSE
INVARIANTS ListSound HeapSound LRUExact FramesSound DiskSound NicknamesUnique ConversationKept RemovedLate InputSound ToolsSound
PROPERTIES ListOrderKept SecondChanceGiven
