SPECIFICATION ProcessRunSpec
CONSTANTS
  Callers = {c1, c2}
  Threads = {t1, t2}
  Regions <- MCRegions
  LowEnd = 16
  Pieces <- MCPieces
  RootFrames = 12
  SystemFrames = 1
  Fan = 2
  Depth = 2
  KVStart = 1
  BootNodes <- MCBootNodes
  VEnd = 6
  DevicePhys = 99
  MaxAlloc = 2
  Allocators = {a1, a2}
  PoolPieces = 7
  Leftover = {3}
  MaxData = 2
  Data = {0, 1}
  PoolSizes <- MCPoolSizes
  MaxTid = 3
  MaxCount = 4
INVARIANTS
  RefsExact
  UsedNotDisposed
  SearchIsFirstFit
  FramesAccounted
  HeapSound
  PoolsFit
PROPERTIES
  LoopIsClosedForm
  PrkillEnds
CONSTRAINT RootPieceOnly
CHECK_DEADLOCK FALSE
