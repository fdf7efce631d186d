SPECIFICATION FilesRunSpec
CONSTANTS
  Clients = {c1, c2, c3}
  Values = {v1, v2}
  MaxSize = 3
  NULL = NULL
  None = None
  t1 = t1
  t2 = t2
  FileThreads = {t1, t2}
  Killer = k
  IsoFiles = {f}
  IsoDirs = {d}
  CharDevs = {tty, com}
  OtherDevs = {disk}
  DevRoot = root
  Device0 = com
  FileSize = 1
  TableSize = 2
  MaxOpens = 2
  Calls <- MCCalls
  Nil = Nil
  Names <- MCNames
  MaxSegs = 4
  MaxMounts = 3
  BLOCK_SIZE = 3
  MaxBlocks = 2
  Files9660 = {"x", "y"}
INVARIANT PathsCanonical
CHECK_DEADLOCK FALSE
