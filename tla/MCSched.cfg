SPECIFICATION FairSpec
CONSTANTS
  MaxTid = 3
  MaxBlock = 2
  MaxDelay = 0
INVARIANTS
  NoYieldPanic
  BoundedOvertaking
PROPERTIES
  ReadyThreadsRun
