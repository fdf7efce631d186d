SPECIFICATION FairSpec
CONSTANTS
  MaxTid = 3
  MaxQueue = 2
  Waiters <- TwoWaiters
  Triggerers <- OneTriggerer
  Killers <- OneKiller
INVARIANTS
  LockKeepsCPU
  BlockedIsQueued
PROPERTY WaitersReturn
CHECK_DEADLOCK FALSE
