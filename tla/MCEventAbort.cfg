SPECIFICATION Spec
CONSTANTS
  MaxTid = 3
  MaxQueue = 2
  Waiters <- TwoWaiters
  Triggerers <- OneTriggerer
  Killers <- OneKiller
INVARIANT NoPanic
