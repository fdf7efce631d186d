SPECIFICATION KillRunSafe
CONSTANTS
  MaxTid = 4
  Cleaner = 1
  Killers <- Killer
  Victims <- Victim
  Asyncs <- Async
  VictimOf <- VictimOf1
  MaxCalls = 2
INVARIANT CalledOnce
