SPECIFICATION KillRunSpec
CONSTANTS
  MaxTid = 4
  Cleaner = 1
  Killers <- Killer
  Victims <- Victim
  Asyncs <- Async
  VictimOf <- VictimOf1
  MaxCalls = 0
INVARIANTS
  DeadStaysOff
  ReturnMeansFreed
PROPERTIES
  FreedOnlyWhenDead
  BusyWaitEnds
