SPECIFICATION KillRunSafe
CONSTANTS
  MaxTid = 3
  Cleaner = 1
  Killers <- Killer
  Victims <- Victim
  Asyncs <- NoAsync
  VictimOf <- VictimOf1
  MaxCalls = 2
PROPERTY BusyNotKilled
