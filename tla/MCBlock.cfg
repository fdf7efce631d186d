SPECIFICATION BlockRunSpec
CONSTANTS
  r1 = r1
  m = m
  NULL = NULL
  Requesters <- AllRequesters
  Mortal <- MortalRequesters
  MaxBursts = 2
  MaxLeaks = 1
  SectorSize = 2
  SectorCount = 4
  BurstMax = 2
  RequestMax = 3
  DmaSectors = 2
  MaxCommands = 6
  Tables = 4
  STALE = STALE
  Vids = {0, 1}
  Switchers = {1, 2}
  SIZE_X = 2
  SIZE_Y = 2
  ANSI_MAX = 4
  Printed <- MCPrinted
  Strings <- MCStrings
  MaxWrites = 4
CONSTRAINT Defined
INVARIANTS
  ListIntact
  SlotHasTable
  ReadsDeliver
  ScreenShowsTerminal
PROPERTIES
  FirstComeFirstServed
  CallsEnd
