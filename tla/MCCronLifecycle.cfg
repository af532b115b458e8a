SPECIFICATION FairSpec
CONSTANTS
  c1 = c1
  h1 = h1
  h2 = h2
  Cron <- MCCron
  Handler <- MCHandler
  NoHandler = NoHandler
  MaxOps = 5
  MaxFlushErrors = 1
  MaxCrashes = 1
INVARIANTS
  TypeOK
  SettledIsConsistent
  PauseHolds
  DiskIsMemory
PROPERTY
  EveryHandlerEnds
