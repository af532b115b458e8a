SPECIFICATION Spec
CONSTANTS
  up = up
  down = down
  r1 = r1
  r2 = r2
  Cron <- MCCron
  Run <- MCRun
  NoRun = NoRun
  Leftover = Leftover
  Chain <- MCChain
  MaxChainDepth = 1
  Managed = {up}
  MaxGeneration = 2
  MaxFires = 2
  MaxTroubles = 0
INVARIANT
  OverlapIsSkipped
