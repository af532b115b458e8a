SPECIFICATION FairSpec
CONSTANTS
  i1 = i1
  i2 = i2
  i3 = i3
  k1 = k1
  k2 = k2
  Inv <- MCInv
  Key <- MCKey
  KeyOf <- MCKeyOf
  Proc <- MCProc
  Supervised <- MCSupervised
  NoInv = NoInv
  Max = 2
  MaxProcesses = 1
  MaxCycles = 2
  MaxRetries = 1
  MaxEvents = 2
  MaxTexts = 1
  MaxInterrupts = 1
INVARIANTS
  TypeOK
  HearsOwnAnswer
PROPERTIES
  KeepsLimit
  EveryInvocationEnds
