SPECIFICATION Spec
CONSTANTS
  c1 = c1
  a2 = a2
  f1 = f1
  f2 = f2
  Run = {c1, a2}
  Command = {c1}
  NoRun = NoRun
  Last = 2
  File = {f1}
  MaxPhases = 2
  Kinds <- MCFailuresOnly
  MaxTroubles = 1
INVARIANT
  DoneIsCommitted
