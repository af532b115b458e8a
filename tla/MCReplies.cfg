SPECIFICATION FairSpec
CONSTANTS
  m1 = m1
  r2 = r2
  m3 = m3
  c4 = c4
  s1 = s1
  Msg = {m1, r2}
  Session = {s1}
  SessionOf <- MCSessionOf
  Reaction = {r2}
  Command = {}
  MaxDepth = 1
  MaxTroubles = 2
INVARIANTS
  TypeOK
  FileFollowsRegistry
  InterruptedStands
PROPERTIES
  InterruptedIsTold
