SPECIFICATION Spec
CONSTANTS
  m1 = m1
  r2 = r2
  m3 = m3
  c4 = c4
  s1 = s1
  Msg = {m1, m3, c4}
  Session = {s1}
  SessionOf <- MCSessionOf
  Reaction = {}
  Command = {c4}
  MaxDepth = 0
  MaxTroubles = 0
INVARIANTS
  CommandsRunAlone
