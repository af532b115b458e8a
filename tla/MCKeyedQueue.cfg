SPECIFICATION FairQueueSpec
CONSTANTS
  c1 = c1
  c2 = c2
  c3 = c3
  c4 = c4
  c5 = c5
  k1 = k1
  k2 = k2
  Call <- MCCall
  Key <- MCKey
  KeyOf <- MCKeyOf
  NoCall = NoCall
INVARIANTS
  QueueTypeOK
  MutualExclusion
PROPERTIES
  ServesInOrder
  EveryCallServed
