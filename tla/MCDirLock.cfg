SPECIFICATION FairSpec
CONSTANTS
  p1 = p1
  p2 = p2
  p3 = p3
  ca = ca
  cb = cb
  cc = cc
  pid1 = pid1
  pid2 = pid2
  Process <- MCProcess
  Caller <- MCCaller
  ProcOf <- MCProcOf
  PidOf <- MCPidOf
  StartKnown = TRUE
  MayStall = TRUE
  NoCaller = NoCaller
INVARIANTS
  TypeOK
  ExclusiveUnlessMisjudged
PROPERTY
  StaleLockRecovered
