SPECIFICATION FairSpec
CONSTANTS
  t1 = t1
  t2 = t2
  pa = pa
  pb = pb
  Task <- MCTask
  Poster <- MCPoster
  NoPoster = NoPoster
  NoFollowUp = NoFollowUp
  RetryEnabled = TRUE
  MaxRequests = 3
  MaxFailures = 1
  MaxReplies = 2
  MaxMisses = 1
INVARIANTS
  TypeOK
  RequestIsCovered
PROPERTIES
  PosterIsKept
  DeferredIsRetried
  SyncQuiesces
