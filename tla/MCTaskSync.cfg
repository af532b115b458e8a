SPECIFICATION FairSpec
CONSTANTS
  t1 = t1
  a1 = a1
  a2 = a2
  Sync = Sync
  NoTask = NoTask
  NoThread = NoThread
  Task <- MCTask
  Actor <- MCActor
  Labelled <- MCTask
  MaxThreads = 2
  MaxActions = 3
  MaxFaults = 1
  MaxReplies = 1
INVARIANTS
  TypeOK
  OneThreadPerTask
PROPERTIES
  ThreadOfClosedIsArchived
