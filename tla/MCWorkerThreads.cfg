SPECIFICATION FairSpec

CONSTANTS
  t1 = t1
  t2 = t2
  t3 = t3
  f1 = f1
  self = self
  Workers <- OneWorker
  Threads <- ThreeThreads
  Files <- OneFile

INVARIANTS
  TypeOK
  WakeupsCoverJobs
  DyingWakesAll
  SocketsOutliveThreads
  JobsInOnePlace

PROPERTIES
  PeerKept
  ConnectionEnds
  ScheduledJobsDone

CHECK_DEADLOCK FALSE
