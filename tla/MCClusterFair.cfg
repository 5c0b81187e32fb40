SPECIFICATION FairSpec

CONSTANTS
  w1 = w1
  w2 = w2
  f1 = f1
  f2 = f2
  f3 = f3
  Workers <- TwoWorkers
  Files <- ThreeFiles
  Concurrency <- OneThread
  MAX_WORKER_QUEUE = 2
  Faults <- Crashes

INVARIANTS
  OutstandingReachesWorker
  NoStandstill

PROPERTIES
  ServeWorkEnds
  WorkersReleased
  DeadWorkerDismissed
  LiveWorkerKept

CHECK_DEADLOCK FALSE
