SPECIFICATION FairSpec

CONSTANTS
  w1 = w1
  w2 = w2
  f1 = f1
  f2 = f2
  f3 = f3
  Workers <- TwoWorkers
  Files <- TwoFiles
  Concurrency <- OneThread
  MAX_WORKER_QUEUE = 2
  Faults <- Crashes

PROPERTIES
  DeadWorkerDetected

CHECK_DEADLOCK FALSE
