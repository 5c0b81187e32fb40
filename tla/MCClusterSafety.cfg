SPECIFICATION Spec

CONSTANTS
  w1 = w1
  w2 = w2
  f1 = f1
  f2 = f2
  f3 = f3
  Workers <- TwoWorkers
  Files <- ThreeFiles
  Concurrency <- OneAndThree
  MAX_WORKER_QUEUE = 2
  Faults <- AllFaults

SYMMETRY AlikeFiles

INVARIANTS
  TypeOK
  JobsConserved
  HistogramsDrained
  EqualisedCountExact
  ImagesComplete
  EraseFindsJob
  ResultsOfTheStage
  ReplyAnswersLatestRequest
  QueueWithinCapacity
  EhloComesFirst

PROPERTIES
  LedgerKept

CHECK_DEADLOCK FALSE
