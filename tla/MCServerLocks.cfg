SPECIFICATION Spec

INVARIANTS
  WorkerMutexFirst
  RacesAreKnown
