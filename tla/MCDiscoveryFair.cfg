SPECIFICATION FairSpec

CONSTANTS
  s1 = s1
  s2 = s2
  r1 = r1
  r2 = r2
  Servers <- OneServer
  Routes <- TwoRoutes
  Ids <- ThreeIds
  CommandLines <- OnceOrPersist
  Faults <- FairFaults

INVARIANTS
  ServerStopsCleanly

PROPERTIES
  WorkerEnds
  RunningServersFound
  EntriesTaken

CHECK_DEADLOCK FALSE
