SPECIFICATION Spec

CONSTANTS
  s1 = s1
  s2 = s2
  r1 = r1
  r2 = r2
  Servers <- TwoServers
  Routes <- OneRoute
  Ids <- ThreeIds
  CommandLines <- OnceOrPersist
  Faults <- AllFaults

SYMMETRY ServerSymmetry

INVARIANTS
  ConnectionsCounted

PROPERTIES
  PopsTheServed

CHECK_DEADLOCK FALSE
