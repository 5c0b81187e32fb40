SPECIFICATION FairSpec

CONSTANTS
  HISTOGRAM_SEGMENTS = 5
  QuantumRange = 8
  Weight = 4
  Rounding = 1

INVARIANTS
  MappingMonotone
  QuantilesMatch
  InterpolationIsLinear

PROPERTIES
  WalkEnds

CHECK_DEADLOCK FALSE
