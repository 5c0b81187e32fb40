SPECIFICATION CommandSpec

CONSTANTS
  f1 = f1
  f2 = f2
  Files <- MCFiles
  Concurrencies <- MCConcurrencies
  HISTOGRAM_SEGMENTS = 2
  Floats <- MCFloats
  Tiffs <- MCTiffs
  HistogramOf <- MCHistogramOf
  Equalised <- MCEqualised
  Bytes <- MCBytes
  Garbage = Garbage
  ImageSizes <- MCImageSizes
  MAX_CHUNK_SIZE = 3
  SizeValues = 16

INVARIANTS
  CommandReceived
  ResultFindsItsJob
  WithinAllocation

CHECK_DEADLOCK FALSE
