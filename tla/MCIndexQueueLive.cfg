SPECIFICATION FairSpec
CONSTANTS
  d1 = d1  d2 = d2  d3 = d3  d4 = d4
  Docs = {d1, d2}
  Nature <- Pair
  Producers = {p1}
  Indexers = {i1, i2}
  MaxBatch = 2
  MaxAttempts = 3
  MaxLen = 2
  BackpressureAt = 1
  ReplayLimit = 1
  CountTo = 0
  MaxFaults = 1
PROPERTIES SoundIsIndexed DeliveryKept
CHECK_DEADLOCK FALSE
