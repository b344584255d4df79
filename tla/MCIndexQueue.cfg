SPECIFICATION Spec
CONSTANTS
  d1 = d1  d2 = d2  d3 = d3  d4 = d4
  Docs = {d1, d2, d3}
  Nature <- Mixed
  Producers = {p1, p2}
  Indexers = {i1, i2}
  MaxBatch = 2
  MaxAttempts = 3
  MaxLen = 2
  BackpressureAt = 1
  ReplayLimit = 0
  CountTo = 0
  MaxFaults = 1
SYMMETRY Alike
INVARIANT NeverNowhere
PROPERTY UnreadIsKept
CHECK_DEADLOCK FALSE
