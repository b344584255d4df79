CONSTANTS
  Migrates = {m1, m2}
  Writers = {w1}
  Api = api
  Layouts <- MCLayouts
  MaxTasks = 2
  Places = {p1, p2}
  Readings = {20, 50, 90}
  Coldest <- MCColdest
  Hottest = 58
  MaxJump = 25
  Lags <- MCLags
  MaxLag = 2
  Skew = 1
  MaxLate = 1
  Limit = 1
  CacheTtl = 2
  Admins = {a1, a2}
  Comments = {c1}
  Sites = {s1}
  Traps = {}
  Filters = {debug, nonsense}
  Malformed = {nonsense}
  Baseline = info
  OverrideTtl = 3
  Period = 2
  Networks = {n1, n2}
  Callers = {x, y}
  Requests = 2
  Window = 3
  MaxBuckets = 2
  SaltTtl = 4
  MaxWait = 1
  MaxClock = 4
SPECIFICATION MCSpec
INVARIANTS WritesAreRead WithheldIsTold ListIsKept OverrideEnds WindowsHold
SYMMETRY MCSymmetry
