SPECIFICATION Spec
CONSTANTS
  h1 = h1  h2 = h2
  u1 = u1  u2 = u2  u3 = u3
  Hosts = {h1, h2}
  Urls = {u1}
  HostOf <- SoloHost
  Seeds = {u1}
  Sources = {}
  Links <- Solo
  Workers = {w1, w2}
  Consoles = {}
  Pollers = {p1}
  MaxDepth = 2
  Delay = 1
  ClaimTTL = 2
  MaxPerHost = 1
  PromoteBatch = 2
  Intervals = {1}
  Credits = {2}
  MaxLag = 0
  MaxClock = 2
  MaxFaults = 1
  MaxRequests = 1
SYMMETRY WorkersAlike
INVARIANTS Accounted
CHECK_DEADLOCK FALSE
