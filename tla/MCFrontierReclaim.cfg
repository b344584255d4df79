SPECIFICATION Spec
CONSTANTS
  h1 = h1  h2 = h2
  u1 = u1  u2 = u2  u3 = u3
  Hosts = {h1, h2}
  Urls = {u1}
  HostOf <- SoloHost
  Seeds = {u1}
  Sources = {}
  Links <- Solo
  Workers = {w1, w2}
  Consoles = {}
  Pollers = {}
  MaxDepth = 2
  Delay = 2
  ClaimTTL = 2
  MaxPerHost = 1
  PromoteBatch = 2
  Intervals = {}
  Credits = {0}
  MaxLag = 0
  MaxClock = 4
  MaxFaults = 1
  MaxRequests = 0
PROPERTY ReclaimReturnsUrl
CHECK_DEADLOCK FALSE
