SPECIFICATION Spec
CONSTANTS
  h1 = h1  h2 = h2
  u1 = u1  u2 = u2  u3 = u3
  Hosts = {h1, h2}
  Urls = {u1, u2, u3}
  HostOf <- TwoHosts
  Seeds = {u1}
  Sources = {}
  Links <- Web
  Workers = {w1, w2}
  Consoles = {}
  Pollers = {}
  MaxDepth = 2
  Delay = 2
  ClaimTTL = 2
  MaxPerHost = 1
  PromoteBatch = 1
  Intervals = {}
  Credits = {0}
  MaxLag = 1
  MaxClock = 3
  MaxFaults = 1
  MaxRequests = 1
SYMMETRY WorkersAlike
INVARIANTS NothingStranded DiscoveredOnce
PROPERTY HostPaced
CHECK_DEADLOCK FALSE
