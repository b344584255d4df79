SPECIFICATION FairSpec
CONSTANTS
  h1 = h1  h2 = h2
  u1 = u1  u2 = u2  u3 = u3
  Hosts = {h1, h2}
  Urls = {u1, u2}
  HostOf <- PairHosts
  Seeds = {u1}
  Sources = {u2}
  Links <- Pair
  Workers = {w1, w2}
  Consoles = {c1}
  Pollers = {}
  MaxDepth = 2
  Delay = 2
  ClaimTTL = 2
  MaxPerHost = 1
  PromoteBatch = 1
  Intervals = {}
  Credits = {0}
  MaxLag = 1
  MaxClock = 9
  MaxFaults = 0
  MaxRequests = 1
PROPERTY QueuedIsClaimed
CHECK_DEADLOCK FALSE
