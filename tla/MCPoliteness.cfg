\* Safety: a worker and the sitemap poller, one change outside of them.
SPECIFICATION Spec
CONSTANTS
  worker = worker
  poller = poller
  f1 = f1
  f2 = f2
  Fetchers = {f1, f2}
  Callers = {worker, poller}
  FetcherOf <- MCFetcherOf
  Policies = {"slow"}
  Open = {"slow"}
  DelayOf <- MCDelayOf
  RetryAfter = {1}
  Ttl = 1
  DefaultDelay = 1
  MaxDelay = 2
  ThrottleMin = 2
  ThrottleMax = 2
  ErrorMax = 2
  MaxRedirects = 1
  MaxTime = 3
  MaxCalls = 3
  MaxChanges = 1
SYMMETRY Alike
PROPERTIES TurnsArePaced ClosedIsLeftAlone
CHECK_DEADLOCK FALSE
