\* Liveness: the same crawl without failures.
SPECIFICATION Spec
CONSTANTS
  Workers = {w1, w2}
  Pages = {"p1", "p2"}
  Bodies = {"a", "b", "thin"}
  Front = "a"
  Documents = {"a", "b"}
  Validating = {"p1"}
  Budgets <- MCBudgets
  Listed = {"p1"}
  MaxPublished = 1
  MaxFaults = 0
PROPERTIES CrawlEnds PublishedIsQueued
CHECK_DEADLOCK FALSE
