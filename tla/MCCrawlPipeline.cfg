\* Safety: two workers, two copies of one story, one failure or crash anywhere.
SPECIFICATION Spec
CONSTANTS
  Workers = {w1, w2}
  Pages = {"p1", "p2"}
  Bodies = {"a", "b", "thin"}
  Front = "a"
  Documents = {"a", "b"}
  Validating = {"p1"}
  Budgets <- MCBudgets
  Listed = {"p1"}
  MaxPublished = 1
  MaxFaults = 1
SYMMETRY Workforce
INVARIANTS Overshoot RememberedIsQueued
PROPERTY NothingDropped
CHECK_DEADLOCK FALSE
