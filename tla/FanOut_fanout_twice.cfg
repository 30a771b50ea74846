SPECIFICATION Spec
CONSTANTS
  Child = {c1, c2}
  Concurrency = 1
  MaxRuns = 2
  Faults = {"crash"}
INVARIANT OneRunPerChild
CHECK_DEADLOCK FALSE
