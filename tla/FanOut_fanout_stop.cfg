SPECIFICATION Spec
CONSTANTS
  Child = {c1, c2}
  Concurrency = 2
  MaxRuns = 2
  Faults = {"stop"}
INVARIANT ChildrenRan
CHECK_DEADLOCK FALSE
