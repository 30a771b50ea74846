SPECIFICATION FairSpec
CONSTANTS
  Child = {c1, c2}
  Concurrency = 1
  MaxRuns = 2
  Faults = {"wait_all"}
PROPERTY WaitAllReturns
CHECK_DEADLOCK FALSE
