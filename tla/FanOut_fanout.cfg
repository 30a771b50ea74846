SPECIFICATION FairSpec
CONSTANTS
  Child = {c1, c2}
  Concurrency = 1
  MaxRuns = 2
  Faults = {"fail", "panic", "crash", "stop", "wait_all", "resume"}
INVARIANTS FanTypeOK SuccessBacked CompletedHasAll SlotAttended
PROPERTIES ImplementsDurableWorkflow FanOutEnds
