SPECIFICATION FairSpec
CONSTANTS
  Instance = {i1}
  Task = {t1, t2}
  Signaller = {s1, s2}
  Value = {v1, v2}
  Program <- StepSuspendTimer
  ResumeOnStart = TRUE
  Allowed = {"crash", "stop", "resume", "short_timer"}
INVARIANT NoOrphanRunning
PROPERTIES ImplementsDurable StepsAreAtomic RunningSettles ShutdownReturns
