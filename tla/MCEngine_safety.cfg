SPECIFICATION Spec
CONSTANTS
  Instance = {i1, i2}
  Task = {t1, t2, t3}
  Signaller = {s1, s2}
  Value = {v1, v2}
  Program <- StepThenTimer
  ResumeOnStart = TRUE
  Allowed = {"crash", "storage", "panic", "cancel", "stop", "wait_all", "resume", "short_timer"}
SYMMETRY Interchangeable
INVARIANTS TypeOK SingleRun BusyIsRunning PrefixJournal MetadataAgrees
PROPERTY MemoStable
