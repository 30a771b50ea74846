SPECIFICATION Spec
CONSTANTS
  Instance = {i1}
  Task = {t1, t2}
  Signaller = {s1}
  Value = {v1}
  Program <- TimerThenTimer
  ResumeOnStart = TRUE
  Allowed = {"crash"}
INVARIANT TimerSurvivesCrash
