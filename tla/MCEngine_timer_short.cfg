SPECIFICATION FairSpec
CONSTANTS
  Instance = {i1}
  Task = {t1, t2}
  Signaller = {s1}
  Value = {v1}
  Program <- TimerThenTimer
  ResumeOnStart = TRUE
  Allowed = {"short_timer"}
PROPERTY TimerWakes
CHECK_DEADLOCK FALSE
