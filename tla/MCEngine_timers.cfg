SPECIFICATION FairSpec
CONSTANTS
  Instance = {i1, i2}
  Task = {t1, t2, t3}
  Signaller = {s1}
  Value = {v1}
  Program <- OneTimer
  ResumeOnStart = TRUE
  Allowed = {"crash", "panic", "cancel", "stop"}
PROPERTIES TimerLostInHand TimerFires
