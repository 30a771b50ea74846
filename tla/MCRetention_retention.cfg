SPECIFICATION FairSpec
CONSTANTS
  p = p
  c = c
  Root = {p}
  Child = {c}
  Parent <- ParentOfC
  Sleeper = {p}
  Default = 0
  Override <- LongerForP
  MaxRows = 2
  Allowed = {"crash", "stop", "storage", "panic"}
INVARIANTS RetentionTypeOK
PROPERTIES OnlyExpired LiveFamilyKept NothingLost StaysDeleted ExpiredGoes
