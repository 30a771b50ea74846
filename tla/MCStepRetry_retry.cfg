SPECIFICATION FairSpec
CONSTANTS
  v1 = v1
  v2 = v2
  Value = {v1, v2}
  Call <- Calls
  U32Max = 7
  U64Bits = 4
  DurationMax = 12
INVARIANTS StepTypeOK AnswerIsEarned OneResult
PROPERTIES NothingOverwritten DelayDoubles StepEnds ImplementsAtomicStep
