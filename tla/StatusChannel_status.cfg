SPECIFICATION FairSpec
CONSTANTS
  MaxRuns = 3
  Observer = {o1}
  Faults = {"drop", "teardown"}
INVARIANTS StatusTypeOK OutputReadable AnswerIsRecorded NeverUnreachable NoWakeUpLost
PROPERTIES WaitAnswers StreamEnds ImplementsDurableWorkflow
CHECK_DEADLOCK FALSE
