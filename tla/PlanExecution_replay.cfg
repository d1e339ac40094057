SPECIFICATION FairSpec
CHECK_DEADLOCK FALSE
CONSTANTS
  u1 = u1  u2 = u2
  N = 2
  Shapes <- TwoSteps
  Typed = {2}
  Idempotent = {1}
  Runs = {u1, u2}
  Answers = {"succeeded", "running"}
  Overlapping = FALSE
INVARIANTS
  RowCoversWorker
  StartsOnRecordedSuccess
  RunRowExplained
PROPERTIES
  SuccessIsKept
  KeepsPromise
  RunsEnd
