CONSTANTS
  Tools = {}
  Verdict <- MCVerdict
  Results = {"ok"}
  Decisions = {"approved", "rejected"}
  Replies <- MCFinishes
  HasSchema = TRUE
  MaxIterations = 3
  MaxRepairs = 1
  StallLimit = 2
  MaxRuns = 1
CHECK_DEADLOCK FALSE
SPECIFICATION Spec
INVARIANT CompletedIsValid
