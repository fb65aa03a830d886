CONSTANTS
  Tools = {"read", "write", "erase"}
  Verdict <- MCVerdict
  Results = {"ok"}
  Decisions = {"approved", "rejected"}
  Replies <- MCReplies
  HasSchema = TRUE
  MaxIterations = 3
  MaxRepairs = 1
  StallLimit = 2
  MaxRuns = 2
SPECIFICATION Spec
CHECK_DEADLOCK FALSE
INVARIANTS
  
  CancelStopsWork
  RecordedCalls
  StallsOnRepetition
  RefusalsAreAsked
  ParsedFinishIsValid
