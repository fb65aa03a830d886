SPECIFICATION MCSpec
CONSTANTS
  None = None
  TraceRuns = {1, 2}
  Items <- MCItems
  EndStatuses = {"failed"}
  MaxItems = 2
  TraceQueries <- MCQueries
  DiffSpecs <- MCDiffSpecs
  EvalSpecs <- MCEvalSpecs
INVARIANTS
  StoresAgree
  
CHECK_DEADLOCK FALSE
