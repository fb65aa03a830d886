SPECIFICATION Spec
CONSTANTS
  a = a  b = b  o1 = o1  o2 = o2  o3 = o3  r1 = r1  r2 = r2  r3 = r3
  None = None
  NoLimit = NoLimit
  Names = {a}
  Objects = {o1}
  Runs = {r1, r2}
  MaxActiveRuns = NoLimit
  MaxPerSession = 2
  RejectWhenFull = TRUE
  EventSink = FALSE
  LoopEndings = {"max_iterations"}
  MaxIterations = 1
  HostCalls = {}
INVARIANTS CancelNotLost
CHECK_DEADLOCK FALSE
