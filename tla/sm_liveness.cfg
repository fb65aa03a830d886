SPECIFICATION FairSpec
CONSTANTS
  a = a  b = b  o1 = o1  o2 = o2  o3 = o3  r1 = r1  r2 = r2  r3 = r3
  None = None
  NoLimit = NoLimit
  Names = {a}
  Objects = {o1, o2}
  Runs = {r1, r2}
  MaxActiveRuns = 1
  MaxPerSession = 1
  RejectWhenFull = FALSE
  EventSink = TRUE
  LoopEndings = {"max_iterations"}
  MaxIterations = 1
  HostCalls = {"replace", "restart"}
INVARIANTS RunningIsLive
PROPERTIES QueueDrains ClaimsEnd
CHECK_DEADLOCK FALSE
