SPECIFICATION Spec
CONSTANTS
  a = a  b = b  o1 = o1  o2 = o2  o3 = o3  r1 = r1  r2 = r2  r3 = r3
  None = None
  NoLimit = NoLimit
  Names = {a, b}
  Objects = {o1, o2}
  Runs = {r1, r2, r3}
  MaxActiveRuns = 2
  MaxPerSession = 1
  RejectWhenFull = FALSE
  EventSink = FALSE
  LoopEndings = {"max_iterations", "denied"}
  MaxIterations = 1
  HostCalls = {}
SYMMETRY RunSymmetry
CHECK_DEADLOCK FALSE
INVARIANTS
  
  ClaimIsLive
  CancelNotLost
