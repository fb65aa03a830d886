CONSTANTS
  Servers = {"s1", "s2"}
  Names = {"a"}
  Enabled = {"s1"}
  Lists <- MCLists
  Hosts = {"h1", "h2"}
  HostCalls = {"status", "inventory", "resources", "close"}
  Order <- MCOrder
  Calls = {c1, c2}
  Requests <- MCRequests
  Invalid = {"wrong"}
  Registered <- MCRegistered
  Agents <- MCAgents
  MaxAttempts = 2
  RetryOnExceptions = TRUE
  Executions = {e1, e2}
  PlanIds = {p1}
  PlanSteps <- MCPlanSteps
  Sessions = {"a", "b"}
  AgentTools <- MCAgentTools
  OwnSpecs <- MCOwnSpecs
  HandoffSpecs <- MCHandoffSpecs
  HandoffRequests <- MCHandoffRequests
  DefaultSession = "a"
  MaxActive = 2
  PerSession = 1
  MaxSteps = 2
  MaxRuns = 3
  MaxMoves = 1
  NoPlan = NoPlan
  StreamRuns = {"r1", "r2"}
  Clients = {k1}
  Cursors <- MCCursors
  SessionOfRun <- MCSessionOfRun
  MaxBatches = 2
  StopAtTerminal = TRUE
  MaxLog = 5
  GatedRuns = {g1, g2}
  GatedCalls <- MCGatedCalls
  RuleLists <- MCRuleLists
  MaxGates = 3
  MaxAsked = 2
  NoRun = NoRun
  Readers = {e1, e2}
  Skills = {"k1"}
  Found <- MCFound
  FileTexts <- MCTexts
  Offsets = {1, 2, 9}
  FrameBytes = 2
  PrefixBytes = 1
  MaxBytes = 16
  MaxRemembered = 1
  MaxCoreSteps = 4
SYMMETRY MCSymmetry
CHECK_DEADLOCK FALSE
SPECIFICATION MCSpec
INVARIANTS
  ToolsComeFromLiveServers
  ResultsAreGenuine
  WorkIsAwaited
  RunStreamIsWhole
  PassedIsApproved
  ReadersMissNothing
PROPERTIES
  AttemptsReachOneLiveTool
