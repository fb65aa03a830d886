CONSTANTS
  Tasks = {t1, t2}
  LlmRequests <- MCRequests
  Registrations <- MCRegistrations
  Alphabet <- MCAlphabet
  DefaultProvider = "p1"
  DefaultModel = "m"
  MaxRetries = 1
  FallbackEnabled = TRUE
  RetryOnStreamErrors = FALSE
  Limits <- MCLimits
  MaxCallAttempts = 3
  Usages <- MCUsages
  None = None
  Texts = {"x"}
  CallIds = {"1"}
  CallNames = {"f"}
  Arguments = {"{a}"}
  MaxChunks = 3
SYMMETRY MCSymmetry
SPECIFICATION MCSpec
CHECK_DEADLOCK FALSE
INVARIANTS
  AttemptsAddUp
  
