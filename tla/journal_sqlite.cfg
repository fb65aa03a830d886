CONSTANTS
  Runs = {r1, r2}
  Turns = {t1, t2}
  Checkpoints = {c1, c2}
  States = {plain, opaque}
  Unserializable = {opaque}
  Closing = {}
  RunEndings = {"stalled"}
  Store = "sqlite"
  Faults = {"save_fails", "crash"}
  MaxRecords = 1
  MaxErrors = 1
  None = None
SYMMETRY IdSymmetry
SPECIFICATION Spec
INVARIANTS
  TurnsEndWithTheirRun
  AuditPasses
  KeptSurvives
  ResumeIsSound
PROPERTIES
  FinishedIsSettled
  ImplementsLedger
