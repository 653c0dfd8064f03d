SPECIFICATION MCSpec
CONSTANTS
  InsertRaces = TRUE
  Workers = {w1, w2}
  Handles = {h1, h2, h3, h4}
  TxnIds = {i1, i2}
  Files = {f1}
  SeqNums = {1}
  IdReuse = FALSE
  CwdIsDirectory = TRUE
  Timeouts = FALSE
  TimerRaces = FALSE
  FailureKinds = {}
  MaxFailures = 0
  MaxCrashes = 1
  CrashInRecovery = FALSE
  PowerFailures = FALSE
  MaxRequests = 5
  None = None
SYMMETRY Symmetry
INVARIANTS
  RecoveredContents
CHECK_DEADLOCK FALSE
