SPECIFICATION MCSpec
CONSTANTS
  InsertRaces = TRUE
  Workers = {w1}
  Handles = {h1, h2, h3, h4}
  TxnIds = {i1, i2}
  Files = {f1}
  SeqNums = {1, 2}
  IdReuse = FALSE
  CwdIsDirectory = TRUE
  Timeouts = FALSE
  TimerRaces = FALSE
  FailureKinds = {"write"}
  MaxFailures = 1
  MaxCrashes = 2
  CrashInRecovery = FALSE
  PowerFailures = TRUE
  MaxRequests = 6
  None = None
SYMMETRY Symmetry
INVARIANTS
  IncompleteRolledBack
  AckedCommitSurvives
PROPERTIES
  TransactionsRestarted
CHECK_DEADLOCK FALSE
