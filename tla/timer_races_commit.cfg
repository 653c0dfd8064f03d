SPECIFICATION MCSpec
CONSTANTS
  InsertRaces = TRUE
  Workers = {w1, w2}
  Handles = {h1, h2}
  TxnIds = {i1, i2}
  Files = {f1}
  SeqNums = {1, 2}
  None = None
  IdReuse = FALSE
  CwdIsDirectory = TRUE
  Timeouts = TRUE
  TimerRaces = TRUE
  FailureKinds = {}
  MaxFailures = 0
  MaxRequests = 7
SYMMETRY Symmetry
INVARIANTS
  RequestUsesLiveTransaction
CHECK_DEADLOCK FALSE
