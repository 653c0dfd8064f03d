SPECIFICATION TestSpec
CONSTANTS
  Workers <- MCWorkers
  Handles = {h1, h2}
  TxnIds = {i1, i2, DefaultId}
  DefaultId = DefaultId
  Files = {t1, t2}
  SeqNums = {0, 1, 2}
  NumRequests = 2
  None = None
  IdReuse = FALSE
  CwdIsDirectory = TRUE
  Timeouts = TRUE
  TimerRaces = TRUE
  InsertRaces = TRUE
  FailureKinds = {}
  MaxFailures = 0
INVARIANTS
  FailuresExplained
PROPERTIES
  TestsFinish
