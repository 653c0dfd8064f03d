SPECIFICATION FairSpec
CONSTANTS
  InsertRaces = TRUE
  Workers = {w1, w2}
  Handles = {h1, h2}
  TxnIds = {i1, i2}
  Files = {f1}
  SeqNums = {0, 1}
  None = None
  IdReuse = FALSE
  CwdIsDirectory = TRUE
  Timeouts = TRUE
  TimerRaces = FALSE
  FailureKinds = {}
  MaxFailures = 0
  MaxRequests = 4
INVARIANTS
  RequestUsesLiveTransaction
  OneOutcome
  RepliesTruthful
PROPERTIES
  EveryRequestAnswered
  AbandonedTransactionsEnd
CHECK_DEADLOCK FALSE
