SPECIFICATION MCSpec
CONSTANTS
  InsertRaces = TRUE
  Workers = {w1, w2}
  Handles = {h1, h2}
  TxnIds = {i1, i2}
  Files = {f1}
  SeqNums = {1, 2}
  None = None
  IdReuse = FALSE
  CwdIsDirectory = TRUE
  Timeouts = FALSE
  TimerRaces = FALSE
  FailureKinds = {"open"}
  MaxFailures = 1
  MaxRequests = 7
SYMMETRY Symmetry
INVARIANTS
  TypeOK
  MutexOwnership
  FileAttributesShared
  OneWriterPerFile
  NotInterleaved
  AllOrNothing
  RollbackPoint
  RepliesTruthful
  RepeatedCommitKnown
PROPERTIES
  ImplementsStore
CHECK_DEADLOCK FALSE
