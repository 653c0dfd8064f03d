SPECIFICATION Spec
CONSTANTS
  Ids = {i1, i2, i3}
  Files = {f1, f2}
  Sizes = {1}
  Cut = Cut
  None = None
  SerialLog = FALSE
  MaxFailures = 1
SYMMETRY Symmetry
INVARIANTS
  TypeOK
  FinishedEntriesLoaded
  EarlierEntriesKept
CHECK_DEADLOCK FALSE
