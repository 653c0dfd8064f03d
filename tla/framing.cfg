SPECIFICATION Spec
CONSTANTS
  Clients = {c1, c2}
  ListenFd = 3
  Fds = {4, 5}
  MaxSockfd = 4
  HeaderLen = 2
  Lengths = {0, 2}
  MaxRequests = 2
  FieldsFit = TRUE
  SpuriousWakeups = TRUE
  None = None
SYMMETRY Symmetry
INVARIANTS
  TypeOK
  InStep
  ResponsesMatchRequests
  DescriptorsTracked
CHECK_DEADLOCK FALSE
