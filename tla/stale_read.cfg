SPECIFICATION FairSpec
CONSTANTS
  Clients = {c1}
  ListenFd = 3
  Fds = {4}
  MaxSockfd = 4
  HeaderLen = 2
  Lengths = {0}
  MaxRequests = 1
  FieldsFit = TRUE
  SpuriousWakeups = FALSE
  None = None
PROPERTIES
  SilentConnectionsEnd
CHECK_DEADLOCK FALSE
