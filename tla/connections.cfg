SPECIFICATION FairSpec
CONSTANTS
  Clients = {c1, c2}
  ListenFd = 3
  Fds = {4, 5, 6}
  MaxSockfd = 5
  HeaderLen = 1
  Lengths = {0}
  MaxRequests = 1
  FieldsFit = TRUE
  SpuriousWakeups = FALSE
  None = None
PROPERTIES
  ConnectionsEnd
  ConnectionsAccepted
CHECK_DEADLOCK FALSE
