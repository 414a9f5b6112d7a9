CONSTANTS
  Clients = {c1, c2}
  NoClient = NoClient
  Listener = Listener
  Other = Other
  Inherited <- MCOne
  Fds <- MCFds2
  lfd <- MClfd
  MAX_EVENTS = 2
  SCAN = 1
  TIMEOUT = 1
  BUFLEN = 1
  MaxUnread = 1
SPECIFICATION FairSpec
CHECK_DEADLOCK FALSE
PROPERTY Attended
