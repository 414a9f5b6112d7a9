CONSTANTS
  Clients = {c1, c2, c3}
  NoClient = NoClient
  Listener = Listener
  Other = Other
  Inherited <- MCSome
  Fds <- MCFds3
  lfd <- MClfd
  MAX_EVENTS = 2
  SCAN = 2
  TIMEOUT = 1
  BUFLEN = 1
  MaxUnread = 1
SYMMETRY Symmetry
SPECIFICATION Spec
CHECK_DEADLOCK FALSE
INVARIANTS TypeOK KernelSync BatchFresh
PROPERTIES NoneForgotten ClosedForCause
