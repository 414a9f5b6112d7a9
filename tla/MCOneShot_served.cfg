CONSTANTS
  Clients = {c1, c2}
  NoClient = NoClient
  Fds <- MCFds2
  listenfd <- MClistenfd
  Workers = {w1, w2}
  MaxUnread = 1
SPECIFICATION FairSpec
CHECK_DEADLOCK FALSE
INVARIANTS TypeOK HandedOver
PROPERTIES Attended ImplementsRoom
