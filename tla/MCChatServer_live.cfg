CONSTANTS
  Clients = {c1, c2}
  NoClient = NoClient
  Fds <- MCFds
  listenfd <- MClistenfd
  USER_LIMIT = 2
  MaxUnread = 1
  Programs = {"test_poll"}
SPECIFICATION FairSpec
CHECK_DEADLOCK FALSE
PROPERTIES Attended PendingSent
