CONSTANTS
  Clients = {c1, c2, c3}
  NoClient = NoClient
  Fds <- MCFds
  listenfd <- MClistenfd
  USER_LIMIT = 2
  MaxUnread = 1
  Programs = {"chat_room_server", "shmget_chat_room_server", "test_poll"}
SYMMETRY Symmetry
SPECIFICATION Spec
CHECK_DEADLOCK FALSE
INVARIANTS TypeOK TableInv SnapshotInv NeverReadsNothing
PROPERTY ImplementsRoom
