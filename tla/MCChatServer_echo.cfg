CONSTANTS
  Clients = {c1, c2, c3}
  NoClient = NoClient
  Fds <- MCFds4
  listenfd <- MClistenfd
  USER_LIMIT = 3
  MaxUnread = 1
  Programs = {"chat_room_server"}
SPECIFICATION Spec
CHECK_DEADLOCK FALSE
INVARIANT NoEcho
SYMMETRY Symmetry
