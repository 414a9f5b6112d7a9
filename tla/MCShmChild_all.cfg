CONSTANTS
  RecvMax = 2
  MaxUnread = 3
  PipeCap = 2
SPECIFICATION FairSpec
CHECK_DEADLOCK FALSE
INVARIANTS TypeOK LeftBehind
PROPERTY Ends
