CONSTANTS
  SpliceMax = 2
  PipeCap = 4
  RecvMax = 1
  MaxTyped = 3
  MaxUnread = 2
SPECIFICATION FairSpec
CHECK_DEADLOCK FALSE
INVARIANTS TypeOK SleepsInPoll OnlyCutsStay
PROPERTY HangupEnds
