CONSTANTS
  PipeCap = 2
  MaxBacklog = 1
  MaxConns = 1
SPECIFICATION FairSpec
CHECK_DEADLOCK FALSE
INVARIANTS TypeOK ByteAnnounced RequestKept
PROPERTY TermStops
