CONSTANTS
  RELOAD_TIMEOUT = 2
  Whole = 2
  MaxVersion = 3
  MaxTime = 5
SPECIFICATION FairSpec
CHECK_DEADLOCK FALSE
INVARIANTS TypeOK ChangeSeen
PROPERTY ChangeServed
