CONSTANTS
  Clients = {c1, c2}
  MaxConns = 2
  LineLen = 2
  MaxPieces = 4
SPECIFICATION FairSpec
CHECK_DEADLOCK FALSE
INVARIANTS TypeOK CallsFindTheirCause
PROPERTIES ImplementsRoom Served
