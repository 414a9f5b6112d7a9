SPECIFICATION SemFairSpec
CHECK_DEADLOCK FALSE
INVARIANTS SemTypeOK Conserved ExclusiveUnlessFailed RemovedLast
PROPERTY NotForever
