SPECIFICATION FairSpec
CONSTANTS
  Requests <- MCRequests
  MAX_SNMPMSG_LEN = 512
  MaxQueue = 1
CHECK_DEADLOCK FALSE
INVARIANTS LengthsNest SetsAreReadBack
PROPERTY WalkEnds
