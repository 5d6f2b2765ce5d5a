SPECIFICATION FairSpec
CONSTANTS
  N = 2
  MaxAccepts = 2
  MaxRequests = 3
CHECK_DEADLOCK FALSE
INVARIANTS
  ReadinessTruthful
  AcceptBalanced
  AcceptInv
  StopComplete
PROPERTIES
  OrderlySpec
  SignalEnds
