SPECIFICATION FairSpec
CONSTANTS
  N = 2
  MaxAccepts = 1
  MaxRequests = 1
CHECK_DEADLOCK FALSE
PROPERTY
  SignalStops
