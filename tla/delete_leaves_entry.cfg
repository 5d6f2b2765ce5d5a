SPECIFICATION Spec
CONSTANTS
  Workers = {w1, w2}
  RandParts = {0}
  Amounts = {1}
  Ops = {"create", "delete"}
  CacheTTL = 1
  RedisFaults = FALSE
  SqliteFaults = FALSE
  NumbersRepeat = FALSE
  ClientsGuess = FALSE
  MaxClock = 2
  MaxRequests = 3
  MaxRestarts = 0
INVARIANT
  DeletedNotCached
