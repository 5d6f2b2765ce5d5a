SPECIFICATION Spec
CONSTANTS
  Workers = {w1, w2, w3}
  RandParts = {0}
  Amounts = {1}
  Ops = {"create", "get", "pay", "delete"}
  CacheTTL = 1
  RedisFaults = FALSE
  SqliteFaults = TRUE
  NumbersRepeat = FALSE
  ClientsGuess = FALSE
  MaxClock = 2
  MaxRequests = 4
  MaxRestarts = 0
SYMMETRY WorkerSymmetry
INVARIANTS
  PaymentInvalidates
  ReadsSeeAcks
  CacheInv
