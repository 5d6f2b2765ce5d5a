SPECIFICATION FairSpec
CONSTANTS
  Workers = {w1, w2}
  RandParts = {0}
  Amounts = {1}
  Ops = {"create", "get", "pay", "list", "delete"}
  CacheTTL = 1
  RedisFaults = TRUE
  SqliteFaults = TRUE
  NumbersRepeat = TRUE
  ClientsGuess = FALSE
  MaxClock = 2
  MaxRequests = 3
  MaxRestarts = 1
INVARIANTS
  TypeOK
  CreatedAccounting
  CachedMatchesRow
  TimesOrdered
  PaymentDurable
  DeletionDurable
PROPERTIES
  LedgerSpec
  NeverRefilled
  EveryRequestAnswered
