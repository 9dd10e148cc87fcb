SPECIFICATION DeliverySpec
CONSTANTS
  Receipts <- MCReceipts
  RetryDelays <- MCRetryDelays
  Capacity = 1
  Lifetime = 2
  TokenTTL = 2
  LedgerTTL = 2
  LedgerCapacity = 2
  TokenCapacity = 1
  MaxEpoch = 1
  MaxGeneration = 1
  MaxToken = 1
  MaxCommits = 1
CHECK_DEADLOCK FALSE
INVARIANTS
  LiveIdentityNotCondemned
