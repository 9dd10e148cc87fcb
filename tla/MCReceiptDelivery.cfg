SPECIFICATION DeliverySpec
CONSTANTS
  Receipts <- MCReceipts
  RetryDelays <- MCRetryDelays
  Capacity = 1
  Lifetime = 2
  TokenTTL = 2
  LedgerTTL = 2
  LedgerCapacity = 2
  TokenCapacity = 1
  MaxEpoch = 2
  MaxGeneration = 1
  MaxToken = 1
  MaxCommits = 1
VIEW MCView
CHECK_DEADLOCK FALSE
INVARIANTS
  DeliveryInv
PROPERTIES
  KeepsThePromise
