SPECIFICATION Spec
CONSTANTS
  Receipts <- MCReceipts
  TokenTTL = 2
  LedgerTTL = 2
  LedgerCapacity = 1
  TokenCapacity = 2
  MaxEpoch = 2
  MaxGeneration = 2
  MaxToken = 3
INVARIANTS
  AppliedOnce
  OverlayIsCurrent
PROPERTIES
  VerdictsAreFinal
