SPECIFICATION MCSpec
CONSTANTS
  RetryDelays <- MCRetryDelays
  Capacity = 2
  Lifetime = 2
INVARIANTS
  OutboxInv
PROPERTIES
  EveryDeliverySettles
