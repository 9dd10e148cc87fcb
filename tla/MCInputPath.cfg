CONSTANTS
    Capacity = 3
    MaxKeys = 3
    RetryMax = 2
    MaxChars = 2
    Slots = {1}
    Contexts <- Documents
    First = "a"
    Moves <- OneMove
SPECIFICATION Spec
INVARIANTS
    InputInv
    WrittenOnceInOrder
    OwnerLossIsHonest
PROPERTY
    WaitEnds
CHECK_DEADLOCK FALSE
