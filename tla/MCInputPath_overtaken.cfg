CONSTANTS
    Capacity = 4
    MaxKeys = 2
    RetryMax = 2
    MaxChars = 4
    Slots = {1}
    Contexts <- Documents
    First = "a"
    Moves <- None
INIT Init
NEXT Next
INVARIANT
    QueueFollowsReading
CHECK_DEADLOCK FALSE
