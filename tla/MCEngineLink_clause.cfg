SPECIFICATION Spec
CONSTANTS
    MaxOps = 5
    MaxLate = 0
    MaxFaults = 0
    MaxLen = 3
    RetryMax = 2
CHECK_DEADLOCK FALSE
INVARIANT ClauseMovesMatchTheReading
