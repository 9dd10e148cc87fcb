SPECIFICATION Spec
CONSTANTS
    MaxOps = 8
    MaxLate = 2
    MaxFaults = 2
    MaxLen = 3
    RetryMax = 2
CHECK_DEADLOCK FALSE
INVARIANTS AnswersAreOwn AnswersMatchTheReading
