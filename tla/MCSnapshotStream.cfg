SPECIFICATION Spec
CONSTANTS
    MaxRev = 2
    MaxCfg = 2
    MaxReq = 1
    MaxFaults = 1
    LaneCap = 1
    StatusCap = 2
INVARIANTS
    NoLostWakeup
PROPERTIES
    ReceiptsFirst
    ShownIsCurrent
    WaitIsAnswered
CHECK_DEADLOCK FALSE
