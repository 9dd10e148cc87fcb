SPECIFICATION MirrorSpec
CONSTANTS
    MaxOps = 4
    MaxMirrorFaults = 1
    Capacity = 2
CHECK_DEADLOCK FALSE
INVARIANT CursorEditReseeds
