SPECIFICATION MirrorSpec
CONSTANTS
    MaxOps = 5
    MaxMirrorFaults = 1
    Capacity = 2
CHECK_DEADLOCK FALSE
INVARIANT MirrorIsFaithful
PROPERTIES ReseedSettles StaleSessionCloses
