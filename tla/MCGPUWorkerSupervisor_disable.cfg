SPECIFICATION Spec
CONSTANTS
  Callers = {"convert", "liveSnapshot"}
  LiveTier = {"liveSnapshot"}
  Background = {"liveSnapshot"}
  LazyStart = FALSE
  Grace = FALSE
  MaxGeneration = 4
CHECK_DEADLOCK FALSE
INVARIANTS
  DisabledMeansStopped
