SPECIFICATION FairSpec
CONSTANTS
  Callers = {"convert", "live", "liveSnapshot"}
  LiveTier = {"live", "liveSnapshot"}
  Background = {"liveSnapshot"}
  LazyStart = TRUE
  Grace = TRUE
  MaxGeneration = 5
CHECK_DEADLOCK FALSE
INVARIANTS
  SupervisorInv
PROPERTIES
  OnlyLifecycleReopens
  PreparingEnds
