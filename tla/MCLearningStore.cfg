SPECIFICATION FairSpec
CONSTANTS
  Dirs = {"d1", "d2"}
  MaxSerial = 2
  MaxGeneration = 2
  Attempts = 1
INVARIANTS
  StoreInv
  RestMeansSaved
PROPERTIES
  ShutdownSaves
  BoundariesEnd
