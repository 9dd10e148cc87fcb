SPECIFICATION Spec
CONSTANTS
  Dirs = {"d1", "d2"}
  MaxSerial = 1
  MaxGeneration = 1
  Attempts = 1
INVARIANTS
  MovedStoreIsFlushed
