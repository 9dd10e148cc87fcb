SPECIFICATION Spec
CONSTANTS
  Dirs = {"d"}
  MaxSerial = 1
  MaxGeneration = 1
  Attempts = 1
INVARIANTS
  ErasedCorrectionsStayErased
