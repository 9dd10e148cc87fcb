SPECIFICATION Spec
CONSTANTS
  Checkers = {c1, c2}
  Candidates = {v1}
  MaxFaults = 2
  MaxStarts = 1
  MaxPatches = 1
CHECK_DEADLOCK FALSE
INVARIANTS
  OffIsQuiet
  AgreesAtRest
  PatchesSurvive
PROPERTIES
  NotToastedTwice
  SwitchIsAnswered
