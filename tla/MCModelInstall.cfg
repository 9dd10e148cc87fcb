SPECIFICATION Spec
CONSTANTS
  MaxAttempts = 2
  MaxCancels = 1
  MaxPatches = 1
  MaxFaults = 1
CHECK_DEADLOCK FALSE
INVARIANTS
  AllOrNothing
  CancelIsFinal
PROPERTIES
  LatestChoiceWins
  ReplacedUnderAbsence
  CancelEnds
