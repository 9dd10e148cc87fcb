SPECIFICATION LaneSpec
CONSTANTS
  Jobs = {"j"}
  Labels = {"a"}
  Works = {"w"}
  Fences = {"f"}
  Delays = {1}
  Capacity = 2
INVARIANTS
  DueJobsPrecedeFence
