SPECIFICATION FairLaneSpec
CONSTANTS
  Jobs = {"j1", "j2"}
  Labels = {"a", "b", "c"}
  Works = {"w1", "w2"}
  Fences = {"f"}
  Delays = {1}
  Capacity = 2
INVARIANTS
  LaneInv
  FenceIsAFence
PROPERTIES
  RunnableIsStarted
