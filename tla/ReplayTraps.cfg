SPECIFICATION MCSpec
CONSTANTS
  Lo = 2
  Hi = 5
  KeyMod = 64
  Traps = TRUE
  EdgeCap = 0
  MaxFlow = 1
  FlowAddr = {4}
  FlowClass = {"branch"}
CHECK_DEADLOCK FALSE
INVARIANTS
  SanityCheck
  OnePlace
  OnlySplitFails
PROPERTIES
  MappedEdgeKept
