SPECIFICATION MCSpec
CONSTANTS
  Lo = 2
  Hi = 5
  KeyMod = 3
  Traps = FALSE
  EdgeCap = 2
  MaxFlow = 2
  FlowAddr = {2,3,4,5}
  FlowClass = {"branch","sys"}
CHECK_DEADLOCK FALSE
INVARIANTS
  TypeOK
  NoFault
  InsMapExact
  SanityCheck
  EdgesExecuted
  EdgesComplete
  NothingLost
