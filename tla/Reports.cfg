SPECIFICATION MCSpec
CONSTANTS
  Lo = 2
  Hi = 5
  KeyMod = 64
  Traps = FALSE
  EdgeCap = 12
  MaxTrace = 12
  MaxFlow = 2
  FlowAddr = {2,3,4,5}
  FlowClass = {"branch","sys"}
INVARIANTS
  CyclesOnce
  CountsUniform
  WeightsAddUp
