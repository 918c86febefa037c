SPECIFICATION MCSpec
CONSTANTS
  Lo = 2
  Hi = 5
  KeyMod = 64
  Traps = FALSE
  EdgeCap = 0
  MaxFlow = 2
  FlowAddr = {2,3,4,5}
  FlowClass = {"branch","sys"}
INVARIANTS
  Rooted
  ListingExact
  MergeFault
PROPERTIES
  FlowSpec
  Finishes
