SPECIFICATION Spec
CONSTANTS
  Node = {e, h, a, b}
  Entry = e
  CfgHead = h
  NoNode = null
INVARIANTS
  NeverNull
  ReadsReach
  PhiNeeded
  ErasedUnused
  ListedBeforeUse
