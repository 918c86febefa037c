SPECIFICATION Spec
CONSTANTS
  Node = {e, h, a, b}
  Entry = e
  CfgHead = h
  NoNode = null
  MaxLoop = 3
INVARIANTS
  NoSameLoop
