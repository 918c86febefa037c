SPECIFICATION MCSpec
CONSTANTS
  Node = {1, 2, 3, 4, 5}
  Entry = 1
  CfgHead = 2
  NoNode = 0
  MaxExtra = 3
INVARIANTS
  SweepsSound
  LinksSound
PROPERTIES
  DominatorTreeSpec
