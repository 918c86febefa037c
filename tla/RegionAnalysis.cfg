SPECIFICATION Spec
CONSTANTS
  Node = {e, h, a, b}
  Entry = e
  CfgHead = h
  NoNode = null
  MaxLoop = 3
  MaxJumpy = 1
INVARIANTS
  QueriesAgree
  FrontierExact
  LoopsExact
  Forest
  AssertOnlyTwins
  ClustersNest
PROPERTIES
  Terminates
