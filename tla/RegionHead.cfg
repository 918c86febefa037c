SPECIFICATION Spec
CONSTANTS
  K = 4
INVARIANTS
  RegionComplete
  EntersAnalysis
PROPERTIES
  HeadFound
