\* Three cores (both edges and a middle PE), an odd trip count: the last trip is peeled.
CONSTANTS
  PES = 3
  T = 5
SPECIFICATION Spec
INVARIANTS
  FreshAtUpdate
  EarlyStripHarmless
  NeighbourSkew
  FinalCounts
  NoCircularWait
  IInv
PROPERTIES
  DrainedInOrder
  ImplementsJacobi
