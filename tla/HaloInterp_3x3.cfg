\* Three PEs and the segment actor, an odd trip count: the last trip is peeled.
CONSTANTS
  PES = 3
  T = 3
SPECIFICATION Spec
INVARIANTS
  AtMostTwoStrips
PROPERTIES
  ImplementsJacobi
