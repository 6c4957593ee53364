\* Three PEs and three rows: a middle PE, both phases, and the peeled row.
CONSTANTS
  PES = 3
  T = 3
SPECIFICATION Spec
INVARIANTS
  EdgesAreTheSkew
PROPERTIES
  LastColumnAgrees
  ImplementsWavefront
