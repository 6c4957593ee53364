\* Four cores, as the kernel has, and five rows: a first, two middle and a last core, both phases,
\* and the peeled row.
CONSTANTS
  PES = 4
  T = 5
SPECIFICATION Spec
INVARIANTS
  ReadyAtScore
  Skew
PROPERTIES
  ImplementsWavefront
