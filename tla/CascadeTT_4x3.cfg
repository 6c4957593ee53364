\* Four cores, as the kernel has - head, two in the middle, tail - in both
\* directions, and three row tiles.
CONSTANTS
  PES = 4
  T = 3
SPECIFICATION Spec
INVARIANTS
  ReceivesPrefix
  SlotIsFree
PROPERTIES
  ImplementsReduction
