\* Four payloads, every sequence of non-empty regions over three bytes: the
\* credit takes every value from 1 to 4.
CONSTANTS
  b1 = b1
  b2 = b2
  b3 = b3
  N = 4
  Byte <- L1Bytes
SPECIFICATION Spec
INVARIANTS
  TypeOK
  IntactWhileUsed
PROPERTIES
  ImplementsFifo
