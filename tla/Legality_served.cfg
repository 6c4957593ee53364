\* Four kernels whose data flow the captured dependences do not tell, five mappings
\* that are planned wrong, and one that is declined as a defect of the compiler.
CONSTANTS
  Cases <- Misserved
  L1Usable = 1000
SPECIFICATION StagingSpec
INVARIANT ServedAsWritten
CHECK_DEADLOCK FALSE
