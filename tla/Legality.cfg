CONSTANTS
  Cases <- Small
  L1Usable = 60
SPECIFICATION StagingSpec
INVARIANTS
  NothingShared
  AcceptedIsCausal
  StationaryStays
  PartialSumsOnOneLine
  WindowCoversReads
  WorkingSetFits
  ComputesKernel
\* A plan that is run, or a refusal, ends the compilation.
CHECK_DEADLOCK FALSE
