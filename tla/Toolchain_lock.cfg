\* Every call with a scratch directory of its own.
CONSTANTS
  Callers = {c1, c2}
  Requests <- ScratchRuns
  MaxCalls = 1
  Hosts <- OneHost
  Results <- SomeResults
  Oracle <- TheOracle
  Tol = 1
  NaN = NaN
SPECIFICATION Spec
INVARIANT DeviceExclusive
CHECK_DEADLOCK FALSE
