\* One process that builds twice in the same directory.
CONSTANTS
  Callers = {c1}
  Requests <- Rebuilds
  MaxCalls = 2
  Hosts <- OneHost
  Results <- SomeResults
  Oracle <- TheOracle
  Tol = 1
  NaN = NaN
SPECIFICATION Spec
INVARIANT ReturnedIsGood
CHECK_DEADLOCK FALSE
