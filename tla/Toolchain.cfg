CONSTANTS
  Callers = {c1, c2}
  Requests <- AllRequests
  MaxCalls = 1
  Hosts <- AnyHost
  Results <- SomeResults
  Oracle <- TheOracle
  Tol = 1
  NaN = NaN
SPECIFICATION Spec
INVARIANTS
  ReturnedIsGood
  DeviceExclusive
  NothingLeftOpen
  MatchIsAgreement
PROPERTY EveryCallEnds
\* The processes stop when they have made their calls.
CHECK_DEADLOCK FALSE
