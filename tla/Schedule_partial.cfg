\* Clauses over several operands, good and bad ones among them.
CONSTANTS
  KernelAxes <- Axes
  Extent <- AxisExtent
  Operands <- Params
  GridArgs <- Herds
  Factors <- TileBy
  Uses <- HerdAndLoops
SPECIFICATION Spec
PROPERTY NoPartialClause
CHECK_DEADLOCK FALSE
