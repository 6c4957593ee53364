\* The clauses about the herd in every order.
CONSTANTS
  KernelAxes <- Axes
  Extent <- AxisExtent
  Operands <- Params
  GridArgs <- Herds
  Factors <- TileBy
  Uses <- HerdAndLoops
SPECIFICATION Spec
INVARIANT PlaceInAnyOrder
CHECK_DEADLOCK FALSE
