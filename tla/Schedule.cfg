\* Herd, placement and delivery clauses in every order, up to four of them; axis
\* and operand clauses in every order, up to two.
CONSTANTS
  KernelAxes <- Axes
  Extent <- AxisExtent
  Operands <- Params
  GridArgs <- Herds
  Factors <- TileBy
  Uses <- HerdAndLoops
SPECIFICATION Spec
INVARIANTS
  TilesExact
  ModelWellFormed
PROPERTIES
  RefusedChangesNothing
\* The user may stop calling clauses at any point.
CHECK_DEADLOCK FALSE
