\* Bodies of at most two regions: two coordinates facing each other, and the
\* segment with both.
CONSTANTS
  Actor <- Actors
  Dests <- ActorDests
  Plans <- PairAndFan
SPECIFICATION PlanSpec
INVARIANTS
  OnlyCirclesHang
  ExactOnStraightLine
  PerBodyIsSafe
\* A plan that hangs is refused, or is what a property is about; others finish.
CHECK_DEADLOCK FALSE
