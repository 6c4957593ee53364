\* The plans of SelfCheck.cfg, balanced body by body or not.
CONSTANTS
  Actor <- Actors
  Dests <- ActorDests
  Plans <- PairAndFan
SPECIFICATION PlanSpec
INVARIANT ZippingIsExact
CHECK_DEADLOCK FALSE
