CONSTANTS
  Endpoints = {e1, e2}
  UniV3Pools = {"univ3"}
  CurveEdges = {"curve_0_1"}
  BalancerEdges <- MCBalancerEdges
  Reverse <- MCReverse
  Cycles <- MCCycles
  OpportunityTtl = 1
  AgeCap = 2
SPECIFICATION Spec
INVARIANT OpportunityIsFresh
CHECK_DEADLOCK FALSE
