CONSTANTS
  Endpoints = {e1, e2}
  UniV3Pools = {"univ3"}
  CurveEdges = {"curve_0_1"}
  BalancerEdges <- MCBalancerEdges
  Reverse <- MCReverse
  Cycles <- MCCycles
  OpportunityTtl = 0
  AgeCap = 1
SPECIFICATION FairSpec
INVARIANTS MarketInv
PROPERTIES NoStragglers ScanEnds EndpointRecovers UnfitEndpointLeaves
CHECK_DEADLOCK FALSE
