CONSTANTS
  Tokens = {1, 2, 3}
  Weights <- MCSteepWeights
  MaxEdges = 5
  FlashFee = 1
SPECIFICATION Spec
INVARIANT ProfitIsFound
CHECK_DEADLOCK FALSE
