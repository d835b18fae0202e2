CONSTANTS
  Tokens = {1, 2, 3}
  Weights <- MCWeights
  MaxEdges = 5
  FlashFee = 1
SPECIFICATION FairSpec
INVARIANTS BellmanFordInv CyclesAreTradable CyclesAreNegative FlagsAreExact EarlyExitIsSafe
PROPERTY Terminates
CHECK_DEADLOCK FALSE
