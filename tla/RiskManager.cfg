CONSTANTS
  MaxConsecutiveFail = 2
  FailureCooldown = 3
  MaxDailyLoss = 2
  MaxOpenPositions = 2
  VarHistory = 2
  Loans = {1, 2}
  MinLoan = 1
  MaxGas = 2
  MaxProfit = 2
  PnlCap = 2
SPECIFICATION RiskFairSpec
INVARIANTS DailyLossBounded RiskInv
PROPERTIES BreakerSpacing BreakerReopens
