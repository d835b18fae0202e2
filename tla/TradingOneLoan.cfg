CONSTANTS
  MaxConsecutiveFail = 2
  FailureCooldown = 2
  MaxDailyLoss = 2
  MaxOpenPositions = 1
  VarHistory = 1
  Loans = {1, 2}
  MinLoan = 1
  MaxGas = 1
  MaxProfit = 2
  PnlCap = 2
  TxIds = {t1, t2}
  NoTx = NoTx
  ReceiptTimeout = 2
  RecentWindow = 1
  RecentBound = 2
SPECIFICATION Spec
INVARIANT OneFlashLoanAtATime
