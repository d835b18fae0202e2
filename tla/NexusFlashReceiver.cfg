CONSTANTS
  Accounts = {deployer, bot}
  WETH = WETH
  USDC = USDC
  DAI = DAI
  Tokens = {WETH, USDC, DAI}
  Camelot = Camelot
  Uniswap = Uniswap
  Curve = Curve
  Balancer = Balancer
  Aave = Aave
  ZeroAddress = ZeroAddress
  Overrides = {Camelot}
  Routes <- MCRoutes
  Amounts = {1, 2}
  Premium = 1
  MaxOut = 3
  HeldCap = 3
SPECIFICATION Spec
INVARIANTS NoStandingAllowance RepaymentIsExact NothingStranded ReceiverInv
PROPERTY LoansAreAtomic
