CONSTANTS
  WETH = WETH
  ARB = ARB
  DAI = DAI
  WBTC = WBTC
  USDT = USDT
  USDC_E = USDC_E
  Tokens = {WETH, ARB, DAI, WBTC, USDT, USDC_E}
  ZeroAddress = ZeroAddress
  CamelotRouter = CamelotRouter
  Overrides = {CamelotRouter}
  Opportunities <- MCOpportunities
  Unit <- MCUnit
  EthUnit = 100
  RateOne = 10
  SlippageBps = 50
  MinLoan = 1
  MaxLoan = 3
  Profits <- MCProfits
  MaxIter = 3
  CurvePools <- MCCurvePools
  BalancerPools <- MCBalancerPools
SPECIFICATION Spec
CHECK_DEADLOCK FALSE
INVARIANT SlippageTolerance
