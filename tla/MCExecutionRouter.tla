-------------------------- MODULE MCExecutionRouter --------------------------
(***************************************************************************)
(* ExecutionRouter with the Curve and Balancer pools of config.yaml and a  *)
(* Balancer pool whose name has no underscore; tokens of 18, 8 and 6       *)
(* decimals; cycles over every kind of exchange, one over a pool too       *)
(* shallow to trade and one over a pool the router cannot look up.         *)
(***************************************************************************)
EXTENDS ExecutionRouter, TLC

CONSTANTS WETH, ARB, DAI, WBTC, USDT, USDC_E

MCProfits == {-1, 0, 1, 2}

MCUnit == [t \in Tokens |-> CASE t \in {USDT, USDC_E} -> 10
                             [] t = WBTC -> 20
                             [] OTHER -> 100]

MCCurvePools ==
  (<<"2pool">> :> {USDC_E, USDT}) @@ (<<"tricrypto">> :> {USDT, WBTC, WETH})
MCBalancerPools == {<<"wstETH", "WETH">>, <<"WBTC", "WETH", "USDC">>, <<"weighted">>}

Quote(dex, id, in, out, rate) ==
  [dex |-> dex, id |-> id, tokenIn |-> in, tokenOut |-> out, rate |-> rate]

\* The cycle over these quotes.
Over(pools, maxInput) ==
  [cycle |-> [i \in 1..(Len(pools) + 1) |->
                IF i = 1 THEN pools[1].tokenIn ELSE pools[i - 1].tokenOut],
   pools |-> pools, maxInput |-> maxInput]

MCRates == {7, 10, 13}

MCOpportunities ==
  {Over(<<Quote("uniswap_v3", <<"WETH", "DAI", "500">>, WETH, DAI, r),
          Quote("camelot_v3", <<"ARB", "DAI", "500", "rev">>, DAI, ARB, s),
          Quote("uniswap_v3", <<"ARB", "WETH", "500">>, ARB, WETH, 9)>>, 4)
     : r, s \in MCRates}
  \cup
  {Over(<<Quote("balancer", <<"weighted", "0", "1">>, ARB, WETH, r),
          Quote("uniswap_v3", <<"ARB", "WETH", "500", "rev">>, WETH, ARB, s)>>, 2)
     : r, s \in MCRates}
  \cup
  {Over(<<Quote("curve", <<"2pool", "0", "1">>, USDC_E, USDT, r),
          Quote("uniswap_v3", <<"USDC", "USDT", "100", "rev">>, USDT, USDC_E, 12)>>, 2)
     : r \in MCRates}
  \cup
  {Over(<<Quote("curve", <<"tricrypto", "2", "0">>, WETH, USDT, 20),
          Quote("curve", <<"2pool", "1", "0">>, USDT, USDC_E, 10),
          Quote("uniswap_v3", <<"WETH", "USDC", "500", "rev">>, USDC_E, WETH, 6)>>, 3),
   Over(<<Quote("balancer", <<"WBTC", "WETH", "USDC", "1", "2">>, WETH, USDC_E, 15),
          Quote("uniswap_v3", <<"WETH", "USDC", "500", "rev">>, USDC_E, WETH, 7)>>, 2),
   Over(<<Quote("uniswap_v3", <<"ARB", "WETH", "500">>, ARB, WETH, 15),
          Quote("uniswap_v3", <<"ARB", "WETH", "3000", "rev">>, WETH, ARB, 7)>>, 0)}
=============================================================================
