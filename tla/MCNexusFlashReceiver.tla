------------------------ MODULE MCNexusFlashReceiver ------------------------
(***************************************************************************)
(* NexusFlashReceiver with three tokens, cycles of two and three hops over *)
(* every kind of exchange and both kinds of router address, and routes the *)
(* bot never builds.                                                       *)
(***************************************************************************)
EXTENDS NexusFlashReceiver

CONSTANTS WETH, USDC, DAI, Camelot

Step(dex, router, in, out, amount) ==
  [dexType |-> dex, router |-> router, tokenIn |-> in, tokenOut |-> out,
   amountIn |-> amount, minAmountOut |-> 1]

\* What build_route makes: cycles with the whole balance at every step.
BotRoutes ==
  {<<Step(DEX_UNISWAP_V3, ZeroAddress, WETH, USDC, 0),
     Step(DEX_CURVE, ZeroAddress, USDC, WETH, 0)>>,
   <<Step(DEX_CAMELOT_V3, Camelot, WETH, USDC, 0),
     Step(DEX_CURVE, ZeroAddress, USDC, DAI, 0),
     Step(DEX_BALANCER, ZeroAddress, DAI, WETH, 0)>>}

\* What else the contract accepts: an explicit amount, an unknown dexType.
MCRoutes ==
  BotRoutes \cup
  {<<Step(DEX_UNISWAP_V3, ZeroAddress, WETH, USDC, 1)>>,
   <<Step(4, ZeroAddress, WETH, USDC, 0)>>}
=============================================================================
