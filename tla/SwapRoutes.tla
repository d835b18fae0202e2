------------------------------ MODULE SwapRoutes ------------------------------
(***************************************************************************)
(* The swap steps the execution router hands to the receiver contract: the *)
(* struct SwapStep, and the shape of the routes that both sides rely on.   *)
(***************************************************************************)
EXTENDS Integers, Sequences

CONSTANTS
  Tokens,      \* ERC-20 tokens; the contract's ETH counts as one of them
  Overrides,   \* the router addresses a step may name
  ZeroAddress  \* no routerOverride

\* dexType
DEX_UNISWAP_V3 == 0
DEX_CURVE == 1
DEX_BALANCER == 2
DEX_CAMELOT_V3 == 3
DexTypes == DEX_UNISWAP_V3..DEX_CAMELOT_V3

SwapSteps ==
  {s \in [dexType : Nat, router : Overrides \cup {ZeroAddress},
          tokenIn : Tokens, tokenOut : Tokens, amountIn : Nat,
          minAmountOut : Nat] : s.tokenIn # s.tokenOut}

TokensOf(r) == {r[i].tokenIn : i \in DOMAIN r} \cup {r[i].tokenOut : i \in DOMAIN r}

\* The routes build_route makes: every step takes the whole balance, the
\* steps are chained, and the last one returns the borrowed token.
IsCycleOf(r, a) ==
  /\ r # <<>>
  /\ r[1].tokenIn = a /\ r[Len(r)].tokenOut = a
  /\ \A i \in DOMAIN r : r[i].amountIn = 0 /\ r[i].dexType \in DexTypes
  /\ \A i \in 1..(Len(r) - 1) : r[i].tokenOut = r[i + 1].tokenIn
=============================================================================
