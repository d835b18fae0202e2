--------------------------- MODULE ExecutionRouter ---------------------------
(***************************************************************************)
(* From an opportunity to a route: build_route of execution_router.py and  *)
(* the size search of algorithms/cma_es.py it calls, one action per        *)
(* generation of the search and one per hop of the cycle.                  *)
(*                                                                         *)
(* A trade size is a whole number of ETH, an amount a number of raw units, *)
(* a rate a fraction of RateOne. What the search draws from its normal     *)
(* distribution is arbitrary within the bounds it clips to, and so is the  *)
(* profit of each size, which depends on depths the model leaves out.      *)
(***************************************************************************)
EXTENDS SwapRoutes

CONSTANTS
  Opportunities, \* what BellmanFord.detect returned
  Unit,          \* raw units of one whole token: 10 to its decimals
  EthUnit,       \* 10^18, whatever the token
  RateOne,       \* the rate of an even exchange
  SlippageBps,   \* max_slippage_bps
  MinLoan, MaxLoan, \* min_flash_loan_eth, max_flash_loan_eth
  Profits,       \* profits in ETH, after fees and gas
  MaxIter,       \* max_iterations of the search
  CurvePools, BalancerPools, \* the pools of the configuration, by name
  CamelotRouter

\* A pool's identifier in the price graph: the parts of its name between the
\* underscores, the configured name first.
PoolPrices ==
  [dex : STRING, id : Seq(STRING), tokenIn : Tokens, tokenOut : Tokens, rate : Nat]

\* The cycles BellmanFord promises: closed, of at least two hops, each hop over
\* a pool that trades in its direction.
IsOpportunity(o) ==
  /\ o.maxInput \in Nat
  /\ o.cycle \in Seq(Tokens) /\ o.pools \in Seq(PoolPrices)
  /\ Len(o.cycle) >= 3 /\ Len(o.pools) = Len(o.cycle) - 1
  /\ o.cycle[1] = o.cycle[Len(o.cycle)]
  /\ \A i \in DOMAIN o.pools : /\ o.pools[i].tokenIn = o.cycle[i]
                               /\ o.pools[i].tokenOut = o.cycle[i + 1]
                               /\ o.cycle[i] # o.cycle[i + 1]
                               /\ o.pools[i].id # <<>>

ASSUME RouterAssumption ==
  /\ \A o \in Opportunities : IsOpportunity(o)
  /\ Unit \in [Tokens -> Nat \ {0}]
  /\ EthUnit \in Nat \ {0} /\ RateOne \in Nat \ {0}
  /\ SlippageBps \in 0..10000
  /\ MinLoan \in Nat \ {0} /\ MaxLoan \in Nat
  /\ Profits \subseteq Int
  /\ MaxIter \in Nat \ {0}
  /\ CamelotRouter \in Overrides

VARIABLES
  opportunity,
  profit,      \* what each size would gain
  stage,       \* sizing, hops, built or none
  generation,  \* generations of the search done
  bestSize, bestProfit, \* best_x and best_profit
  hop,         \* the next hop of the cycle
  amount,      \* current_amount
  steps        \* the steps of the builder

searchVars == <<generation, bestSize, bestProfit>>
vars == <<opportunity, profit, stage, searchVars, hop, amount, steps>>

\* A faulty bound that forgets the configured maximum.
UnboundedMaxSize(o) == o.maxInput

MaxSize(o) == IF o.maxInput <= MaxLoan THEN o.maxInput ELSE MaxLoan
Sizes == MinLoan..MaxSize(opportunity)

\* The search starts at the largest size, which stands as the best so far.
Init ==
  /\ opportunity \in Opportunities
  /\ profit \in [MinLoan..MaxSize(opportunity) -> Profits]
  /\ stage = IF MaxSize(opportunity) < MinLoan THEN "none" ELSE "sizing"
  /\ generation = 0
  /\ bestSize = MaxSize(opportunity)
  /\ bestProfit = IF stage = "sizing" THEN profit[bestSize] ELSE 0
  /\ hop = 1
  /\ amount = 0
  /\ steps = <<>>

-----------------------------------------------------------------------------
KeepBest(gain, size) ==
  IF gain > bestProfit
    THEN bestProfit' = gain /\ bestSize' = size
    ELSE UNCHANGED <<bestProfit, bestSize>>

\* A faulty generation that sorts profits and sizes in opposite orders.
GenerationCrossed ==
  /\ stage = "sizing"
  /\ generation < MaxIter
  /\ \E worst, best \in Sizes :
       /\ profit[worst] <= profit[best]
       /\ KeepBest(profit[best], worst)
  /\ generation' = generation + 1
  /\ UNCHANGED <<opportunity, profit, stage, hop, amount, steps>>

\* fk[order[::-1]] is ascending: what is compared is the profit of the worst
\* sample of the generation, what is kept beside it the size of the best.
Generation ==
  /\ stage = "sizing"
  /\ generation < MaxIter
  /\ \E worst, best \in Sizes :
       /\ profit[worst] <= profit[best]
       /\ KeepBest(profit[worst], best)
  /\ generation' = generation + 1
  /\ UNCHANGED <<opportunity, profit, stage, hop, amount, steps>>

\* The search converged or ran out of generations: its mean is tried as well,
\* and the loan is the best size in units of 18 decimals.
EndSearch ==
  /\ stage = "sizing"
  /\ generation > 0
  /\ \E mean \in Sizes : KeepBest(profit[mean], mean)
  /\ IF bestProfit' <= 0 THEN stage' = "none" /\ UNCHANGED amount
                         ELSE stage' = "hops" /\ amount' = bestSize' * EthUnit
  /\ UNCHANGED <<opportunity, profit, generation, hop, steps>>

-----------------------------------------------------------------------------
Pool == opportunity.pools[hop]

\* Pools are looked up by the part of their name before the first underscore.
Routable(pool) ==
  \/ pool.dex \in {"uniswap_v3", "camelot_v3"}
  \/ /\ pool.dex = "curve"
     /\ <<Head(pool.id)>> \in DOMAIN CurvePools
     /\ {pool.tokenIn, pool.tokenOut} \subseteq CurvePools[<<Head(pool.id)>>]
  \/ /\ pool.dex = "balancer"
     /\ <<Head(pool.id)>> \in BalancerPools

\* expected_out, without regard to the decimals of the two tokens.
ExpectedOut(pool) == (amount * pool.rate) \div RateOne

Tolerated(out) == (out * (10000 - SlippageBps)) \div 10000

DexTypeOf(pool) ==
  CASE pool.dex \in {"uniswap_v3", "camelot_v3"} -> DEX_UNISWAP_V3
    [] pool.dex = "curve" -> DEX_CURVE
    [] OTHER -> DEX_BALANCER

\* A faulty step that sells what the hop buys.
StepOverBackwards(pool) ==
  [dexType |-> DexTypeOf(pool),
   router |-> IF pool.dex = "camelot_v3" THEN CamelotRouter ELSE ZeroAddress,
   tokenIn |-> opportunity.cycle[hop + 1], tokenOut |-> opportunity.cycle[hop],
   amountIn |-> 0, minAmountOut |-> Tolerated(ExpectedOut(pool))]

\* The tokens come from the cycle, the exchange and the rate from the pool.
StepOver(pool) ==
  [dexType |-> DexTypeOf(pool),
   router |-> IF pool.dex = "camelot_v3" THEN CamelotRouter ELSE ZeroAddress,
   tokenIn |-> opportunity.cycle[hop], tokenOut |-> opportunity.cycle[hop + 1],
   amountIn |-> 0, minAmountOut |-> Tolerated(ExpectedOut(pool))]

\* A faulty loop that computes every hop from the loan.
AddHopFromLoan ==
  /\ stage = "hops"
  /\ hop <= Len(opportunity.pools)
  /\ Routable(Pool)
  /\ steps' = Append(steps, StepOver(Pool))
  /\ hop' = hop + 1
  /\ UNCHANGED <<opportunity, profit, stage, searchVars, amount>>

AddHop ==
  /\ stage = "hops"
  /\ hop <= Len(opportunity.pools)
  /\ Routable(Pool)
  /\ steps' = Append(steps, StepOver(Pool))
  /\ amount' = ExpectedOut(Pool)
  /\ hop' = hop + 1
  /\ UNCHANGED <<opportunity, profit, stage, searchVars>>

DropRoute ==
  /\ stage = "hops"
  /\ hop <= Len(opportunity.pools)
  /\ ~Routable(Pool)
  /\ stage' = "none"
  /\ UNCHANGED <<opportunity, profit, searchVars, hop, amount, steps>>

FinishRoute ==
  /\ stage = "hops"
  /\ hop > Len(opportunity.pools)
  /\ stage' = "built"
  /\ UNCHANGED <<opportunity, profit, searchVars, hop, amount, steps>>

Next == Generation \/ EndSearch \/ AddHop \/ DropRoute \/ FinishRoute

Spec == Init /\ [][Next]_vars

-----------------------------------------------------------------------------
RouterTypeOK ==
  /\ opportunity \in Opportunities
  /\ profit \in [Sizes -> Profits]
  /\ stage \in {"sizing", "hops", "built", "none"}
  /\ generation \in 0..MaxIter /\ bestProfit \in Int
  /\ stage # "none" => bestSize \in Sizes
  /\ hop \in 1..(Len(opportunity.pools) + 1)
  /\ amount \in Nat
  /\ steps \in Seq(SwapSteps)

\* The loan of a route passes the two size gates of RiskManager.pre_trade_check
\* as it is: it is neither refused nor cut after the minimum outputs were
\* computed for it.
SizeWithinGates ==
  stage \in {"hops", "built"} => MinLoan <= bestSize /\ bestSize <= MaxLoan

\* The profit the risk check is told is never more than the size it is told
\* of gains, although the search tracks the two apart and from different
\* samples, and it is never nil.
ProfitNotOverstated ==
  stage \in {"hops", "built"} =>
    0 < bestProfit /\ bestProfit <= profit[bestSize]

\* A finished route is a chained cycle of whole-balance steps from the first
\* token of the opportunity back to it, which is what the receiver needs to
\* strand nothing.
RoutesAreCycles ==
  stage = "built" => IsCycleOf(steps, opportunity.cycle[1])

\* What a hop pays at the quoted rates for `in` raw units of its token.
QuotedOut(pool, in) ==
  (in * pool.rate * Unit[pool.tokenOut]) \div (RateOne * Unit[pool.tokenIn])

\* What the first i hops turn the loan into at the quoted rates.
QuotedAlong ==
  LET after[i \in 0..Len(opportunity.pools)] ==
        IF i = 0 THEN bestSize * EthUnit
                 ELSE QuotedOut(opportunity.pools[i], after[i - 1])
  IN after

WithinTolerance(i) ==
  steps[i].minAmountOut \in Tolerated(QuotedAlong[i])..QuotedAlong[i]

\* Among tokens of equal decimals every minimum is within the tolerance of
\* what the route gives at the quoted rates, however long it is: it executes
\* at these rates, and not below the tolerance of any hop.
EqualDecimalsExecute ==
  (stage = "built" /\ \A s, t \in TokensOf(steps) : Unit[s] = Unit[t]) =>
    \A i \in DOMAIN steps : WithinTolerance(i)

\* The steps built so far follow the opportunity, hop by hop.
StepsFollowCycle ==
  /\ Len(steps) = hop - 1
  /\ \A i \in DOMAIN steps :
       /\ steps[i].tokenIn = opportunity.cycle[i]
       /\ steps[i].tokenOut = opportunity.cycle[i + 1]
       /\ steps[i].amountIn = 0 /\ steps[i].dexType \in DexTypes

\* What the first i hops of an opportunity turn a loan into for the router,
\* which takes every token to have the same decimals.
RoutedAlong(o, size) ==
  LET after[i \in 0..Len(o.pools)] ==
        IF i = 0 THEN size * EthUnit
                 ELSE (after[i - 1] * o.pools[i].rate) \div RateOne
  IN after

\* Each minimum is computed from what the hops before it give, not from the
\* loan: current_amount moves along with the builder.
MinimumsFollowRates ==
  stage \in {"hops", "built"} =>
    /\ amount = RoutedAlong(opportunity, bestSize)[hop - 1]
    /\ \A i \in DOMAIN steps :
         steps[i].minAmountOut = Tolerated(RoutedAlong(opportunity, bestSize)[i])

\* The inductive invariant of the router.
RouterInv ==
  /\ RouterTypeOK
  /\ stage # "none" => MaxSize(opportunity) >= MinLoan
  /\ stage # "none" => bestProfit <= profit[bestSize]
  /\ stage \in {"hops", "built"} => bestProfit > 0
  /\ StepsFollowCycle
  /\ stage = "sizing" => hop = 1
  /\ MinimumsFollowRates
  /\ stage = "built" => hop = Len(opportunity.pools) + 1

-----------------------------------------------------------------------------
\* config.yaml: "0.5% max slippage tolerance". The minimum of a hop ignores the
\* decimals of its tokens: from 18 to 6 it asks for far more than the pool pays
\* and the trade always reverts, from 6 to 18 for next to nothing.
SlippageTolerance ==
  stage = "built" => \A i \in DOMAIN steps : WithinTolerance(i)
=============================================================================
