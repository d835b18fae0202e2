------------------------ MODULE ExecutionRouterProofs ------------------------
(***************************************************************************)
(* For every opportunity of the detector, whatever the search samples and  *)
(* whatever the sizes gain: the loan is within the gates of the risk       *)
(* manager, its profit is not overstated, and a finished route is a cycle  *)
(* that asks no more of its hops than they pay among equal decimals.       *)
(***************************************************************************)
EXTENDS ExecutionRouter, WalkLemmas

LEMMA OpportunityTypes ==
  ASSUME NEW o \in Opportunities
  PROVE  /\ o.maxInput \in Nat /\ o.cycle \in Seq(Tokens) /\ o.pools \in Seq(PoolPrices)
         /\ Len(o.cycle) >= 3 /\ Len(o.pools) = Len(o.cycle) - 1
         /\ o.cycle[1] = o.cycle[Len(o.cycle)]
         /\ \A i \in DOMAIN o.pools : /\ o.pools[i].tokenIn = o.cycle[i]
                                      /\ o.pools[i].tokenOut = o.cycle[i + 1]
                                      /\ o.cycle[i] # o.cycle[i + 1]
  BY RouterAssumption DEF IsOpportunity

LEMMA NumberTypes ==
  /\ \A gain \in Profits : gain \in Int
  /\ EthUnit \in Nat /\ MaxIter \in Nat
  BY RouterAssumption

LEMMA MaxSizeBounds ==
  ASSUME NEW o \in Opportunities
  PROVE  MaxSize(o) \in Nat /\ MaxSize(o) <= MaxLoan /\ MinLoan \in Nat \ {0}
  BY OpportunityTypes, RouterAssumption DEF MaxSize

\* A quarter of a hop's arithmetic is enough: its outputs are naturals.
LEMMA OutTypes ==
  /\ \A n \in Nat : Tolerated(n) \in Nat
  /\ \A m, n \in Nat : (m * n) \div RateOne \in Nat
  <1>1. ASSUME NEW n \in Nat PROVE Tolerated(n) \in Nat
    <2>1. 10000 - SlippageBps \in Nat
      BY RouterAssumption
    <2>2. n * (10000 - SlippageBps) \in Nat
      BY <2>1
    <2>3. QED
      BY <2>2 DEF Tolerated
  <1>2. ASSUME NEW m \in Nat, NEW n \in Nat PROVE (m * n) \div RateOne \in Nat
    <2>1. m * n \in Nat
      OBVIOUS
    <2>2. QED
      BY <2>1, RouterAssumption
  <1>3. QED
    BY <1>1, <1>2

-----------------------------------------------------------------------------
LEMMA ProductIsMonotone ==
  ASSUME NEW b \in Nat, NEW m \in Int, NEW n \in Int, m <= n
  PROVE  b * m \in Int /\ b * n \in Int /\ b * m <= b * n
  OBVIOUS

LEMMA QuotientAndRest ==
  ASSUME NEW a \in Nat, NEW b \in Nat \ {0}
  PROVE  /\ a \div b \in Nat
         /\ b * (a \div b) \in Nat
         /\ b * (a \div b) <= a
         /\ a < b * (a \div b) + b
  OBVIOUS

\* Division is determined by the rest it leaves.
LEMMA QuotientIsUnique ==
  ASSUME NEW a \in Nat, NEW b \in Nat \ {0}, NEW q \in Nat,
         b * q <= a, a < b * q + b
  PROVE  a \div b = q
  <1> DEFINE d == a \div b
  <1>1. d \in Nat /\ b * d \in Nat /\ b * d <= a /\ a < b * d + b
    BY QuotientAndRest
  <1> HIDE DEF d
  <1>2. b * (d + 1) = b * d + b /\ b * (q + 1) = b * q + b
    BY <1>1
  <1>3. CASE d + 1 <= q
    <2>1. b * (d + 1) <= b * q
      BY <1>1, <1>3, ProductIsMonotone
    <2>2. QED
      BY <1>1, <1>2, <2>1
  <1>4. CASE q + 1 <= d
    <2>1. b * (q + 1) <= b * d
      BY <1>1, <1>4, ProductIsMonotone
    <2>2. QED
      BY <1>1, <1>2, <2>1
  <1>5. d = q
    BY <1>1, <1>3, <1>4
  <1>6. QED
    BY <1>5 DEF d

\* A factor of both sides of a division changes nothing: how rounding down
\* treats tokens of equal decimals.
LEMMA CommonFactor ==
  ASSUME NEW a \in Nat, NEW b \in Nat \ {0}, NEW u \in Nat \ {0}
  PROVE  (a * u) \div (b * u) = a \div b
  <1> DEFINE q == a \div b
             c == b * u
  <1>1. q \in Nat /\ b * q \in Nat /\ b * q <= a /\ a < b * q + b
    BY QuotientAndRest
  <1>2. c \in Nat \ {0} /\ a * u \in Nat
    OBVIOUS
  <1>3. c * q <= a * u /\ a * u < c * q + c
    <2> HIDE DEF q
    <2>1. u * (b * q) <= u * a
      BY <1>1, ProductIsMonotone
    <2>2. u * (a + 1) <= u * (b * q + b)
      <3>1. a + 1 <= b * q + b
        BY <1>1
      <3>2. a + 1 \in Int /\ b * q + b \in Int
        BY <1>1
      <3> DEFINE m == a + 1
                 n == b * q + b
      <3> HIDE DEF m, n
      <3>3. u * m <= u * n
        BY <3>1, <3>2, ProductIsMonotone DEF m, n
      <3>4. QED
        BY <3>3 DEF m, n
    <2>3. /\ u * (b * q) = c * q /\ u * (b * q + b) = c * q + c
          /\ u * a = a * u /\ u * (a + 1) = a * u + u
      BY <1>1
    <2>4. QED
      BY <1>1, <1>2, <2>1, <2>2, <2>3
  <1>4. QED
    <2> HIDE DEF q, c
    <2>1. (a * u) \div c = q
      BY <1>1, <1>2, <1>3, QuotientIsUnique
    <2>2. QED
      BY <2>1 DEF q, c

-----------------------------------------------------------------------------
\* Two sequences begin alike and move on alike.
MoveAlike(f, g, n) ==
  /\ f[0] = g[0]
  /\ \A i \in 1..n : f[i - 1] = g[i - 1] => f[i] = g[i]

Agree(f, g, n) == \A i \in 0..n : f[i] = g[i]

\* Two such sequences are the same.
LEMMA ChainsAgree ==
  ASSUME NEW n \in Nat, NEW f, NEW g, MoveAlike(f, g, n)
  PROVE  Agree(f, g, n)
  <1>0. f[0] = g[0] /\ \A i \in 1..n : f[i - 1] = g[i - 1] => f[i] = g[i]
    BY DEF MoveAlike
  <1> DEFINE T == {i \in Nat : i <= n => f[i] = g[i]}
  <1>1. 0 \in T
    BY <1>0
  <1>2. ASSUME NEW i \in Nat, i \in T PROVE i + 1 \in T
    <2>1. CASE i + 1 <= n
      <3>1. i <= n /\ i + 1 \in 1..n /\ (i + 1) - 1 = i
        BY <2>1
      <3>2. f[i] = g[i]
        BY <1>2, <3>1
      <3>3. f[(i + 1) - 1] = g[(i + 1) - 1]
        BY <3>1, <3>2
      <3>4. f[i + 1] = g[i + 1]
        BY <1>0, <3>1, <3>3
      <3>5. QED
        BY <3>4
    <2>2. CASE ~(i + 1 <= n)
      BY <2>2
    <2>3. QED
      BY <2>1, <2>2
  <1>3. Nat \subseteq T
    <2> HIDE DEF T
    <2>1. QED
      BY <1>1, <1>2, NaturalsAreInductive
  <1>4. QED
    BY <1>3 DEF Agree

\* Each number of a sequence is computed from the one before.
IsChain(f, first, h, n) ==
  /\ f[0] = first
  /\ \A i \in 1..n : f[i] = h[<<i, f[i - 1]>>]

\* Such a sequence exists.
LEMMA ChainExists ==
  ASSUME NEW n \in Nat, NEW first \in Nat, NEW h \in [(1..n) \X Nat -> Nat]
  PROVE  \E f \in [0..n -> Nat] : IsChain(f, first, h, n)
  <1> DEFINE T == {k \in Nat : k <= n => \E f \in [0..k -> Nat] : IsChain(f, first, h, k)}
  <1>1. 0 \in T
    <2> DEFINE f == [i \in 0..0 |-> first]
    <2>1. f \in [0..0 -> Nat] /\ IsChain(f, first, h, 0)
      BY DEF IsChain
    <2>2. QED
      BY <2>1
  <1>2. ASSUME NEW k \in Nat, k \in T PROVE k + 1 \in T
    <2>1. SUFFICES ASSUME k + 1 <= n
                   PROVE  \E g \in [0..(k + 1) -> Nat] : IsChain(g, first, h, k + 1)
      OBVIOUS
    <2>2. PICK f \in [0..k -> Nat] : IsChain(f, first, h, k)
      BY <1>2, <2>1
    <2> DEFINE g == [i \in 0..(k + 1) |-> IF i = k + 1 THEN h[<<i, f[k]>>] ELSE f[i]]
    <2>3. h[<<k + 1, f[k]>>] \in Nat
      <3>1. <<k + 1, f[k]>> \in (1..n) \X Nat
        BY <2>1, <2>2
      <3>2. QED
        BY <3>1
    <2>4. g \in [0..(k + 1) -> Nat] /\ g[0] = first
      BY <2>2, <2>3 DEF IsChain
    <2>5. ASSUME NEW i \in 1..(k + 1) PROVE g[i] = h[<<i, g[i - 1]>>]
      <3>1. i - 1 \in 0..k /\ g[i - 1] = f[i - 1]
        OBVIOUS
      <3>2. CASE i = k + 1
        BY <3>1, <3>2
      <3>3. CASE i # k + 1
        BY <2>2, <3>1, <3>3 DEF IsChain
      <3>4. QED
        BY <3>2, <3>3
    <2>6. QED
      <3> HIDE DEF g
      <3>1. IsChain(g, first, h, k + 1)
        BY <2>4, <2>5 DEF IsChain
      <3>2. QED
        BY <2>4, <3>1
  <1>3. Nat \subseteq T
    <2> HIDE DEF T
    <2>1. QED
      BY <1>1, <1>2, NaturalsAreInductive
  <1>4. n \in T
    BY <1>3
  <1>5. QED
    BY <1>4

\* What the router takes the loan to be, hop by hop.
LEMMA RoutedHops ==
  ASSUME NEW o \in Opportunities, NEW size \in Nat
  PROVE  /\ RoutedAlong(o, size) \in [0..Len(o.pools) -> Nat]
         /\ RoutedAlong(o, size)[0] = size * EthUnit
         /\ \A i \in 1..Len(o.pools) :
              RoutedAlong(o, size)[i]
                = (RoutedAlong(o, size)[i - 1] * o.pools[i].rate) \div RateOne
  <1> DEFINE n == Len(o.pools)
             rate == [i \in 1..n |-> o.pools[i].rate]
             h == [ix \in (1..n) \X Nat |-> (ix[2] * rate[ix[1]]) \div RateOne]
             r == CHOOSE after : after = [i \in 0..Len(o.pools) |->
                    IF i = 0 THEN size * EthUnit
                             ELSE (after[i - 1] * o.pools[i].rate) \div RateOne]
  <1>1. n \in Nat /\ \A i \in 1..n : o.pools[i].rate \in Nat
    <2>1. o.pools \in Seq(PoolPrices)
      BY OpportunityTypes
    <2>2. n \in Nat /\ \A i \in 1..n : o.pools[i] \in PoolPrices
      BY <2>1
    <2>3. \A pool \in PoolPrices : pool.rate \in Nat
      BY DEF PoolPrices
    <2>4. QED
      BY <2>2, <2>3
  <1>2. size * EthUnit \in Nat
    <2>1. \A m, k \in Nat : m * k \in Nat
      OBVIOUS
    <2>2. QED
      BY <2>1, NumberTypes
  <1>3. h \in [(1..n) \X Nat -> Nat]
    <2>1. ASSUME NEW ix \in (1..n) \X Nat
          PROVE  (ix[2] * rate[ix[1]]) \div RateOne \in Nat
      <3>1. ix[2] \in Nat /\ rate[ix[1]] \in Nat
        BY <1>1
      <3>2. QED
        BY <3>1, OutTypes
    <2>2. QED
      BY <2>1
  <1>4. PICK f \in [0..n -> Nat] :
          f[0] = size * EthUnit /\ \A i \in 1..n : f[i] = h[<<i, f[i - 1]>>]
    <2> DEFINE first == size * EthUnit
    <2> HIDE DEF n, h, first
    <2>1. first \in Nat
      BY <1>2 DEF first
    <2>2. \E f \in [0..n -> Nat] : IsChain(f, first, h, n)
      BY <1>1, <1>3, <2>1, ChainExists
    <2>3. QED
      BY <2>2 DEF IsChain, first
  <1>5. \A i \in 1..n : f[i] = (f[i - 1] * o.pools[i].rate) \div RateOne
    <2> SUFFICES ASSUME NEW i \in 1..n
                 PROVE  f[i] = (f[i - 1] * o.pools[i].rate) \div RateOne
      OBVIOUS
    <2>1. i - 1 \in 0..n /\ f[i - 1] \in Nat
      BY <1>1, <1>4
    <2>2. <<i, f[i - 1]>> \in (1..n) \X Nat
      BY <2>1
    <2>3. h[<<i, f[i - 1]>>] = (f[i - 1] * rate[i]) \div RateOne
      BY <2>2
    <2>4. QED
      BY <1>4, <2>3
  <1>6. f = [i \in 0..n |-> IF i = 0 THEN size * EthUnit
                                   ELSE (f[i - 1] * o.pools[i].rate) \div RateOne]
    <2>1. \A i \in 0..n : f[i] = IF i = 0 THEN size * EthUnit
                                   ELSE (f[i - 1] * o.pools[i].rate) \div RateOne
      BY <1>1, <1>4, <1>5
    <2>2. QED
      BY <1>4, <2>1
  <1>7. r = [i \in 0..n |-> IF i = 0 THEN size * EthUnit
                                   ELSE (r[i - 1] * o.pools[i].rate) \div RateOne]
    BY <1>6
  <1>8. r = RoutedAlong(o, size)
    BY DEF RoutedAlong
  <1> HIDE DEF r, h
  <1>9. r[0] = f[0] /\ \A i \in 1..n : r[i - 1] = f[i - 1] => r[i] = f[i]
    <2>1. r[0] = f[0]
      BY <1>1, <1>4, <1>7
    <2>2. \A i \in 1..n : r[i] = (r[i - 1] * o.pools[i].rate) \div RateOne
      BY <1>1, <1>7
    <2>3. QED
      BY <1>5, <2>1, <2>2
  <1>10. \A i \in 0..n : r[i] = f[i]
    <2> HIDE DEF n
    <2>1. MoveAlike(r, f, n)
      BY <1>9 DEF MoveAlike
    <2>2. Agree(r, f, n)
      BY <1>1, <2>1, ChainsAgree
    <2>3. QED
      BY <2>2 DEF Agree
  <1>11. r = f
    BY <1>4, <1>7, <1>10
  <1>12. QED
    BY <1>4, <1>5, <1>8, <1>11

-----------------------------------------------------------------------------
\* What is kept is never better than what its size gains.
LEMMA KeepBestIsHonest ==
  ASSUME NEW gain \in Int, NEW size \in Sizes, RouterTypeOK, stage # "none",
         gain <= profit[size], bestProfit <= profit[bestSize],
         KeepBest(gain, size), UNCHANGED <<opportunity, profit>>
  PROVE  /\ bestProfit' <= profit[bestSize'] /\ bestProfit' \in Int
         /\ bestSize' \in Sizes
  BY DEF KeepBest, RouterTypeOK

-----------------------------------------------------------------------------
LEMMA InitHolds == Init => RouterInv
  <1> SUFFICES ASSUME Init PROVE RouterInv
    OBVIOUS
  <1>1. opportunity \in Opportunities /\ hop = 1 /\ amount = 0 /\ steps = <<>>
        /\ generation = 0 /\ profit \in [Sizes -> Profits]
        /\ bestSize = MaxSize(opportunity)
        /\ stage \in {"sizing", "none"}
        /\ (stage = "none" <=> MaxSize(opportunity) < MinLoan)
    BY DEF Init, Sizes
  <1>2. MaxSize(opportunity) \in Nat /\ MinLoan \in Nat
    BY <1>1, MaxSizeBounds
  <1>3. stage # "none" => bestSize \in Sizes /\ MaxSize(opportunity) >= MinLoan
    BY <1>1, <1>2 DEF Sizes
  <1>4. stage # "none" => bestProfit = profit[bestSize]
    BY <1>1 DEF Init
  <1>5. bestProfit \in Int /\ (stage # "none" => bestProfit <= profit[bestSize])
    <2>1. CASE stage = "none"
      BY <2>1 DEF Init
    <2>2. CASE stage # "none"
      <3>1. profit[bestSize] \in Profits
        BY <1>1, <1>3, <2>2
      <3>2. bestProfit = profit[bestSize]
        BY <1>4, <2>2
      <3>3. \A n \in Int : n <= n
        OBVIOUS
      <3>4. bestProfit \in Int /\ bestProfit <= bestProfit
        BY <3>1, <3>2, <3>3, NumberTypes
      <3>5. QED
        BY <3>2, <3>4
    <2>3. QED
      BY <2>1, <2>2
  <1>6. Len(opportunity.pools) \in Nat /\ hop \in 1..(Len(opportunity.pools) + 1)
    BY <1>1, OpportunityTypes
  <1>7. steps \in Seq(SwapSteps) /\ Len(steps) = 0 /\ DOMAIN steps = {}
    BY <1>1
  <1>8. RouterTypeOK
    BY <1>1, <1>3, <1>5, <1>6, <1>7, RouterAssumption DEF RouterTypeOK
  <1>9. StepsFollowCycle
    BY <1>1, <1>7 DEF StepsFollowCycle
  <1>10. MinimumsFollowRates
    BY <1>1 DEF MinimumsFollowRates
  <1>11. QED
    BY <1>1, <1>3, <1>5, <1>8, <1>9, <1>10 DEF RouterInv

\* The search: only the best size and its profit move.
LEMMA SearchKeepsInv ==
  ASSUME RouterInv, Generation \/ EndSearch
  PROVE  RouterInv'
  <1>0. /\ RouterTypeOK /\ stage = "sizing" /\ StepsFollowCycle
        /\ bestProfit <= profit[bestSize]
        /\ MaxSize(opportunity) >= MinLoan /\ hop = 1
        /\ UNCHANGED <<opportunity, profit, hop, steps>>
    BY DEF RouterInv, Generation, EndSearch
  <1>1. PICK gain \in Int, size \in Sizes : gain <= profit[size] /\ KeepBest(gain, size)
    <2>1. \A s \in Sizes : profit[s] \in Int
      BY <1>0, NumberTypes DEF RouterTypeOK
    <2>2. CASE Generation
      <3>1. PICK worst, best \in Sizes : /\ profit[worst] <= profit[best]
                                         /\ KeepBest(profit[worst], best)
        BY <2>2 DEF Generation
      <3>2. QED
        BY <2>1, <3>1
    <2>3. CASE EndSearch
      <3>1. PICK mean \in Sizes : KeepBest(profit[mean], mean)
        BY <2>3 DEF EndSearch
      <3>2. profit[mean] \in Int /\ profit[mean] <= profit[mean]
        BY <2>1
      <3>3. QED
        BY <3>1, <3>2
    <2>4. QED
      BY <2>2, <2>3
  <1>2. /\ bestProfit' <= profit[bestSize'] /\ bestProfit' \in Int
        /\ bestSize' \in Sizes
    BY <1>0, <1>1, KeepBestIsHonest
  <1>3. Sizes' = Sizes /\ MaxSize(opportunity)' = MaxSize(opportunity)
    BY <1>0 DEF Sizes, MaxSize
  <1>4. generation' \in 0..MaxIter
    BY <1>0, RouterAssumption DEF Generation, EndSearch, RouterTypeOK
  <1>5. amount' \in Nat
    <2>1. bestSize' \in Nat
      BY <1>0, <1>2, MaxSizeBounds DEF Sizes, RouterTypeOK
    <2>2. bestSize' * EthUnit \in Nat
      <3>1. \A m, n \in Nat : m * n \in Nat
        OBVIOUS
      <3>2. QED
        BY <2>1, <3>1, NumberTypes
    <2>3. QED
      BY <1>0, <2>2 DEF Generation, EndSearch, RouterTypeOK
  <1>6. stage' \in {"sizing", "hops", "none"} /\ (stage' = "hops" => bestProfit' > 0)
    BY <1>2 DEF Generation, EndSearch
  <1>7. RouterTypeOK'
    BY <1>0, <1>2, <1>3, <1>4, <1>5, <1>6 DEF RouterTypeOK
  <1>8. StepsFollowCycle'
    BY <1>0 DEF StepsFollowCycle
  <1>9. MinimumsFollowRates'
    <2> SUFFICES ASSUME stage' = "hops"
                 PROVE  /\ amount' = RoutedAlong(opportunity, bestSize')[0]
                        /\ DOMAIN steps = {}
      BY <1>0, <1>6 DEF MinimumsFollowRates
    <2>1. opportunity \in Opportunities /\ bestSize' \in Nat
      BY <1>0, <1>2, <1>3, MaxSizeBounds DEF Sizes, RouterTypeOK
    <2>2. amount' = bestSize' * EthUnit
      BY <1>0 DEF Generation, EndSearch
    <2>3. RoutedAlong(opportunity, bestSize')[0] = bestSize' * EthUnit
      BY <2>1, RoutedHops
    <2>4. steps \in Seq(SwapSteps) /\ Len(steps) = 0
      BY <1>0 DEF RouterTypeOK, StepsFollowCycle
    <2>5. QED
      BY <2>2, <2>3, <2>4
  <1>10. QED
    BY <1>0, <1>2, <1>3, <1>6, <1>7, <1>8, <1>9 DEF RouterInv

LEMMA AddHopKeepsInv ==
  ASSUME RouterInv, AddHop
  PROVE  RouterInv'
  <1> DEFINE step == StepOver(Pool)
  <1>0. /\ RouterTypeOK /\ stage = "hops" /\ StepsFollowCycle
        /\ bestProfit <= profit[bestSize] /\ bestProfit > 0
        /\ MaxSize(opportunity) >= MinLoan
        /\ hop <= Len(opportunity.pools) /\ MinimumsFollowRates
        /\ steps' = Append(steps, step) /\ hop' = hop + 1
        /\ amount' = ExpectedOut(Pool)
        /\ UNCHANGED <<opportunity, profit, stage, searchVars>>
    BY DEF RouterInv, AddHop
  <1>1. /\ opportunity \in Opportunities /\ hop \in Nat \ {0} /\ amount \in Nat
        /\ Len(opportunity.pools) \in Nat /\ steps \in Seq(SwapSteps)
        /\ Len(steps) = hop - 1 /\ hop \in DOMAIN opportunity.pools
    <2>1. opportunity \in Opportunities /\ hop \in 1..(Len(opportunity.pools) + 1)
          /\ amount \in Nat /\ steps \in Seq(SwapSteps)
      BY <1>0 DEF RouterTypeOK
    <2>2. opportunity.pools \in Seq(PoolPrices)
      BY <2>1, OpportunityTypes
    <2>3. QED
      BY <1>0, <2>1, <2>2 DEF StepsFollowCycle
  <1>2. /\ Pool.tokenIn = opportunity.cycle[hop]
        /\ Pool.tokenOut = opportunity.cycle[hop + 1]
        /\ Pool.tokenIn # Pool.tokenOut
        /\ Pool.tokenIn \in Tokens /\ Pool.tokenOut \in Tokens /\ Pool.rate \in Nat
    <2>1. Pool \in PoolPrices
      BY <1>1, OpportunityTypes DEF Pool
    <2>2. QED
      BY <1>1, <2>1, OpportunityTypes DEF Pool, PoolPrices
  <1>3. ExpectedOut(Pool) \in Nat /\ Tolerated(ExpectedOut(Pool)) \in Nat
    BY <1>1, <1>2, OutTypes DEF ExpectedOut
  <1>4. /\ step.tokenIn = Pool.tokenIn /\ step.tokenOut = Pool.tokenOut
        /\ step.amountIn = 0 /\ step.dexType \in DexTypes
        /\ step.minAmountOut = Tolerated(ExpectedOut(Pool))
        /\ step \in SwapSteps
    <2>1. DexTypeOf(Pool) \in DexTypes /\ DexTypeOf(Pool) \in Nat
      BY DEF DexTypeOf, DexTypes, DEX_UNISWAP_V3, DEX_CURVE, DEX_BALANCER,
             DEX_CAMELOT_V3
    <2>2. (IF Pool.dex = "camelot_v3" THEN CamelotRouter ELSE ZeroAddress)
            \in Overrides \cup {ZeroAddress}
      BY RouterAssumption
    <2>3. QED
      BY <1>2, <1>3, <2>1, <2>2 DEF StepOver, SwapSteps
  <1> HIDE DEF step
  <1>5. /\ steps' \in Seq(SwapSteps) /\ Len(steps') = hop
        /\ \A i \in 1..(hop - 1) : steps'[i] = steps[i]
        /\ steps'[hop] = step
    BY <1>0, <1>1, <1>4
  <1>6. StepsFollowCycle'
    <2> SUFFICES ASSUME NEW i \in 1..hop
                 PROVE  /\ steps'[i].tokenIn = opportunity.cycle[i]
                        /\ steps'[i].tokenOut = opportunity.cycle[i + 1]
                        /\ steps'[i].amountIn = 0 /\ steps'[i].dexType \in DexTypes
      BY <1>0, <1>1, <1>5 DEF StepsFollowCycle
    <2>1. CASE i = hop
      <3>1. steps'[i] = step
        BY <1>5, <2>1
      <3>2. QED
        BY <1>2, <1>4, <2>1, <3>1
    <2>2. CASE i # hop
      <3>1. i \in DOMAIN steps /\ steps'[i] = steps[i]
        BY <1>1, <1>5, <2>2
      <3>2. QED
        BY <1>0, <3>1 DEF StepsFollowCycle
    <2>3. QED
      BY <2>1, <2>2
  <1>7. hop' \in 1..(Len(opportunity.pools) + 1)
    BY <1>0, <1>1
  <1>8. Sizes' = Sizes /\ MaxSize(opportunity)' = MaxSize(opportunity)
    BY <1>0 DEF Sizes, MaxSize
  <1>9. RouterTypeOK'
    BY <1>0, <1>3, <1>5, <1>7, <1>8 DEF RouterTypeOK, searchVars
  <1>10. MinimumsFollowRates'
    <2> DEFINE routed == RoutedAlong(opportunity, bestSize)
    <2>1. /\ amount = routed[hop - 1]
          /\ \A i \in DOMAIN steps : steps[i].minAmountOut = Tolerated(routed[i])
      BY <1>0 DEF MinimumsFollowRates
    <2>2. routed[hop] = (routed[hop - 1] * opportunity.pools[hop].rate) \div RateOne
      <3>1. bestSize \in Nat
        BY <1>0, <1>1, MaxSizeBounds DEF Sizes, RouterTypeOK
      <3>2. hop \in 1..Len(opportunity.pools)
        BY <1>0, <1>1
      <3>3. QED
        BY <1>1, <3>1, <3>2, RoutedHops
    <2>3. ExpectedOut(Pool) = routed[hop]
      BY <2>1, <2>2 DEF ExpectedOut, Pool
    <2>4. RoutedAlong(opportunity, bestSize)' = routed
      BY <1>0 DEF searchVars
    <2> HIDE DEF routed
    <2>5. amount' = routed[hop' - 1]
      BY <1>0, <1>1, <2>3
    <2>6. ASSUME NEW i \in 1..hop
          PROVE  steps'[i].minAmountOut = Tolerated(routed[i])
      <3>1. CASE i = hop
        BY <1>4, <1>5, <2>3, <3>1
      <3>2. CASE i # hop
        <4>1. i \in DOMAIN steps /\ steps'[i] = steps[i]
          BY <1>1, <1>5, <3>2
        <4>2. QED
          BY <2>1, <4>1
      <3>3. QED
        BY <3>1, <3>2
    <2>7. DOMAIN steps' = 1..hop
      BY <1>1, <1>5
    <2>8. QED
      BY <2>4, <2>5, <2>6, <2>7 DEF MinimumsFollowRates
  <1>11. QED
    BY <1>0, <1>6, <1>8, <1>9, <1>10 DEF RouterInv, searchVars

\* The two ways the loop over the hops ends.
LEMMA EndKeepsInv ==
  ASSUME RouterInv, DropRoute \/ FinishRoute
  PROVE  RouterInv'
  <1>0. /\ RouterTypeOK /\ stage = "hops" /\ StepsFollowCycle
        /\ bestProfit <= profit[bestSize] /\ bestProfit > 0
        /\ MaxSize(opportunity) >= MinLoan /\ MinimumsFollowRates
        /\ stage' \in {"none", "built"}
        /\ (stage' = "built" => hop > Len(opportunity.pools))
        /\ UNCHANGED <<opportunity, profit, searchVars, hop, amount, steps>>
    BY DEF RouterInv, DropRoute, FinishRoute
  <1>1. Sizes' = Sizes /\ MaxSize(opportunity)' = MaxSize(opportunity)
    BY <1>0 DEF Sizes, MaxSize
  <1>2. RouterTypeOK'
    BY <1>0, <1>1 DEF RouterTypeOK, searchVars
  <1>3. StepsFollowCycle'
    BY <1>0 DEF StepsFollowCycle
  <1>4. stage' = "built" => hop = Len(opportunity.pools) + 1
    <2>1. Len(opportunity.pools) \in Nat
      BY <1>0, OpportunityTypes DEF RouterTypeOK
    <2>2. QED
      BY <1>0, <2>1 DEF RouterTypeOK
  <1>5. MinimumsFollowRates'
    BY <1>0 DEF MinimumsFollowRates, searchVars
  <1>6. QED
    BY <1>0, <1>1, <1>2, <1>3, <1>4, <1>5 DEF RouterInv, searchVars

\* The inductive invariant of the router, for every cycle and every profit.
THEOREM RouterInvariant == Spec => []RouterInv
  <1>1. Init => RouterInv
    BY InitHolds
  <1>2. RouterInv /\ [Next]_vars => RouterInv'
    <2> SUFFICES ASSUME RouterInv, [Next]_vars
                 PROVE  RouterInv'
      OBVIOUS
    <2>1. CASE Generation \/ EndSearch
      BY <2>1, SearchKeepsInv
    <2>2. CASE AddHop
      BY <2>2, AddHopKeepsInv
    <2>3. CASE DropRoute \/ FinishRoute
      BY <2>3, EndKeepsInv
    <2>4. CASE UNCHANGED vars
      BY <2>4 DEF vars, searchVars, RouterInv, RouterTypeOK, StepsFollowCycle,
                  MinimumsFollowRates, Sizes, MaxSize
    <2>5. QED
      BY <2>1, <2>2, <2>3, <2>4 DEF Next
  <1>3. QED
    BY <1>1, <1>2, PTL DEF Spec

\* The risk manager neither refuses a route for its size nor cuts its loan:
\* the minimum outputs belong to the loan that is sent.
THEOREM LoanIsAdmitted == Spec => []SizeWithinGates
  <1>1. RouterInv => SizeWithinGates
    <2> SUFFICES ASSUME RouterInv, stage \in {"hops", "built"}
                 PROVE  MinLoan <= bestSize /\ bestSize <= MaxLoan
      BY DEF SizeWithinGates
    <2>1. bestSize \in Sizes /\ opportunity \in Opportunities
      BY DEF RouterInv, RouterTypeOK
    <2>2. QED
      BY <2>1, MaxSizeBounds, RouterAssumption DEF Sizes
  <1>2. QED
    BY <1>1, RouterInvariant, PTL

\* Whatever samples the search draws, the profit it reports is positive and
\* not above what the size it returns gains.
THEOREM ProfitIsHonest == Spec => []ProfitNotOverstated
  <1>1. RouterInv => ProfitNotOverstated
    BY DEF RouterInv, RouterTypeOK, ProfitNotOverstated
  <1>2. QED
    BY <1>1, RouterInvariant, PTL

\* A cycle of the detector, of any length and over any exchanges, becomes a
\* route of which the receiver strands nothing.
THEOREM RoutesAreWellFormed == Spec => []RoutesAreCycles
  <1>1. RouterInv => RoutesAreCycles
    <2> SUFFICES ASSUME RouterInv, stage = "built"
                 PROVE  IsCycleOf(steps, opportunity.cycle[1])
      BY DEF RoutesAreCycles
    <2>1. /\ steps \in Seq(SwapSteps) /\ opportunity \in Opportunities
          /\ Len(steps) = Len(opportunity.pools) /\ StepsFollowCycle
      BY DEF RouterInv, RouterTypeOK, StepsFollowCycle
    <2>2. /\ Len(steps) \in Nat /\ Len(steps) >= 2
          /\ Len(opportunity.cycle) = Len(steps) + 1
          /\ opportunity.cycle[1] = opportunity.cycle[Len(steps) + 1]
      BY <2>1, OpportunityTypes
    <2>3. 1 \in DOMAIN steps /\ Len(steps) \in DOMAIN steps /\ steps # <<>>
      BY <2>1, <2>2
    <2>4. \A i \in 1..(Len(steps) - 1) : i \in DOMAIN steps /\ i + 1 \in DOMAIN steps
      BY <2>1, <2>2
    <2>5. QED
      BY <2>1, <2>2, <2>3, <2>4 DEF StepsFollowCycle, IsCycleOf
  <1>2. QED
    BY <1>1, RouterInvariant, PTL

\* Between tokens of equal decimals a hop pays what the router expects of it.
LEMMA EqualUnitsQuote ==
  ASSUME NEW pool \in PoolPrices, NEW in \in Nat,
         Unit[pool.tokenIn] = Unit[pool.tokenOut]
  PROVE  QuotedOut(pool, in) = (in * pool.rate) \div RateOne
  <1> DEFINE u == Unit[pool.tokenOut]
             a == in * pool.rate
  <1>1. u \in Nat \ {0} /\ RateOne \in Nat \ {0} /\ pool.rate \in Nat
    BY RouterAssumption DEF PoolPrices
  <1>2. a \in Nat
    <2>1. \A m, k \in Nat : m * k \in Nat
      OBVIOUS
    <2>2. QED
      BY <1>1, <2>1
  <1>3. QuotedOut(pool, in) = (a * u) \div (RateOne * u)
    BY DEF QuotedOut
  <1> HIDE DEF u, a
  <1>4. (a * u) \div (RateOne * u) = a \div RateOne
    BY <1>1, <1>2, CommonFactor
  <1>5. QED
    BY <1>3, <1>4 DEF a

\* The tolerance only lowers an amount.
LEMMA ToleratedIsBelow ==
  ASSUME NEW n \in Nat
  PROVE  Tolerated(n) \in Nat /\ Tolerated(n) <= n
  <1> DEFINE k == 10000 - SlippageBps
             a == n * k
             q == a \div 10000
  <1>1. k \in Nat /\ k <= 10000
    BY RouterAssumption
  <1>2. a \in Nat /\ a <= n * 10000
    <2> HIDE DEF k
    <2>1. n * k \in Int /\ n * k <= n * 10000
      BY <1>1, ProductIsMonotone
    <2>2. QED
      BY <1>1, <2>1
  <1>3. q <= n
    <2> HIDE DEF a
    <2>1. QED
      BY <1>2
  <1>4. QED
    BY <1>3, OutTypes DEF Tolerated

\* A route among tokens of equal decimals, of any length and at any rates,
\* asks of each hop at most what it pays and at least that less the tolerance.
THEOREM EqualDecimalsRoutesExecute == Spec => []EqualDecimalsExecute
  <1>1. RouterInv => EqualDecimalsExecute
    <2> SUFFICES ASSUME RouterInv, stage = "built",
                        \A s, t \in TokensOf(steps) : Unit[s] = Unit[t]
                 PROVE  \A i \in DOMAIN steps : WithinTolerance(i)
      BY DEF EqualDecimalsExecute
    <2> DEFINE n == Len(opportunity.pools)
               pools == opportunity.pools
               routed == RoutedAlong(opportunity, bestSize)
               quoted == CHOOSE after : after = [i \in 0..Len(opportunity.pools) |->
                           IF i = 0 THEN bestSize * EthUnit
                                    ELSE QuotedOut(opportunity.pools[i], after[i - 1])]
    <2>1. /\ opportunity \in Opportunities /\ steps \in Seq(SwapSteps)
          /\ Len(steps) = n /\ StepsFollowCycle
          /\ \A i \in DOMAIN steps : steps[i].minAmountOut = Tolerated(routed[i])
      BY DEF RouterInv, RouterTypeOK, StepsFollowCycle, MinimumsFollowRates
    <2>2. bestSize \in Nat
      BY <2>1, MaxSizeBounds DEF RouterInv, RouterTypeOK, Sizes
    <2>3. n \in Nat /\ pools \in Seq(PoolPrices)
      BY <2>1, OpportunityTypes
    <2>4. /\ routed \in [0..n -> Nat] /\ routed[0] = bestSize * EthUnit
          /\ \A i \in 1..n :
               routed[i] = (routed[i - 1] * pools[i].rate) \div RateOne
      <3> HIDE DEF quoted
      <3>1. QED
        BY <2>1, <2>2, RoutedHops
    <2>5. ASSUME NEW i \in 1..n
          PROVE  routed[i] = QuotedOut(pools[i], routed[i - 1])
      <3> HIDE DEF routed, quoted
      <3>1. pools[i] \in PoolPrices /\ i \in DOMAIN pools /\ i \in DOMAIN steps
        BY <2>1, <2>3
      <3>2. /\ pools[i].tokenIn = steps[i].tokenIn
            /\ pools[i].tokenOut = steps[i].tokenOut
        BY <2>1, <3>1, OpportunityTypes DEF StepsFollowCycle
      <3>3. pools[i].tokenIn \in TokensOf(steps) /\ pools[i].tokenOut \in TokensOf(steps)
        BY <3>1, <3>2 DEF TokensOf
      <3>4. Unit[pools[i].tokenIn] = Unit[pools[i].tokenOut]
        BY <3>3
      <3>5. i - 1 \in 0..n /\ routed[i - 1] \in Nat
        BY <2>3, <2>4
      <3> HIDE DEF pools
      <3>6. QuotedOut(pools[i], routed[i - 1])
              = (routed[i - 1] * pools[i].rate) \div RateOne
        BY <3>1, <3>4, <3>5, EqualUnitsQuote
      <3>7. QED
        BY <2>4, <3>6
    <2>6. routed = [i \in 0..n |-> IF i = 0 THEN bestSize * EthUnit
                                   ELSE QuotedOut(pools[i], routed[i - 1])]
      <3> HIDE DEF routed, quoted
      <3>1. \A i \in 0..n : routed[i] = IF i = 0 THEN bestSize * EthUnit
                                   ELSE QuotedOut(pools[i], routed[i - 1])
        BY <2>3, <2>4, <2>5
      <3>2. QED
        BY <2>4, <3>1
    <2>7. quoted = [i \in 0..n |-> IF i = 0 THEN bestSize * EthUnit
                                   ELSE QuotedOut(pools[i], quoted[i - 1])]
      <3> HIDE DEF routed
      <3>1. QED
        BY <2>6
    <2>8. quoted = QuotedAlong
      BY DEF QuotedAlong
    <2> HIDE DEF routed, quoted
    <2>9. quoted[0] = routed[0]
          /\ \A i \in 1..n : quoted[i - 1] = routed[i - 1] => quoted[i] = routed[i]
      <3>1. quoted[0] = routed[0]
        BY <2>3, <2>4, <2>7
      <3>2. \A i \in 1..n : quoted[i] = QuotedOut(pools[i], quoted[i - 1])
        BY <2>3, <2>7
      <3>3. QED
        BY <2>5, <3>1, <3>2
    <2>10. \A i \in 0..n : quoted[i] = routed[i]
      <3> HIDE DEF n
      <3>1. MoveAlike(quoted, routed, n)
        BY <2>9 DEF MoveAlike
      <3>2. Agree(quoted, routed, n)
        BY <2>3, <3>1, ChainsAgree
      <3>3. QED
        BY <3>2 DEF Agree
    <2>11. ASSUME NEW i \in DOMAIN steps PROVE WithinTolerance(i)
      <3>1. i \in 0..n /\ routed[i] \in Nat
        BY <2>1, <2>3, <2>4
      <3>2. QuotedAlong[i] = routed[i]
        BY <2>8, <2>10, <3>1
      <3>3. Tolerated(routed[i]) \in Tolerated(routed[i])..routed[i]
        BY <3>1, ToleratedIsBelow
      <3>4. QED
        BY <2>1, <3>2, <3>3 DEF WithinTolerance
    <2>12. QED
      BY <2>11
  <1>2. QED
    BY <1>1, RouterInvariant, PTL
=============================================================================
