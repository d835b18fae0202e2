----------------------- MODULE NexusFlashReceiverProofs -----------------------
(***************************************************************************)
(* For every route, every loan and whatever the exchanges pay: the         *)
(* contract keeps no allowance, leaves exactly the debt for Aave to pull,  *)
(* and a cycle strands no token.                                           *)
(***************************************************************************)
EXTENDS NexusFlashReceiver, TLAPS

\* What the current step of a route is made of.
LEMMA StepTypes ==
  ASSUME ReceiverTypeOK, NEW i \in DOMAIN route
  PROVE  /\ route[i].tokenIn \in Tokens /\ route[i].tokenOut \in Tokens
         /\ route[i].tokenIn # route[i].tokenOut
         /\ route[i].router \in Overrides \cup {ZeroAddress}
         /\ route[i].dexType \in Nat
         /\ route[i].amountIn \in Nat /\ route[i].minAmountOut \in Nat
  <1>1. route[i] \in SwapSteps
    BY DEF ReceiverTypeOK
  <1>2. QED
    BY <1>1 DEF SwapSteps

LEMMA SpenderTypes ==
  ASSUME ReceiverTypeOK, NEW i \in DOMAIN route
  PROVE  Spender(route[i]) \in Spenders
  BY StepTypes DEF Spender, Spenders

\* An approval that is pulled in full leaves nothing.
LEMMA PulledInFull ==
  ASSUME NEW s \in Spenders, NEW t \in Tokens, NEW n \in Nat,
         allowed = NothingAllowed
  PROVE  [SafeApprove(t, s, n) EXCEPT ![s][t] = @ - n] = NothingAllowed
  BY DEF SafeApprove, NothingAllowed, NothingHeld

LEMMA NothingTypes ==
  /\ NothingHeld \in [Tokens -> Nat]
  /\ NothingAllowed \in [Spenders -> [Tokens -> Nat]]
  BY DEF NothingHeld, NothingAllowed

-----------------------------------------------------------------------------
LEMMA ArbitrageKeepsInv ==
  ASSUME ReceiverInv, NEW caller \in Accounts, ExecuteArbitrage(caller)
  PROVE  ReceiverInv'
  <1>0. /\ ReceiverTypeOK /\ stage = "rest" /\ allowed = NothingAllowed
        /\ UNCHANGED <<adminVars, allowed>>
        /\ stage' = "swaps" /\ next' = 1 /\ paid' = 0
        /\ before' = [held |-> held, allowed |-> allowed]
    BY DEF ReceiverInv, ExecuteArbitrage
  <1>1. PICK a \in Tokens, amount \in Amounts, r \in Routes :
          /\ asset' = a
          /\ held' = [held EXCEPT ![a] = @ + amount]
          /\ debt' = amount + Premium
          /\ route' = r
    BY DEF ExecuteArbitrage
  <1>2. held \in [Tokens -> Nat] /\ amount \in Nat /\ Premium \in Nat
        /\ route' \in Seq(SwapSteps)
    BY <1>0, <1>1, ReceiverAssumption DEF ReceiverTypeOK
  <1>3. held' \in [Tokens -> Nat] /\ debt' \in Nat
    BY <1>1, <1>2
  <1>4. Len(route') \in Nat
    BY <1>2
  <1>5. ReceiverTypeOK'
    BY <1>0, <1>1, <1>2, <1>3 DEF ReceiverTypeOK, adminVars
  <1>6. SpentSoFar'
    BY <1>0, <1>2 DEF SpentSoFar
  <1>7. OffRouteUntouched'
    BY <1>0, <1>1, <1>2 DEF OffRouteUntouched
  <1>8. route' \in Routes /\ ~paused'
    BY <1>1 DEF ExecuteArbitrage, adminVars
  <1>9. QED
    BY <1>0, <1>4, <1>5, <1>6, <1>7, <1>8 DEF ReceiverInv

LEMMA SwapKeepsInv ==
  ASSUME ReceiverInv, Swap
  PROVE  ReceiverInv'
  <1> DEFINE step == route[next]
             in == step.tokenIn
             to == step.tokenOut
             amount == Amount(step)
  <1>0. /\ ReceiverTypeOK /\ SpentSoFar /\ allowed = NothingAllowed
        /\ before.allowed = NothingAllowed /\ OffRouteUntouched
        /\ route \in Routes /\ ~paused
        /\ stage = "swaps" /\ next \in DOMAIN route /\ next' = next + 1
        /\ UNCHANGED <<adminVars, stage, asset, route, debt, paid, before>>
    BY DEF ReceiverInv, Swap
  <1>1. /\ in \in Tokens /\ to \in Tokens /\ in # to
        /\ step.amountIn \in Nat /\ step.minAmountOut \in Nat
        /\ Spender(step) \in Spenders
    BY <1>0, StepTypes, SpenderTypes
  <1>2. held \in [Tokens -> Nat] /\ next \in Nat \ {0} /\ next <= Len(route)
        /\ Len(route) \in Nat /\ route \in Seq(SwapSteps)
    BY <1>0 DEF ReceiverTypeOK
  <1>3. amount \in Nat /\ amount <= held[in]
    BY <1>1, <1>2 DEF Amount, Swap
  <1>4. allowed' = NothingAllowed
    BY <1>0, <1>1, <1>3, PulledInFull DEF Swap
  <1>5. PICK out \in step.minAmountOut..MaxOut :
          held' = [held EXCEPT ![in] = @ - amount, ![to] = @ + out]
    BY DEF Swap
  <1>6. out \in Nat
    BY <1>1, ReceiverAssumption
  <1>7. /\ held'[in] = held[in] - amount
        /\ \A t \in Tokens : t # in /\ t # to => held'[t] = held[t]
    BY <1>1, <1>2, <1>5
  <1>8. held' \in [Tokens -> Nat]
    <2>1. held[in] - amount \in Nat /\ held[to] + out \in Nat
      BY <1>1, <1>2, <1>3, <1>6
    <2>2. QED
      BY <1>1, <1>2, <1>5, <2>1
  <1>9. ReceiverTypeOK'
    BY <1>0, <1>2, <1>4, <1>8, NothingTypes DEF ReceiverTypeOK, adminVars
  <1>10. SpentSoFar'
    <2> SUFFICES ASSUME IsCycleOf(route, asset), NEW i \in DOMAIN route,
                        i < next + 1, route[i].tokenIn # CurrentToken'
                 PROVE  held'[route[i].tokenIn] = 0
      BY <1>0 DEF SpentSoFar, IsCycleOf
    <2>1. CurrentToken' = to
      <3>1. CASE next + 1 \in DOMAIN route
        <4>1. next \in 1..(Len(route) - 1)
          BY <1>2, <3>1
        <4>2. route[next].tokenOut = route[next + 1].tokenIn
          BY <4>1 DEF IsCycleOf
        <4>3. QED
          BY <1>0, <3>1, <4>2 DEF CurrentToken
      <3>2. CASE next + 1 \notin DOMAIN route
        <4>1. next = Len(route)
          BY <1>2, <3>2
        <4>2. QED
          BY <1>0, <3>2, <4>1 DEF CurrentToken, IsCycleOf
      <3>3. QED
        BY <3>1, <3>2
    <2>2. route[i].tokenIn \in Tokens
      BY <1>0, StepTypes
    <2>3. CASE route[i].tokenIn = in
      <3>1. amount = held[in]
        BY <1>0 DEF Amount, IsCycleOf
      <3>2. held[in] - held[in] = 0
        BY <1>1, <1>2
      <3>3. QED
        BY <1>7, <2>3, <3>1, <3>2
    <2>4. CASE route[i].tokenIn # in
      <3>1. i < next
        BY <1>2, <2>4
      <3>2. CurrentToken = in
        BY <1>0 DEF CurrentToken
      <3>3. held[route[i].tokenIn] = 0
        BY <1>0, <2>4, <3>1, <3>2 DEF SpentSoFar
      <3>4. QED
        BY <1>7, <2>1, <2>2, <2>4, <3>3
    <2>5. QED
      BY <2>3, <2>4
  <1>11. next' <= Len(route') + 1
    BY <1>0, <1>2
  <1>12. OffRouteUntouched'
    <2>1. in \in TokensOf(route) /\ to \in TokensOf(route)
      BY <1>0 DEF TokensOf
    <2>2. QED
      BY <1>0, <1>7, <2>1 DEF OffRouteUntouched
  <1>13. QED
    BY <1>0, <1>4, <1>9, <1>10, <1>11, <1>12 DEF ReceiverInv, adminVars

LEMMA SkipKeepsInv ==
  ASSUME ReceiverInv, SkipStep
  PROVE  ReceiverInv'
  <1>0. /\ ReceiverTypeOK /\ allowed = NothingAllowed
        /\ before.allowed = NothingAllowed /\ OffRouteUntouched
        /\ route \in Routes /\ ~paused
        /\ stage = "swaps" /\ next \in DOMAIN route /\ next' = next + 1
        /\ route[next].dexType \notin DexTypes
        /\ UNCHANGED <<adminVars, held, allowed, stage, asset, route, debt,
                       paid, before>>
    BY DEF ReceiverInv, SkipStep
  <1>1. next \in Nat \ {0} /\ next <= Len(route) /\ Len(route) \in Nat
    BY <1>0 DEF ReceiverTypeOK
  <1>2. ReceiverTypeOK'
    BY <1>0, <1>1 DEF ReceiverTypeOK, adminVars
  <1>3. ~IsCycleOf(route, asset)'
    BY <1>0 DEF IsCycleOf
  <1>4. SpentSoFar' /\ OffRouteUntouched'
    BY <1>0, <1>3 DEF SpentSoFar, OffRouteUntouched
  <1>5. QED
    BY <1>0, <1>1, <1>2, <1>4 DEF ReceiverInv, adminVars

LEMMA SettleKeepsInv ==
  ASSUME ReceiverInv, SettleProfit
  PROVE  ReceiverInv'
  <1>0. /\ ReceiverTypeOK /\ SpentSoFar /\ allowed = NothingAllowed
        /\ before.allowed = NothingAllowed /\ next <= Len(route) + 1
        /\ OffRouteUntouched /\ route \in Routes /\ ~paused
        /\ stage = "swaps" /\ next \notin DOMAIN route /\ held[asset] >= debt
        /\ allowed' = [NothingAllowed EXCEPT ![Aave][asset] = debt]
        /\ held' = [held EXCEPT ![asset] = @ - Profit]
        /\ paid' = Profit /\ stage' = "repay"
        /\ UNCHANGED <<adminVars, asset, route, next, debt, before>>
    BY DEF ReceiverInv, SettleProfit, SafeApprove
  <1>1. held \in [Tokens -> Nat] /\ asset \in Tokens /\ debt \in Nat
        /\ Aave \in Spenders
    BY <1>0 DEF ReceiverTypeOK, Spenders
  <1>2. Profit \in Nat /\ held[asset] - Profit = debt
    BY <1>0, <1>1 DEF Profit
  <1>3. held' = [held EXCEPT ![asset] = debt]
    BY <1>0, <1>2
  <1>4. held' \in [Tokens -> Nat] /\ held'[asset] = debt
    BY <1>1, <1>3
  <1>5. allowed' \in [Spenders -> [Tokens -> Nat]]
    BY <1>0, <1>1, NothingTypes DEF NothingAllowed
  <1>6. ReceiverTypeOK'
    BY <1>0, <1>2, <1>4, <1>5 DEF ReceiverTypeOK, adminVars
  <1>7. SpentSoFar'
    <2> SUFFICES ASSUME IsCycleOf(route, asset), NEW i \in DOMAIN route,
                        i < next, route[i].tokenIn # asset
                 PROVE  held'[route[i].tokenIn] = 0
      BY <1>0 DEF SpentSoFar, CurrentToken
    <2>1. held[route[i].tokenIn] = 0
      BY <1>0 DEF SpentSoFar, CurrentToken
    <2>2. route[i].tokenIn \in Tokens
      BY <1>0, StepTypes
    <2>3. QED
      BY <1>1, <1>3, <2>1, <2>2
  <1>8. OffRouteUntouched'
    BY <1>0, <1>1, <1>3 DEF OffRouteUntouched
  <1>9. QED
    BY <1>0, <1>4, <1>6, <1>7, <1>8 DEF ReceiverInv, adminVars

\* The two ways a transaction ends.
LEMMA EndKeepsInv ==
  ASSUME ReceiverInv, EndTransaction,
         held' \in [Tokens -> Nat], allowed' = NothingAllowed
  PROVE  ReceiverInv'
  <1>0. /\ ReceiverTypeOK
        /\ stage' = "rest" /\ route' = <<>> /\ next' = 1 /\ debt' = 0
        /\ paid' = 0 /\ before' = NoSnapshot /\ UNCHANGED <<adminVars, asset>>
    BY DEF ReceiverInv, EndTransaction
  <1>1. route' \in Seq(SwapSteps) /\ Len(route') = 0
    BY <1>0
  <1>2. /\ before' \in [held : [Tokens -> Nat],
                        allowed : [Spenders -> [Tokens -> Nat]]]
        /\ before'.allowed = NothingAllowed
    BY <1>0, NothingTypes DEF NoSnapshot
  <1>3. ReceiverTypeOK'
    BY <1>0, <1>1, <1>2, NothingTypes DEF ReceiverTypeOK, adminVars
  <1>4. SpentSoFar' /\ OffRouteUntouched'
    BY <1>0 DEF SpentSoFar, OffRouteUntouched
  <1>5. QED
    BY <1>0, <1>1, <1>2, <1>3, <1>4 DEF ReceiverInv

LEMMA RepaidKeepsInv ==
  ASSUME ReceiverInv, Repaid
  PROVE  ReceiverInv'
  <1>0. /\ ReceiverTypeOK /\ EndTransaction
        /\ allowed = [NothingAllowed EXCEPT ![Aave][asset] = debt]
        /\ held[asset] = debt
        /\ held' = [held EXCEPT ![asset] = @ - debt]
        /\ allowed' = [allowed EXCEPT ![Aave][asset] = @ - debt]
    BY DEF ReceiverInv, Repaid
  <1>1. held \in [Tokens -> Nat] /\ asset \in Tokens /\ debt \in Nat
        /\ Aave \in Spenders
    BY <1>0 DEF ReceiverTypeOK, Spenders
  <1>2. debt - debt = 0
    BY <1>1
  <1>3. held' \in [Tokens -> Nat]
    BY <1>0, <1>1, <1>2
  <1>4. allowed' = NothingAllowed
    BY <1>0, <1>1, <1>2 DEF NothingAllowed, NothingHeld
  <1>5. QED
    BY <1>0, <1>3, <1>4, EndKeepsInv

LEMMA RevertKeepsInv ==
  ASSUME ReceiverInv, Revert
  PROVE  ReceiverInv'
  <1>1. held' \in [Tokens -> Nat] /\ allowed' = NothingAllowed
    BY DEF ReceiverInv, ReceiverTypeOK, Revert
  <1>2. QED
    BY <1>1, EndKeepsInv DEF Revert

\* Administration and deposits happen between transactions.
LEMMA RestKeepsInv ==
  ASSUME ReceiverInv,
         Receive \/ \E caller \in Accounts : Admin(caller)
  PROVE  ReceiverInv'
  <1>0. ReceiverTypeOK /\ stage = "rest" /\ UNCHANGED <<allowed, txVars>>
    BY DEF ReceiverInv, Receive, Admin, SetExecutor, SetPaused,
           TransferOwnership, EmergencyWithdraw
  <1>1. held' \in [Tokens -> Nat]
    <2>1. held \in [Tokens -> Nat]
      BY <1>0 DEF ReceiverTypeOK
    <2>2. CASE Receive
      <3>1. PICK t \in Tokens : held' = [held EXCEPT ![t] = @ + 1]
        BY <2>2 DEF Receive
      <3>2. QED
        BY <2>1, <3>1
    <2>3. CASE \E caller \in Accounts : Admin(caller)
      BY <2>1, <2>3 DEF Admin, SetExecutor, SetPaused, TransferOwnership,
                        EmergencyWithdraw
    <2>4. QED
      BY <2>2, <2>3
  <1>2. owner' \in Accounts /\ executor' \in Accounts /\ paused' \in BOOLEAN
    BY <1>0 DEF ReceiverTypeOK, Receive, Admin, SetExecutor, SetPaused,
                TransferOwnership, EmergencyWithdraw, adminVars
  <1>3. ReceiverTypeOK'
    BY <1>0, <1>1, <1>2 DEF ReceiverTypeOK, txVars
  <1>4. SpentSoFar' /\ OffRouteUntouched'
    BY <1>0 DEF SpentSoFar, OffRouteUntouched, txVars
  <1>5. QED
    BY <1>0, <1>3, <1>4 DEF ReceiverInv, txVars

-----------------------------------------------------------------------------
LEMMA InitHolds == Init => ReceiverInv
  <1> SUFFICES ASSUME Init PROVE ReceiverInv
    OBVIOUS
  <1>1. route = <<>> /\ route \in Seq(SwapSteps) /\ Len(route) = 0
    BY DEF Init
  <1>2. /\ before \in [held : [Tokens -> Nat],
                       allowed : [Spenders -> [Tokens -> Nat]]]
        /\ before.allowed = NothingAllowed
    BY NothingTypes DEF Init, NoSnapshot
  <1>3. ReceiverTypeOK
    <2>1. owner \in Accounts /\ executor \in Accounts /\ paused \in BOOLEAN
          /\ asset \in Tokens /\ stage \in {"rest", "swaps", "repay"}
      BY DEF Init
    <2>2. held \in [Tokens -> Nat] /\ allowed \in [Spenders -> [Tokens -> Nat]]
      BY NothingTypes DEF Init
    <2>3. next \in Nat \ {0} /\ debt \in Nat /\ paid \in Nat
      BY DEF Init
    <2>4. QED
      BY <1>1, <1>2, <2>1, <2>2, <2>3 DEF ReceiverTypeOK
  <1>4. SpentSoFar /\ OffRouteUntouched
    BY DEF Init, SpentSoFar, OffRouteUntouched
  <1>5. QED
    BY <1>1, <1>2, <1>3, <1>4 DEF Init, ReceiverInv

\* The inductive invariant of the contract, for every route and every loan.
THEOREM ReceiverInvariant == Spec => []ReceiverInv
  <1>1. Init => ReceiverInv
    BY InitHolds
  <1>2. ReceiverInv /\ [Next]_vars => ReceiverInv'
    <2> SUFFICES ASSUME ReceiverInv, [Next]_vars
                 PROVE  ReceiverInv'
      OBVIOUS
    <2>1. CASE \E caller \in Accounts : ExecuteArbitrage(caller)
      BY <2>1, ArbitrageKeepsInv
    <2>2. CASE Receive \/ \E caller \in Accounts : Admin(caller)
      BY <2>2, RestKeepsInv
    <2>3. CASE Swap
      BY <2>3, SwapKeepsInv
    <2>4. CASE SkipStep
      BY <2>4, SkipKeepsInv
    <2>5. CASE SettleProfit
      BY <2>5, SettleKeepsInv
    <2>6. CASE Repaid
      BY <2>6, RepaidKeepsInv
    <2>7. CASE Revert
      BY <2>7, RevertKeepsInv
    <2>8. CASE UNCHANGED vars
      BY <2>8 DEF vars, adminVars, txVars, ReceiverInv, ReceiverTypeOK,
                  SpentSoFar, CurrentToken, IsCycleOf, OffRouteUntouched
    <2>9. QED
      BY <2>1, <2>2, <2>3, <2>4, <2>5, <2>6, <2>7, <2>8 DEF Next
  <1>3. QED
    BY <1>1, <1>2, PTL DEF Spec

\* Every variable of the contract stays in its range: no amount is ever
\* negative, so no subtraction of the contract underflows.
THEOREM ReceiverTypeCorrect == Spec => []ReceiverTypeOK
  <1>1. ReceiverInv => ReceiverTypeOK
    BY DEF ReceiverInv
  <1>2. QED
    BY <1>1, ReceiverInvariant, PTL

\* No transaction, committed or reverted, leaves an allowance behind.
THEOREM AllowancesAreSpent == Spec => []NoStandingAllowance
  <1>1. ReceiverInv => NoStandingAllowance
    BY DEF ReceiverInv, NoStandingAllowance
  <1>2. QED
    BY <1>1, ReceiverInvariant, PTL

\* After the profit is paid out, exactly the debt is there and approved.
THEOREM RepaymentIsCovered == Spec => []RepaymentIsExact
  <1>1. ReceiverInv => RepaymentIsExact
    BY NothingTypes
    DEF ReceiverInv, ReceiverTypeOK, RepaymentIsExact, Spenders, NothingAllowed
  <1>2. QED
    BY <1>1, ReceiverInvariant, PTL

\* A chained cycle of whole-balance steps, of any length, leaves nothing of
\* any token it goes through.
THEOREM CyclesStrandNothing == Spec => []NothingStranded
  <1>1. ReceiverInv => NothingStranded
    <2> SUFFICES ASSUME ReceiverInv, stage = "repay", IsCycleOf(route, asset),
                        NEW i \in DOMAIN route, route[i].tokenIn # asset
                 PROVE  held[route[i].tokenIn] = 0
      BY DEF NothingStranded
    <2>1. /\ next \in Nat \ {0} /\ next \notin DOMAIN route
          /\ route \in Seq(SwapSteps) /\ SpentSoFar
      BY DEF ReceiverInv, ReceiverTypeOK
    <2>2. i < next
      BY <2>1
    <2>3. QED
      BY <2>1, <2>2 DEF SpentSoFar, CurrentToken
  <1>2. QED
    BY <1>1, ReceiverInvariant, PTL

-----------------------------------------------------------------------------
LEMMA InitIsAtomic == Init => Atomic!AtomicInit
  BY DEF Init, Atomic!AtomicInit, CommittedHeld, CommittedRights, NothingHeld,
         NothingAllowed

\* AtomicLoan speaks of routes in the words of its own copy of SwapRoutes.
LEMMA SameWords ==
  ASSUME NEW r, NEW a
  PROVE  /\ Atomic!IsCycleOf(r, a) <=> IsCycleOf(r, a)
         /\ Atomic!TokensOf(r) = TokensOf(r)
  BY DEF IsCycleOf, TokensOf, DexTypes, DEX_UNISWAP_V3, DEX_CAMELOT_V3,
         Atomic!IsCycleOf, Atomic!TokensOf, Atomic!DexTypes,
         Atomic!DEX_UNISWAP_V3, Atomic!DEX_CAMELOT_V3

\* The whole trade is visible when Aave has pulled the debt.
LEMMA RepaidCommits ==
  ASSUME ReceiverInv, Repaid
  PROVE  Atomic!Commit
  <1>0. /\ stage = "repay" /\ stage' = "rest" /\ UNCHANGED adminVars
        /\ before.allowed = NothingAllowed /\ allowed' = NothingAllowed
        /\ held' = [held EXCEPT ![asset] = @ - debt] /\ held[asset] = debt
        /\ next \notin DOMAIN route /\ SpentSoFar /\ OffRouteUntouched
        /\ route \in Routes /\ ReceiverTypeOK
    <2>1. allowed' = NothingAllowed
      BY RepaidKeepsInv DEF ReceiverInv, Repaid, EndTransaction
    <2>2. QED
      BY <2>1 DEF ReceiverInv, Repaid, EndTransaction
  <1>1. /\ asset \in Tokens /\ held \in [Tokens -> Nat] /\ debt \in Nat
        /\ route \in Seq(SwapSteps) /\ next \in Nat \ {0}
    BY <1>0 DEF ReceiverTypeOK
  <1>2. /\ CommittedHeld = before.held /\ CommittedHeld' = held'
        /\ CommittedRights' = CommittedRights
    BY <1>0 DEF CommittedHeld, CommittedRights
  <1>3. held'[asset] = 0 /\ held' \in [Tokens -> Nat]
    BY <1>0, <1>1
  <1>4. \A t \in Tokens \ {asset} : held'[t] = held[t]
    BY <1>0, <1>1
  <1>5. ASSUME IsCycleOf(route, asset), NEW t \in TokensOf(route)
        PROVE  held'[t] = 0
    <2>1. PICK i \in DOMAIN route : t \in {route[i].tokenIn, route[i].tokenOut}
      BY <1>5 DEF TokensOf
    <2>2. t = asset \/ \E j \in DOMAIN route : t = route[j].tokenIn
      <3>1. CASE t = route[i].tokenIn
        BY <3>1
      <3>2. CASE t = route[i].tokenOut /\ i = Len(route)
        BY <1>5, <3>2 DEF IsCycleOf
      <3>3. CASE t = route[i].tokenOut /\ i # Len(route)
        <4>1. i \in 1..(Len(route) - 1) /\ i + 1 \in DOMAIN route
          BY <1>1, <3>3
        <4>2. QED
          BY <1>5, <3>3, <4>1 DEF IsCycleOf
      <3>4. QED
        BY <2>1, <3>1, <3>2, <3>3
    <2>3. CASE t = asset
      BY <1>3, <2>3
    <2>4. ASSUME NEW j \in DOMAIN route, t = route[j].tokenIn, t # asset
          PROVE  held'[t] = 0
      <3>1. j < next
        BY <1>0, <1>1
      <3>2. held[t] = 0
        BY <1>0, <1>5, <2>4, <3>1 DEF SpentSoFar, CurrentToken
      <3>3. t \in Tokens
        BY <1>0, <2>4, StepTypes
      <3>4. QED
        BY <1>4, <2>4, <3>2, <3>3
    <2>5. QED
      BY <2>2, <2>3, <2>4
  <1>6. \A t \in Tokens \ (TokensOf(route) \cup {asset}) :
          held'[t] = before.held[t]
    BY <1>0, <1>4 DEF OffRouteUntouched
  <1>7. <<asset, route>> # <<>>
    OBVIOUS
  <1>8. QED
    BY <1>0, <1>2, <1>3, <1>5, <1>6, <1>7, SameWords
    DEF Atomic!Commit, Atomic!roleVars, adminVars

LEMMA StepIsAtomic ==
  ASSUME ReceiverInv, [Next]_vars
  PROVE  [Atomic!AtomicNext]_(Atomic!atomicVars)
  <1> USE DEF CommittedHeld, CommittedRights
  <1>0. ReceiverTypeOK
    BY DEF ReceiverInv
  <1>1. CASE \E caller \in Accounts : ExecuteArbitrage(caller)
    <2>1. /\ stage = "rest" /\ stage' = "swaps" /\ ~paused
          /\ UNCHANGED adminVars
          /\ before' = [held |-> held, allowed |-> allowed]
          /\ asset' \in Tokens /\ route' \in Routes
      BY <1>1 DEF ExecuteArbitrage
    <2>2. Atomic!Begin
      BY <2>1 DEF Atomic!Begin, Atomic!roleVars, adminVars
    <2>3. QED
      BY <2>2 DEF Atomic!AtomicNext
  <1>2. CASE Swap \/ SkipStep \/ SettleProfit
    <2>1. /\ stage # "rest" /\ stage' # "rest"
          /\ UNCHANGED <<adminVars, before, asset, route>>
      BY <1>2 DEF Swap, SkipStep, SettleProfit
    <2>2. QED
      BY <2>1 DEF Atomic!atomicVars, Atomic!roleVars, adminVars
  <1>3. CASE Repaid
    BY <1>3, RepaidCommits DEF Atomic!AtomicNext
  <1>4. CASE Revert
    <2>1. /\ stage # "rest" /\ stage' = "rest" /\ UNCHANGED adminVars
          /\ held' = before.held /\ allowed' = before.allowed
      BY <1>4 DEF Revert, EndTransaction
    <2>2. <<asset, route>> # <<>>
      OBVIOUS
    <2>3. Atomic!Abort
      BY <2>1, <2>2 DEF Atomic!Abort, Atomic!roleVars, adminVars
    <2>4. QED
      BY <2>3 DEF Atomic!AtomicNext
  <1>5. CASE Receive
    <2>1. /\ stage = "rest" /\ stage' = "rest" /\ UNCHANGED <<adminVars, allowed>>
          /\ held \in [Tokens -> Nat]
          /\ \E t \in Tokens : held' = [held EXCEPT ![t] = @ + 1]
      BY <1>0, <1>5 DEF Receive, txVars, ReceiverTypeOK
    <2>2. Atomic!Transfer
      BY <2>1 DEF Atomic!Transfer, Atomic!roleVars, adminVars
    <2>3. QED
      BY <2>2 DEF Atomic!AtomicNext
  <1>6. ASSUME NEW caller \in Accounts, EmergencyWithdraw(caller)
        PROVE  Atomic!AtomicNext
    <2>1. /\ stage = "rest" /\ stage' = "rest" /\ UNCHANGED <<adminVars, allowed>>
          /\ held \in [Tokens -> Nat]
          /\ \E t \in Tokens : held' = [held EXCEPT ![t] = 0]
      BY <1>0, <1>6 DEF EmergencyWithdraw, txVars, ReceiverTypeOK
    <2>2. Atomic!Transfer
      BY <2>1 DEF Atomic!Transfer, Atomic!roleVars, adminVars
    <2>3. QED
      BY <2>2 DEF Atomic!AtomicNext
  <1>7. ASSUME NEW caller \in Accounts,
               SetExecutor(caller) \/ SetPaused(caller) \/ TransferOwnership(caller)
        PROVE  Atomic!AtomicNext
    <2>1. /\ stage = "rest" /\ stage' = "rest" /\ UNCHANGED <<held, allowed>>
          /\ owner' \in Accounts /\ executor' \in Accounts /\ paused' \in BOOLEAN
      BY <1>0, <1>7 DEF SetExecutor, SetPaused, TransferOwnership, txVars,
                        ReceiverTypeOK
    <2>2. Atomic!ChangeRoles
      BY <2>1 DEF Atomic!ChangeRoles
    <2>3. QED
      BY <2>2 DEF Atomic!AtomicNext
  <1>8. CASE UNCHANGED vars
    BY <1>8 DEF vars, adminVars, txVars, Atomic!atomicVars, Atomic!roleVars
  <1>9. QED
    BY <1>1, <1>2, <1>3, <1>4, <1>5, <1>6, <1>7, <1>8 DEF Next, Admin

\* The contract implements all-or-nothing loans: whatever the swaps do, what
\* is visible from outside changes at the end of a transaction only, and a
\* committed cycle has emptied its tokens and touched no other.
THEOREM ReceiverIsAtomic == Spec => LoansAreAtomic
  <1>1. Init => Atomic!AtomicInit
    BY InitIsAtomic
  <1>2. ReceiverInv /\ [Next]_vars => [Atomic!AtomicNext]_(Atomic!atomicVars)
    BY StepIsAtomic
  <1>3. QED
    BY <1>1, <1>2, ReceiverInvariant, PTL
    DEF Spec, LoansAreAtomic, Atomic!AtomicSpec
=============================================================================
