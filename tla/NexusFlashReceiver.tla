-------------------------- MODULE NexusFlashReceiver --------------------------
(***************************************************************************)
(* contracts/NexusFlashReceiver.sol: a transaction that borrows, swaps     *)
(* along a route, checks that the loan can be repaid and pays the owner,   *)
(* one action per call it makes, and the administration between            *)
(* transactions. A call that reverts restores what the transaction found;  *)
(* a call refused by a modifier changes nothing and is no step.            *)
(*                                                                         *)
(* The token contracts, the exchanges and the Aave pool are external: a    *)
(* swap fails or pulls exactly the amount it was given and pays at least   *)
(* the minimum; Aave pulls the debt or reverts.                            *)
(***************************************************************************)
EXTENDS SwapRoutes

CONSTANTS
  Accounts,    \* the externally owned accounts that call the contract
  Routes,      \* the step sequences executeArbitrage is called with
  Amounts,     \* the loans asked for
  Premium,     \* Aave's fee on a loan
  Uniswap, Curve, Balancer, Aave, \* the addresses fixed by the constructor
  MaxOut,      \* bound of the model: what one swap pays
  HeldCap      \* bound of the model: the contract's balance of one token

ASSUME ReceiverAssumption ==
  /\ Amounts \subseteq Nat \ {0}
  /\ Premium \in Nat /\ MaxOut \in Nat /\ HeldCap \in Nat
  /\ Routes \subseteq Seq(SwapSteps)

VARIABLES
  owner, executor, paused,
  held,     \* the contract's balance of each token
  allowed,  \* what each spender may pull of each token
  stage,    \* rest: no transaction; swaps: in the loop; repay: Aave's turn
  asset,    \* the borrowed token
  route,    \* the steps of this transaction
  next,     \* the step to execute next
  debt,     \* repayAmount
  paid,     \* the profit transferred to the owner in this transaction
  before    \* held and allowed as this transaction found them

\* Outside a transaction route, next, debt, paid and before are not read and
\* hold their initial values.

adminVars == <<owner, executor, paused>>
txVars == <<stage, asset, route, next, debt, paid, before>>
vars == <<adminVars, held, allowed, txVars>>

Spenders == {Uniswap, Curve, Balancer, Aave} \cup Overrides

NothingHeld == [t \in Tokens |-> 0]
NothingAllowed == [s \in Spenders |-> NothingHeld]
NoSnapshot == [held |-> NothingHeld, allowed |-> NothingAllowed]

Init ==
  /\ \E deployer \in Accounts : owner = deployer /\ executor = deployer
  /\ paused = FALSE
  /\ held = NothingHeld
  /\ allowed = NothingAllowed
  /\ stage = "rest"
  /\ asset \in Tokens
  /\ route = <<>>
  /\ next = 1
  /\ debt = 0
  /\ paid = 0
  /\ before = NoSnapshot

-----------------------------------------------------------------------------
\* executeArbitrage, to the first line of executeOperation.
ExecuteArbitrage(caller) ==
  /\ stage = "rest"
  /\ caller \in {executor, owner}
  /\ ~paused
  /\ \E a \in Tokens, amount \in Amounts, r \in Routes :
       /\ asset' = a
       /\ held' = [held EXCEPT ![a] = @ + amount]
       /\ debt' = amount + Premium
       /\ route' = r
  /\ before' = [held |-> held, allowed |-> allowed]
  /\ stage' = "swaps"
  /\ next' = 1
  /\ paid' = 0
  /\ UNCHANGED <<adminVars, allowed>>

\* A faulty reading of amountIn that takes 0 for an amount.
AmountLiterally(step) == step.amountIn

\* amountIn = 0 stands for the whole balance.
Amount(step) == IF step.amountIn = 0 THEN held[step.tokenIn] ELSE step.amountIn

Spender(step) ==
  IF step.dexType \in {DEX_UNISWAP_V3, DEX_CAMELOT_V3}
    THEN IF step.router = ZeroAddress THEN Uniswap ELSE step.router
    ELSE IF step.dexType = DEX_CURVE THEN Curve ELSE Balancer

\* A faulty approval that is added to what is left of the last one, with some
\* room to spare.
SafeApproveGenerously(token, spender, amount) ==
  [allowed EXCEPT ![spender][token] = @ + amount + 1]

SafeApprove(token, spender, amount) ==
  [allowed EXCEPT ![spender][token] = amount]

\* The exchange pulls the amount and pays the contract.
Swap ==
  /\ stage = "swaps"
  /\ next \in DOMAIN route
  /\ LET step == route[next]
         amount == Amount(step)
     IN /\ step.dexType \in DexTypes
        /\ amount <= held[step.tokenIn]
        /\ allowed' = [SafeApprove(step.tokenIn, Spender(step), amount)
                         EXCEPT ![Spender(step)][step.tokenIn] = @ - amount]
        /\ \E out \in step.minAmountOut..MaxOut :
             /\ held[step.tokenOut] + out <= HeldCap
             /\ held' = [held EXCEPT ![step.tokenIn] = @ - amount,
                                     ![step.tokenOut] = @ + out]
  /\ next' = next + 1
  /\ UNCHANGED <<adminVars, stage, asset, route, debt, paid, before>>

\* A faulty loop that carries on after a swap that failed.
SkipFailedStep ==
  /\ stage = "swaps"
  /\ next \in DOMAIN route
  /\ next' = next + 1
  /\ UNCHANGED <<adminVars, held, allowed, stage, asset, route, debt, paid, before>>

\* The dispatcher has no branch for any other dexType: the step does nothing.
SkipStep ==
  /\ stage = "swaps"
  /\ next \in DOMAIN route
  /\ route[next].dexType \notin DexTypes
  /\ next' = next + 1
  /\ UNCHANGED <<adminVars, held, allowed, stage, asset, route, debt, paid, before>>

\* A faulty profit that forgets the premium.
ProfitBeforePremium == held[asset] - (debt - Premium)

\* balance - repayAmount
Profit == held[asset] - debt

\* The rest of executeOperation, when the balance covers the repayment.
SettleProfit ==
  /\ stage = "swaps"
  /\ next \notin DOMAIN route
  /\ held[asset] >= debt
  /\ allowed' = SafeApprove(asset, Aave, debt)
  /\ held' = [held EXCEPT ![asset] = @ - Profit]
  /\ paid' = Profit
  /\ stage' = "repay"
  /\ UNCHANGED <<adminVars, asset, route, next, debt, before>>

EndTransaction ==
  /\ stage' = "rest"
  /\ route' = <<>>
  /\ next' = 1
  /\ debt' = 0
  /\ paid' = 0
  /\ before' = NoSnapshot
  /\ UNCHANGED <<adminVars, asset>>

\* flashLoanSimple pulls the debt and returns: the transaction is committed.
Repaid ==
  /\ stage = "repay"
  /\ held[asset] >= debt
  /\ allowed[Aave][asset] >= debt
  /\ held' = [held EXCEPT ![asset] = @ - debt]
  /\ allowed' = [allowed EXCEPT ![Aave][asset] = @ - debt]
  /\ EndTransaction

\* A swap fails or pays less than its minimum, InsufficientProfit, the transfer
\* of the profit or the repayment fails, or gas runs out at any point.
Revert ==
  /\ stage # "rest"
  /\ held' = before.held
  /\ allowed' = before.allowed
  /\ EndTransaction

-----------------------------------------------------------------------------
SetExecutor(caller) ==
  /\ stage = "rest"
  /\ caller = owner
  /\ executor' \in Accounts
  /\ UNCHANGED <<owner, paused, held, allowed, txVars>>

SetPaused(caller) ==
  /\ stage = "rest"
  /\ caller = owner
  /\ paused' \in BOOLEAN
  /\ UNCHANGED <<owner, executor, held, allowed, txVars>>

\* The executor keeps its role.
TransferOwnership(caller) ==
  /\ stage = "rest"
  /\ caller = owner
  /\ owner' \in Accounts
  /\ UNCHANGED <<executor, paused, held, allowed, txVars>>

\* emergencyWithdraw and emergencyWithdrawETH: the whole balance of a token.
EmergencyWithdraw(caller) ==
  /\ stage = "rest"
  /\ caller = owner
  /\ \E t \in Tokens : held[t] > 0 /\ held' = [held EXCEPT ![t] = 0]
  /\ UNCHANGED <<adminVars, allowed, txVars>>

\* Anybody may transfer a token, or send ETH, to the contract.
Receive ==
  /\ stage = "rest"
  /\ \E t \in Tokens : held[t] < HeldCap /\ held' = [held EXCEPT ![t] = @ + 1]
  /\ UNCHANGED <<adminVars, allowed, txVars>>

Admin(caller) ==
  \/ SetExecutor(caller) \/ SetPaused(caller)
  \/ TransferOwnership(caller) \/ EmergencyWithdraw(caller)

Next ==
  \/ \E caller \in Accounts : ExecuteArbitrage(caller) \/ Admin(caller)
  \/ Swap \/ SkipStep \/ SettleProfit \/ Repaid \/ Revert \/ Receive

Spec == Init /\ [][Next]_vars

-----------------------------------------------------------------------------
ReceiverTypeOK ==
  /\ owner \in Accounts /\ executor \in Accounts /\ paused \in BOOLEAN
  /\ held \in [Tokens -> Nat]
  /\ allowed \in [Spenders -> [Tokens -> Nat]]
  /\ stage \in {"rest", "swaps", "repay"}
  /\ asset \in Tokens /\ route \in Seq(SwapSteps)
  /\ next \in Nat \ {0} /\ debt \in Nat /\ paid \in Nat
  /\ before \in [held : [Tokens -> Nat], allowed : [Spenders -> [Tokens -> Nat]]]

\* Whatever the route and however the transaction ends, no exchange and no
\* pool is left with the right to pull tokens from the contract.
NoStandingAllowance == stage = "rest" => allowed = NothingAllowed

\* Once the profit has gone to the owner, exactly the debt is left of the
\* borrowed token and exactly the debt is approved: Aave's pull neither fails
\* nor leaves anything behind.
RepaymentIsExact ==
  stage = "repay" => held[asset] = debt /\ allowed[Aave][asset] = debt

\* A trade of the bot strands nothing: of no token on its route is anything
\* left in the contract, not even what was there before.
NothingStranded ==
  (stage = "repay" /\ IsCycleOf(route, asset)) =>
    \A i \in DOMAIN route :
      route[i].tokenIn # asset => held[route[i].tokenIn] = 0

\* In the course of a cycle, what the steps done so far took in is all spent,
\* but for the token the next step takes.
CurrentToken == IF next \in DOMAIN route THEN route[next].tokenIn ELSE asset

SpentSoFar ==
  (stage # "rest" /\ IsCycleOf(route, asset)) =>
    \A i \in DOMAIN route :
      (i < next /\ route[i].tokenIn # CurrentToken) => held[route[i].tokenIn] = 0

\* A transaction leaves alone what is not on its route.
OffRouteUntouched ==
  stage # "rest" =>
    \A t \in Tokens \ (TokensOf(route) \cup {asset}) : held[t] = before.held[t]

\* The inductive invariant of the contract.
ReceiverInv ==
  /\ ReceiverTypeOK
  /\ next <= Len(route) + 1
  /\ stage # "repay" => allowed = NothingAllowed
  /\ before.allowed = NothingAllowed
  /\ stage = "repay" =>
       /\ next \notin DOMAIN route
       /\ allowed = [NothingAllowed EXCEPT ![Aave][asset] = debt]
       /\ held[asset] = debt
  /\ SpentSoFar
  /\ OffRouteUntouched
  /\ stage # "rest" => route \in Routes /\ ~paused

-----------------------------------------------------------------------------
\* Seen from outside, the contract is what it was before the transaction until
\* the transaction commits.
CommittedHeld == IF stage = "rest" THEN held ELSE before.held
CommittedRights == IF stage = "rest" THEN allowed ELSE before.allowed

Atomic == INSTANCE AtomicLoan
            WITH held <- CommittedHeld, rights <- CommittedRights,
                 call <- IF stage = "rest" THEN <<>> ELSE <<asset, route>>,
                 NoRights <- NothingAllowed, NoCall <- <<>>

\* A flash loan happens as a whole or not at all, empties the tokens of a
\* cycle, touches no other token and leaves nobody a right to pull.
LoansAreAtomic == Atomic!AtomicSpec
=============================================================================
