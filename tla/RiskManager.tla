----------------------------- MODULE RiskManager -----------------------------
(***************************************************************************)
(* The pre-trade gates and the post-trade bookkeeping of                   *)
(* nexus_arb/risk_manager.py, driven by any caller that keeps its          *)
(* protocol: pre_trade_check and record_trade_start without a suspension   *)
(* point between them, then one record_outcome for each started trade.     *)
(*                                                                         *)
(* Amounts are integers in one unit of ETH and time is counted in ticks.   *)
(* The absolute time _circuit_break_until is kept as the time left until   *)
(* it, circuitBreakLeft; _trade_history is kept as the age of its last     *)
(* failed TradeRecord, sinceFailure.                                       *)
(***************************************************************************)
EXTENDS Integers

CONSTANTS
  MaxConsecutiveFail,  \* max_consecutive_failures
  FailureCooldown,     \* failure_cooldown_seconds, in ticks
  MaxDailyLoss,        \* max_daily_loss_eth
  MaxOpenPositions,    \* max_open_positions
  VarHistory,          \* returns the VaR estimate needs (10 in the code)
  Loans,               \* the loan sizes a candidate may ask for
  MinLoan,             \* min_flash_loan_eth
  MaxGas,              \* the fee cap times the gas limit: what a trade can cost
  MaxProfit,           \* what one trade can earn
  PnlCap               \* bound of the model: the profit of a day

ASSUME BreakerAssumption ==
  /\ MaxConsecutiveFail \in Nat \ {0}
  /\ FailureCooldown \in Nat

ASSUME LimitAssumption ==
  /\ MaxDailyLoss \in Nat
  /\ MaxOpenPositions \in Nat
  /\ VarHistory \in Nat

ASSUME AmountAssumption ==
  /\ MaxGas \in Nat
  /\ MaxProfit \in Nat
  /\ PnlCap \in Nat
  /\ Loans \subseteq Nat
  /\ MinLoan \in Nat

VARIABLES
  consecutiveFailures, \* _consecutive_failures, up to FailCap
  circuitBreakLeft,    \* _circuit_break_until - time.time(), never negative
  openPositions,       \* _open_positions
  dailyPnl,            \* _daily_pnl
  returnsLen,          \* len(_returns), up to VarHistory
  varLimit,            \* largest loan whose VaR over _returns is in budget
  sinceFailure         \* age of the last failed record of _trade_history

riskVars == <<consecutiveFailures, circuitBreakLeft, openPositions, dailyPnl,
              returnsLen, varLimit, sinceFailure>>

\* The failure count is only compared with MaxConsecutiveFail: counts above
\* FailCap are not told apart.
FailCap == MaxConsecutiveFail + 1

VarLimits == Loans \cup {0}

\* A candidate trade: the gates on its own data (profit, gas price, gas
\* multiple, wallet reserve) as one verdict, and the loan it asks for.
Candidates == [dataGates : BOOLEAN, loan : Loans]

Outcomes == [profit : 0..MaxProfit, gas : 0..MaxGas, success : BOOLEAN]

RiskInit ==
  /\ consecutiveFailures = 0
  /\ circuitBreakLeft = 0
  /\ openPositions = 0
  /\ dailyPnl = 0
  /\ returnsLen = 0
  /\ varLimit = 0
  /\ sinceFailure = FailureCooldown

-----------------------------------------------------------------------------
IsCircuitBroken == circuitBreakLeft > 0

\* Fewer than VarHistory returns admit every loan.
VarCheck(loan) == returnsLen < VarHistory \/ loan <= varLimit

\* Faulty gates: one forgets the loss of the day, one the breaker.
PreTradeCheckAnyLoss(c) ==
  /\ ~IsCircuitBroken
  /\ openPositions < MaxOpenPositions
  /\ c.dataGates /\ c.loan >= MinLoan /\ VarCheck(c.loan)

PreTradeCheckAnyTime(c) ==
  /\ openPositions < MaxOpenPositions
  /\ c.dataGates /\ c.loan >= MinLoan /\ VarCheck(c.loan)
  /\ dailyPnl >= -MaxDailyLoss

PreTradeCheck(c) ==
  /\ ~IsCircuitBroken
  /\ openPositions < MaxOpenPositions
  /\ c.dataGates
  /\ c.loan >= MinLoan
  /\ dailyPnl >= -MaxDailyLoss
  /\ VarCheck(c.loan)

RecordTradeStart ==
  /\ openPositions' = openPositions + 1
  /\ UNCHANGED <<consecutiveFailures, circuitBreakLeft, dailyPnl, returnsLen,
                 varLimit, sinceFailure>>

ReleasePosition(open) == IF open > 0 THEN open - 1 ELSE 0

\* Faulty triggers: one fires only at the exact count, one a failure late.
TriggerOnce(fails, left) ==
  IF fails = MaxConsecutiveFail THEN FailureCooldown ELSE left

TriggerLate(fails, left) ==
  IF fails > MaxConsecutiveFail THEN FailureCooldown ELSE left

\* The cooldown that a run of `fails` failures leaves, given the present one.
MaybeTriggerCircuitBreaker(fails, left) ==
  IF fails >= MaxConsecutiveFail THEN FailureCooldown ELSE left

CountFailure(fails) == IF fails < FailCap THEN fails + 1 ELSE fails

\* Only a trade with a profit enters the return history, at most VarHistory
\* of which the model counts; the statistics of a longer one are arbitrary.
RecordReturn(profit) ==
  IF profit > 0
    THEN /\ returnsLen' = IF returnsLen < VarHistory THEN returnsLen + 1
                                                     ELSE returnsLen
         /\ varLimit' \in (IF returnsLen' < VarHistory THEN {varLimit}
                                                       ELSE VarLimits)
    ELSE UNCHANGED <<returnsLen, varLimit>>

RecordOutcome(o) ==
  /\ openPositions' = ReleasePosition(openPositions)
  /\ dailyPnl' = dailyPnl + o.profit - o.gas
  /\ RecordReturn(o.profit)
  /\ \/ /\ o.success
        /\ consecutiveFailures' = 0
        /\ UNCHANGED <<circuitBreakLeft, sinceFailure>>
     \/ /\ ~o.success
        /\ consecutiveFailures' = CountFailure(consecutiveFailures)
        /\ circuitBreakLeft' = MaybeTriggerCircuitBreaker(consecutiveFailures',
                                                          circuitBreakLeft)
        /\ sinceFailure' = 0

\* A faulty reset that evaluates the breaker again.
ResetDailyRearming ==
  /\ dailyPnl' = 0
  /\ circuitBreakLeft' = MaybeTriggerCircuitBreaker(consecutiveFailures,
                                                    circuitBreakLeft)
  /\ UNCHANGED <<consecutiveFailures, openPositions, returnsLen, varLimit,
                 sinceFailure>>

ResetDaily ==
  /\ dailyPnl' = 0
  /\ UNCHANGED <<consecutiveFailures, circuitBreakLeft, openPositions,
                 returnsLen, varLimit, sinceFailure>>

\* One tick of the clock that time.time() reads.
PassTime ==
  /\ circuitBreakLeft' = IF circuitBreakLeft > 0 THEN circuitBreakLeft - 1
                                                 ELSE 0
  /\ sinceFailure' = IF sinceFailure < FailureCooldown THEN sinceFailure + 1
                                                       ELSE sinceFailure
  /\ UNCHANGED <<consecutiveFailures, openPositions, dailyPnl, returnsLen,
                 varLimit>>

-----------------------------------------------------------------------------
StartTrade ==
  /\ \E c \in Candidates : PreTradeCheck(c)
  /\ RecordTradeStart

ConcludeTrade ==
  /\ openPositions > 0
  /\ \E o \in Outcomes : /\ dailyPnl + o.profit - o.gas <= PnlCap
                         /\ RecordOutcome(o)

Tick ==
  /\ circuitBreakLeft > 0 \/ sinceFailure < FailureCooldown
  /\ PassTime

\* A new process: RiskManager keeps nothing outside its memory.
RiskBoot ==
  /\ consecutiveFailures' = 0
  /\ circuitBreakLeft' = 0
  /\ openPositions' = 0
  /\ dailyPnl' = 0
  /\ returnsLen' = 0
  /\ varLimit' = 0
  /\ sinceFailure' = FailureCooldown

RiskNext == StartTrade \/ ConcludeTrade \/ ResetDaily \/ Tick

RiskSpec == RiskInit /\ [][RiskNext]_riskVars

\* The clock advances and every started trade is concluded.
RiskFairSpec == RiskSpec /\ WF_riskVars(Tick) /\ WF_riskVars(ConcludeTrade)

-----------------------------------------------------------------------------
\* Every counter stays in its range; in particular no more positions are ever
\* open than max_open_positions.
RiskTypeOK ==
  /\ consecutiveFailures \in 0..FailCap
  /\ circuitBreakLeft \in 0..FailureCooldown
  /\ openPositions \in 0..MaxOpenPositions
  /\ dailyPnl \in Int
  /\ returnsLen \in 0..VarHistory
  /\ varLimit \in VarLimits
  /\ sinceFailure \in 0..FailureCooldown

\* The loss of a day can pass max_daily_loss_eth only by what the trades that
\* were already in flight cost: the gate reads _daily_pnl before the gas of
\* open positions is known.
DailyLossBounded == dailyPnl >= -(MaxDailyLoss + MaxOpenPositions * MaxGas)

\* What makes the bound inductive: each position still open has its gas in
\* reserve.
LossReserve ==
  dailyPnl >= -(MaxDailyLoss + (MaxOpenPositions - openPositions) * MaxGas)

\* Once max_consecutive_failures is reached, the cooldown still to run and
\* the time since the last failure make up the whole cooldown.
CooldownAccounted ==
  consecutiveFailures >= MaxConsecutiveFail =>
    circuitBreakLeft + sinceFailure >= FailureCooldown

\* The inductive invariant of the component.
RiskInv == RiskTypeOK /\ LossReserve /\ CooldownAccounted

\* After a run of max_consecutive_failures failures, no trade starts before
\* failure_cooldown_seconds have passed since the last of them, however the
\* outcomes of positions opened earlier interleave with the clock.
StartRespectsCooldown ==
  (/\ openPositions' > openPositions
   /\ consecutiveFailures >= MaxConsecutiveFail)
    => sinceFailure >= FailureCooldown

BreakerSpacing == [][StartRespectsCooldown]_riskVars

\* The breaker never keeps trading halted for good: late failures of open
\* positions re-arm it, but only finitely often.
BreakerReopens == IsCircuitBroken ~> ~IsCircuitBroken
=============================================================================
