-------------------------- MODULE RiskManagerProofs --------------------------
(***************************************************************************)
(* What RiskManager keeps for every threshold, cooldown and number of open *)
(* positions.                                                              *)
(***************************************************************************)
EXTENDS RiskManager, TLAPS

USE BreakerAssumption, LimitAssumption, AmountAssumption

\* Spending one position's gas moves it out of the reserve.
LEMMA ReserveStep ==
  ASSUME NEW m \in Nat, NEW n \in Nat, NEW g \in Nat
  PROVE  /\ (m - (n + 1)) * g = (m - n) * g - g
         /\ (m - (n - 1)) * g = (m - n) * g + g
         /\ n <= m => /\ (m - n) * g \in Nat
                      /\ (m - n) * g <= m * g
  <1>1. (m - n) * g \in Int /\ m * g \in Nat /\ n * g \in Nat
    OBVIOUS
  <1>2. (m - n) * g = m * g - n * g
    OBVIOUS
  <1>3. (m - (n + 1)) * g = (m - n) * g - g
    OBVIOUS
  <1>4. (m - (n - 1)) * g = (m - n) * g + g
    OBVIOUS
  <1>5. ASSUME n <= m PROVE (m - n) * g \in Nat
    <2>1. m - n \in Nat
      BY <1>5
    <2>2. QED
      BY <2>1
  <1>6. QED
    BY <1>1, <1>2, <1>3, <1>4, <1>5

-----------------------------------------------------------------------------
\* The operations of RiskManager one by one, whoever calls them: what each
\* leaves of the invariant.

LEMMA StartKeepsInv ==
  ASSUME RiskInv, NEW c \in Candidates, PreTradeCheck(c), RecordTradeStart
  PROVE  RiskInv'
  <1> USE DEF RiskInv, RecordTradeStart, PreTradeCheck
  <1>1. RiskTypeOK'
    BY DEF RiskTypeOK
  <1>2. LossReserve'
    <2>1. openPositions' \in Nat /\ openPositions' <= MaxOpenPositions
      BY <1>1 DEF RiskTypeOK
    <2>2. (MaxOpenPositions - openPositions') * MaxGas \in Nat
      BY <2>1, ReserveStep
    <2>3. dailyPnl' = dailyPnl /\ dailyPnl >= -MaxDailyLoss /\ dailyPnl \in Int
      BY DEF RiskTypeOK
    <2> DEFINE reserve == (MaxOpenPositions - openPositions') * MaxGas
    <2>4. reserve \in Nat => -(MaxDailyLoss + reserve) <= -MaxDailyLoss
      OBVIOUS
    <2>5. reserve \in Nat /\ dailyPnl' >= -(MaxDailyLoss + reserve)
      <3> HIDE DEF reserve
      <3>1. reserve \in Nat
        BY <2>2 DEF reserve
      <3>2. QED
        BY <2>3, <2>4, <3>1
    <2>6. QED
      BY <2>5 DEF LossReserve
  <1>3. CooldownAccounted'
    BY DEF CooldownAccounted
  <1>4. QED
    BY <1>1, <1>2, <1>3

LEMMA OutcomeKeepsInv ==
  ASSUME RiskInv, openPositions > 0, NEW o \in Outcomes, RecordOutcome(o)
  PROVE  RiskInv'
  <1> USE DEF RiskInv
  <1>0. o.profit \in 0..MaxProfit /\ o.gas \in 0..MaxGas /\ o.success \in BOOLEAN
    BY DEF Outcomes
  <1>1. RiskTypeOK'
    <2>1. openPositions' \in 0..MaxOpenPositions
      BY DEF RecordOutcome, ReleasePosition, RiskTypeOK
    <2>2. dailyPnl' \in Int
      BY <1>0 DEF RecordOutcome, RiskTypeOK
    <2>3. returnsLen' \in 0..VarHistory /\ varLimit' \in VarLimits
      BY DEF RecordOutcome, RecordReturn, RiskTypeOK
    <2>4. /\ consecutiveFailures' \in 0..FailCap
          /\ circuitBreakLeft' \in 0..FailureCooldown
          /\ sinceFailure' \in 0..FailureCooldown
      BY DEF RecordOutcome, CountFailure, MaybeTriggerCircuitBreaker, FailCap,
             RiskTypeOK
    <2>5. QED
      BY <2>1, <2>2, <2>3, <2>4 DEF RiskTypeOK
  <1>2. LossReserve'
    <2>1. openPositions \in Nat /\ openPositions' = openPositions - 1
      BY DEF RecordOutcome, ReleasePosition, RiskTypeOK
    <2> DEFINE before == (MaxOpenPositions - openPositions) * MaxGas
               after  == (MaxOpenPositions - openPositions') * MaxGas
    <2>2. after = before + MaxGas
      BY <2>1, ReserveStep
    <2>3. before \in Int
      BY <2>1
    <2>4. dailyPnl \in Int /\ dailyPnl >= -(MaxDailyLoss + before)
      BY DEF LossReserve, RiskTypeOK
    <2>5. dailyPnl' >= dailyPnl - MaxGas /\ dailyPnl' \in Int
      BY <1>0, <2>4 DEF RecordOutcome
    <2>6. dailyPnl' >= -(MaxDailyLoss + after)
      <3> HIDE DEF before, after
      <3>1. QED
        BY <2>2, <2>3, <2>4, <2>5
    <2>7. QED
      BY <2>6 DEF LossReserve
  <1>3. CooldownAccounted'
    <2>1. CASE o.success
      BY <2>1 DEF RecordOutcome, CooldownAccounted
    <2>2. CASE ~o.success
      BY <2>2 DEF RecordOutcome, CooldownAccounted, MaybeTriggerCircuitBreaker
    <2>3. QED
      BY <2>1, <2>2, <1>0
  <1>4. QED
    BY <1>1, <1>2, <1>3

LEMMA ResetKeepsInv ==
  ASSUME RiskInv, ResetDaily
  PROVE  RiskInv'
  <1> USE DEF RiskInv, ResetDaily
  <1>1. RiskTypeOK'
    BY DEF RiskTypeOK
  <1>2. LossReserve'
    <2>1. openPositions' \in Nat /\ openPositions' <= MaxOpenPositions
      BY DEF RiskTypeOK
    <2> DEFINE reserve == (MaxOpenPositions - openPositions') * MaxGas
    <2>2. reserve \in Nat
      BY <2>1, ReserveStep
    <2>3. 0 >= -(MaxDailyLoss + reserve)
      <3> HIDE DEF reserve
      <3>1. QED
        BY <2>2
    <2>4. QED
      BY <2>3 DEF LossReserve
  <1>3. CooldownAccounted'
    BY DEF CooldownAccounted
  <1>4. QED
    BY <1>1, <1>2, <1>3

LEMMA TimeKeepsInv ==
  ASSUME RiskInv, PassTime
  PROVE  RiskInv'
  <1> USE DEF RiskInv, PassTime
  <1>1. RiskTypeOK'
    BY DEF RiskTypeOK
  <1>2. LossReserve'
    BY DEF LossReserve
  <1>3. CooldownAccounted'
    BY DEF CooldownAccounted, RiskTypeOK
  <1>4. QED
    BY <1>1, <1>2, <1>3

LEMMA InitInv == RiskInit => RiskInv
  <1> SUFFICES ASSUME RiskInit PROVE RiskInv
    OBVIOUS
  <1>1. RiskTypeOK
    BY DEF RiskInit, RiskTypeOK, FailCap, VarLimits
  <1>2. LossReserve
    <2> DEFINE reserve == (MaxOpenPositions - openPositions) * MaxGas
    <2>1. reserve \in Nat
      BY ReserveStep DEF RiskInit
    <2>2. 0 >= -(MaxDailyLoss + reserve)
      <3> HIDE DEF reserve
      <3>1. QED
        BY <2>1
    <2>3. QED
      BY <2>2 DEF LossReserve, RiskInit
  <1>3. CooldownAccounted
    BY DEF RiskInit, CooldownAccounted
  <1>4. QED
    BY <1>1, <1>2, <1>3 DEF RiskInv

LEMMA StepInv == RiskInv /\ [RiskNext]_riskVars => RiskInv'
  <1> SUFFICES ASSUME RiskInv, [RiskNext]_riskVars PROVE RiskInv'
    OBVIOUS
  <1>1. CASE StartTrade
    BY <1>1, StartKeepsInv DEF StartTrade
  <1>2. CASE ConcludeTrade
    BY <1>2, OutcomeKeepsInv DEF ConcludeTrade
  <1>3. CASE ResetDaily
    BY <1>3, ResetKeepsInv
  <1>4. CASE Tick
    BY <1>4, TimeKeepsInv DEF Tick
  <1>5. CASE UNCHANGED riskVars
    BY <1>5 DEF riskVars, RiskInv, RiskTypeOK, LossReserve, CooldownAccounted
  <1>6. QED
    BY <1>1, <1>2, <1>3, <1>4, <1>5 DEF RiskNext

\* The inductive invariant holds in every reachable state of every caller
\* that keeps the protocol of risk_manager.py.
THEOREM RiskInvariant == RiskSpec => []RiskInv
  <1>1. QED
    BY InitInv, StepInv, PTL DEF RiskSpec

\* Every counter of RiskManager stays in range: never more open positions
\* than max_open_positions.
THEOREM RiskTypeCorrect == RiskSpec => []RiskTypeOK
  <1>1. RiskInv => RiskTypeOK
    BY DEF RiskInv
  <1>2. QED
    BY RiskInvariant, <1>1, PTL

LEMMA InvBoundsLoss == RiskInv => DailyLossBounded
  <1> SUFFICES ASSUME RiskInv PROVE DailyLossBounded
    OBVIOUS
  <1> DEFINE reserve == (MaxOpenPositions - openPositions) * MaxGas
             all     == MaxOpenPositions * MaxGas
  <1>1. openPositions \in Nat /\ openPositions <= MaxOpenPositions
    BY DEF RiskInv, RiskTypeOK
  <1>2. reserve \in Nat /\ reserve <= all /\ all \in Nat
    BY <1>1, ReserveStep
  <1>3. dailyPnl \in Int /\ dailyPnl >= -(MaxDailyLoss + reserve)
    BY DEF RiskInv, RiskTypeOK, LossReserve
  <1>4. dailyPnl >= -(MaxDailyLoss + all)
    <2> HIDE DEF reserve, all
    <2>1. QED
      BY <1>2, <1>3
  <1>5. QED
    BY <1>4 DEF DailyLossBounded

\* The recorded loss of a day passes the configured limit by at most the gas
\* of the positions that were open when it was reached.
THEOREM DailyLossIsBounded == RiskSpec => []DailyLossBounded
  <1>1. QED
    BY RiskInvariant, InvBoundsLoss, PTL

\* A step that starts a trade after max_consecutive_failures failures comes
\* at least the cooldown after the last of them.
LEMMA InvSpacesStarts ==
  RiskInv /\ [RiskNext]_riskVars => [StartRespectsCooldown]_riskVars
  <1> SUFFICES ASSUME RiskInv, RiskNext, openPositions' > openPositions,
                      consecutiveFailures >= MaxConsecutiveFail
               PROVE  sinceFailure >= FailureCooldown
    BY DEF StartRespectsCooldown
  <1>1. openPositions \in Nat
    BY DEF RiskInv, RiskTypeOK
  <1>2. CASE StartTrade
    <2>1. circuitBreakLeft = 0
      BY <1>2 DEF StartTrade, PreTradeCheck, IsCircuitBroken, RiskInv, RiskTypeOK
    <2>2. QED
      BY <2>1 DEF RiskInv, CooldownAccounted, RiskTypeOK
  <1>3. CASE ConcludeTrade
    BY <1>1, <1>3 DEF ConcludeTrade, RecordOutcome, ReleasePosition
  <1>4. CASE ResetDaily
    BY <1>1, <1>4 DEF ResetDaily
  <1>5. CASE Tick
    BY <1>1, <1>5 DEF Tick, PassTime
  <1>6. QED
    BY <1>2, <1>3, <1>4, <1>5 DEF RiskNext

\* The circuit breaker holds back every trade for the whole cooldown.
THEOREM BreakerIsSpaced == RiskSpec => BreakerSpacing
  <1>1. QED
    BY RiskInvariant, InvSpacesStarts, PTL DEF RiskSpec, BreakerSpacing
=============================================================================
