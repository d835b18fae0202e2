---------------------------- MODULE TradingProofs ----------------------------
(***************************************************************************)
(* The trade lifecycle implements the protocol RiskManager relies on, and  *)
(* its safety invariants hold, for every set of transactions, every limit  *)
(* and every timeout, in dry and in live mode.                             *)
(*                                                                         *)
(* The argument: each step of the lifecycle is, for RiskManager, one of    *)
(* its own operations, a new process, or nothing (StepIsRiskStep), so the  *)
(* component's inductive invariant carries over from RiskManagerProofs;    *)
(* what is left is the state of the coroutine itself.                      *)
(***************************************************************************)
EXTENDS Trading, RiskManagerProofs

USE BreakerAssumption, LimitAssumption, AmountAssumption, TradingAssumption

LEMMA BootKeepsInv == RiskBoot => RiskInv'
  <1> SUFFICES ASSUME RiskBoot PROVE RiskInv'
    OBVIOUS
  <1>1. RiskTypeOK'
    BY DEF RiskBoot, RiskTypeOK, FailCap, VarLimits
  <1>2. LossReserve'
    <2> DEFINE reserve == (MaxOpenPositions - openPositions') * MaxGas
    <2>1. reserve \in Nat
      BY ReserveStep DEF RiskBoot
    <2>2. 0 >= -(MaxDailyLoss + reserve)
      <3> HIDE DEF reserve
      <3>1. QED
        BY <2>1
    <2>3. QED
      BY <2>2 DEF LossReserve, RiskBoot
  <1>3. CooldownAccounted'
    BY DEF RiskBoot, CooldownAccounted
  <1>4. QED
    BY <1>1, <1>2, <1>3 DEF RiskInv

\* A raised or timed out attempt is an outcome without profit.
LEMMA NoProfitOutcomes ==
  /\ RaisedOutcomes \subseteq Outcomes
  /\ ReceiptOutcomes \subseteq Outcomes
  /\ TimeoutOutcome \in RaisedOutcomes
  /\ \A o \in RaisedOutcomes : o.profit = 0 /\ o.gas \in 0..MaxGas
  BY DEF RaisedOutcomes, ReceiptOutcomes, TimeoutOutcome, Outcomes

LEMMA RaisedConcludes ==
  ASSUME TradingInv, InTrade, NEW o \in RaisedOutcomes, RecordOutcome(o)
  PROVE  ConcludeTrade
  <1>1. openPositions > 0 /\ dailyPnl <= PnlCap /\ dailyPnl \in Int
    BY DEF TradingInv, PositionHeld, TradingTypeOK, RiskTypeOK
  <1>2. o \in Outcomes /\ o.profit = 0 /\ o.gas \in 0..MaxGas
    BY NoProfitOutcomes
  <1>3. dailyPnl + o.profit - o.gas <= PnlCap
    BY <1>1, <1>2
  <1>4. QED
    BY <1>1, <1>2, <1>3 DEF ConcludeTrade

\* The refinement step: what the orchestrator does to RiskManager is always
\* an operation its protocol allows.
LEMMA StepIsRiskStep ==
  TradingInv /\ [Next]_vars => [RiskNext \/ RiskBoot]_riskVars
  <1> SUFFICES ASSUME TradingInv, Next PROVE [RiskNext \/ RiskBoot]_riskVars
    BY DEF vars
  <1>1. CASE NewBlock
    BY <1>1 DEF NewBlock
  <1>2. CASE EndScan \/ FindOpportunity \/ Decline \/ Prepared \/ AlertDone
    BY <1>2 DEF EndScan, FindOpportunity, Decline, Prepared, AlertDone
  <1>3. CASE BeginTrade \/ DryRunTrade
    <2>1. StartTrade
      BY <1>3 DEF BeginTrade, DryRunTrade, StartTrade
    <2>2. QED
      BY <2>1 DEF RiskNext
  <1>4. CASE AttemptRaises
    <2>1. InTrade
      BY <1>4 DEF AttemptRaises, Goto, InTrade
    <2>2. PICK o \in RaisedOutcomes : RecordOutcome(o)
      BY <1>4 DEF AttemptRaises, HandleException
    <2>3. QED
      BY <2>1, <2>2, RaisedConcludes DEF RiskNext
  <1>5. ASSUME NEW t \in TxIds, Submit(t) PROVE UNCHANGED riskVars
    BY <1>5 DEF Submit
  <1>6. ASSUME NEW t \in TxIds, SubmitLost(t) PROVE ConcludeTrade
    <2>1. InTrade
      BY <1>6 DEF SubmitLost, Goto, InTrade
    <2>2. PICK o \in RaisedOutcomes : RecordOutcome(o)
      BY <1>6 DEF SubmitLost, HandleException
    <2>3. QED
      BY <2>1, <2>2, RaisedConcludes
  <1>7. CASE ReceiptFound
    <2>1. openPositions > 0
      BY <1>7 DEF ReceiptFound, TradingInv, PositionHeld, InTrade
    <2>2. PICK o \in ReceiptOutcomes : /\ dailyPnl + o.profit - o.gas <= PnlCap
                                       /\ RecordOutcome(o)
      BY <1>7 DEF ReceiptFound
    <2>3. ConcludeTrade
      BY <2>1, <2>2, NoProfitOutcomes DEF ConcludeTrade
    <2>4. QED
      BY <2>3 DEF RiskNext
  <1>8. CASE PollTimesOut
    <2>1. InTrade /\ RecordOutcome(TimeoutOutcome)
      BY <1>8 DEF PollTimesOut, Goto, InTrade
    <2>2. QED
      BY <2>1, NoProfitOutcomes, RaisedConcludes DEF RiskNext
  <1>9. CASE Chain
    BY <1>9 DEF Chain, Mine, Drop
  <1>10. CASE ClockTick
    <2>1. circuitBreakLeft \in Nat /\ sinceFailure \in 0..FailureCooldown
      BY DEF TradingInv, TradingTypeOK, RiskTypeOK
    <2>2. CASE circuitBreakLeft > 0 \/ sinceFailure < FailureCooldown
      BY <1>10, <2>2 DEF ClockTick, Tick, RiskNext
    <2>3. CASE ~(circuitBreakLeft > 0 \/ sinceFailure < FailureCooldown)
      BY <1>10, <2>1, <2>3 DEF ClockTick, PassTime, riskVars
    <2>4. QED
      BY <2>2, <2>3
  <1>11. CASE Midnight
    BY <1>11 DEF Midnight, RiskNext
  <1>12. CASE Signal \/ Shutdown
    BY <1>12 DEF Signal, Shutdown
  <1>13. CASE Restart
    BY <1>13 DEF Restart
  <1>14. QED
    BY <1>1, <1>2, <1>3, <1>4, <1>5, <1>6, <1>7, <1>8, <1>9, <1>10, <1>11,
       <1>12, <1>13 DEF Next, Proceed, RiskNext

-----------------------------------------------------------------------------
LEMMA RiskPart == TradingInv /\ [Next]_vars => RiskInv'
  <1> SUFFICES ASSUME TradingInv, [Next]_vars PROVE RiskInv'
    OBVIOUS
  <1>1. RiskInv
    BY DEF TradingInv
  <1>2. CASE RiskBoot
    BY <1>2, BootKeepsInv
  <1>3. CASE [RiskNext]_riskVars
    BY <1>1, <1>3, StepInv
  <1>4. QED
    BY <1>2, <1>3, StepIsRiskStep

LEMMA TypePart == TradingInv /\ [Next]_vars => TradingTypeOK'
  <1> SUFFICES ASSUME TradingInv, [Next]_vars PROVE TradingTypeOK'
    OBVIOUS
  <1>0. TradingTypeOK /\ RiskTypeOK'
    BY RiskPart DEF TradingInv, RiskInv
  <1> USE DEF TradingTypeOK, Points, Goto
  <1>1. CASE NewBlock \/ EndScan \/ FindOpportunity \/ Decline \/ Prepared \/ AlertDone
    BY <1>0, <1>1 DEF NewBlock, EndScan, FindOpportunity, Decline, Prepared,
                      AlertDone
  <1>2. CASE BeginTrade \/ DryRunTrade
    BY <1>0, <1>2 DEF BeginTrade, DryRunTrade
  <1>3. CASE AttemptRaises
    BY <1>0, <1>3 DEF AttemptRaises, HandleException
  <1>4. ASSUME NEW t \in TxIds, Submit(t) PROVE TradingTypeOK'
    <2>1. mined = {}
      BY <1>0, <1>4 DEF Submit, TradingInv, AwaitsInPoll, Alive
    <2>2. QED
      BY <1>0, <1>4, <2>1 DEF Submit
  <1>5. ASSUME NEW t \in TxIds, SubmitLost(t) PROVE TradingTypeOK'
    <2>1. mined = {}
      BY <1>0, <1>5 DEF SubmitLost, TradingInv, AwaitsInPoll, Alive
    <2>2. QED
      BY <1>0, <1>5, <2>1 DEF SubmitLost, HandleException
  <1>6. CASE ReceiptFound
    BY <1>0, <1>6 DEF ReceiptFound, RememberOutcome
  <1>7. CASE PollTimesOut
    BY <1>0, <1>7 DEF PollTimesOut, RememberOutcome
  <1>8. ASSUME NEW t \in TxIds, Mine(t) \/ Drop(t) PROVE TradingTypeOK'
    BY <1>0, <1>8 DEF Mine, Drop
  <1>9. CASE ClockTick
    BY <1>0, <1>9 DEF ClockTick
  <1>10. CASE Midnight
    BY <1>0, <1>10 DEF Midnight, tradeVars
  <1>11. CASE Signal \/ Shutdown
    BY <1>0, <1>11 DEF Signal, Shutdown
  <1>12. CASE Restart
    BY <1>0, <1>12 DEF Restart
  <1>13. CASE UNCHANGED vars
    BY <1>0, <1>13 DEF vars, tradeVars
  <1>14. QED
    BY <1>1, <1>2, <1>3, <1>4, <1>5, <1>6, <1>7, <1>8, <1>9, <1>10, <1>11,
       <1>12, <1>13 DEF Next, Proceed, Chain

\* Who holds the position, and for which transaction.
LEMMA PositionPart ==
  TradingInv /\ [Next]_vars =>
    AwaitsInPoll' /\ PositionHeld' /\ PositionMatchesTrade'
  <1> SUFFICES ASSUME TradingInv, [Next]_vars
               PROVE  AwaitsInPoll' /\ PositionHeld' /\ PositionMatchesTrade'
    OBVIOUS
  <1> DEFINE Goal == AwaitsInPoll' /\ PositionHeld' /\ PositionMatchesTrade'
  <1>0. /\ AwaitsInPoll /\ PositionHeld /\ PositionMatchesTrade
        /\ openPositions \in Nat /\ current \in TxIds \cup {NoTx}
    BY DEF TradingInv, TradingTypeOK, RiskTypeOK
  <1> USE DEF AwaitsInPoll, PositionHeld, PositionMatchesTrade, InTrade, Alive, Goto
  <1>1. CASE NewBlock \/ EndScan \/ FindOpportunity \/ Decline \/ Prepared \/ AlertDone
    BY <1>0, <1>1 DEF NewBlock, EndScan, FindOpportunity, Decline, Prepared,
                      AlertDone, riskVars
  <1>2. CASE BeginTrade
    BY <1>0, <1>2 DEF BeginTrade, RecordTradeStart
  <1>3. CASE DryRunTrade
    BY <1>0, <1>3 DEF DryRunTrade, RecordTradeStart
  <1>4. CASE AttemptRaises
    BY <1>0, <1>4 DEF AttemptRaises, HandleException, RecordOutcome, ReleasePosition
  <1>5. ASSUME NEW t \in TxIds, Submit(t) PROVE Goal
    BY <1>0, <1>5 DEF Submit, riskVars
  <1>6. ASSUME NEW t \in TxIds, SubmitLost(t) PROVE Goal
    BY <1>0, <1>6 DEF SubmitLost, HandleException, RecordOutcome, ReleasePosition
  <1>7. CASE ReceiptFound
    BY <1>0, <1>7 DEF ReceiptFound, RecordOutcome, ReleasePosition
  <1>8. CASE PollTimesOut
    BY <1>0, <1>8 DEF PollTimesOut, RecordOutcome, ReleasePosition
  <1>9. CASE Chain
    BY <1>0, <1>9 DEF Chain, Mine, Drop, riskVars
  <1>10. CASE ClockTick
    BY <1>0, <1>10 DEF ClockTick, PassTime
  <1>11. CASE Midnight
    BY <1>0, <1>11 DEF Midnight, ResetDaily, tradeVars
  <1>12. CASE Signal \/ Shutdown
    BY <1>0, <1>12 DEF Signal, Shutdown, riskVars
  <1>13. CASE Restart
    BY <1>0, <1>13 DEF Restart, RiskBoot
  <1>14. CASE UNCHANGED vars
    BY <1>0, <1>14 DEF vars, tradeVars, riskVars
  <1>15. QED
    BY <1>1, <1>2, <1>3, <1>4, <1>5, <1>6, <1>7, <1>8, <1>9, <1>10, <1>11,
       <1>12, <1>13, <1>14 DEF Next, Proceed

\* The loss of the day, split by whether a trade is in progress: inside the
\* limit during a trade, so at most one trade's gas past it after one.
LEMMA LossPart ==
  TradingInv /\ [Next]_vars =>
    dailyPnl' <= PnlCap /\ VerdictHolds' /\ SerialLossBounded'
  <1> SUFFICES ASSUME TradingInv, [Next]_vars
               PROVE  dailyPnl' <= PnlCap /\ VerdictHolds' /\ SerialLossBounded'
    OBVIOUS
  <1> DEFINE Goal == dailyPnl' <= PnlCap /\ VerdictHolds' /\ SerialLossBounded'
  <1>0. /\ dailyPnl <= PnlCap /\ VerdictHolds /\ SerialLossBounded
        /\ dailyPnl \in Int /\ circuitBreakLeft \in Nat
    BY DEF TradingInv, TradingTypeOK, RiskTypeOK
  <1> USE DEF VerdictHolds, SerialLossBounded, InTrade, Goto, IsCircuitBroken
  <1>1. CASE NewBlock \/ EndScan \/ FindOpportunity \/ Decline \/ Prepared \/ AlertDone
    BY <1>0, <1>1 DEF NewBlock, EndScan, FindOpportunity, Decline, Prepared,
                      AlertDone, riskVars
  <1>2. CASE BeginTrade \/ DryRunTrade
    BY <1>0, <1>2 DEF BeginTrade, DryRunTrade, RecordTradeStart, PreTradeCheck
  <1>3. ASSUME InTrade, NEW o \in RaisedOutcomes, RecordOutcome(o), pc' = "idle"
        PROVE  Goal
    <2>1. dailyPnl' = dailyPnl + o.profit - o.gas
      BY <1>3 DEF RecordOutcome
    <2>2. o.profit = 0 /\ o.gas \in 0..MaxGas
      BY NoProfitOutcomes
    <2>3. QED
      BY <1>0, <1>3, <2>1, <2>2
  <1>4. CASE AttemptRaises
    BY <1>3, <1>4 DEF AttemptRaises, HandleException
  <1>5. ASSUME NEW t \in TxIds, Submit(t) PROVE Goal
    BY <1>0, <1>5 DEF Submit, riskVars
  <1>6. ASSUME NEW t \in TxIds, SubmitLost(t) PROVE Goal
    BY <1>3, <1>6 DEF SubmitLost, HandleException
  <1>7. CASE ReceiptFound
    <2>1. PICK o \in ReceiptOutcomes : /\ dailyPnl + o.profit - o.gas <= PnlCap
                                       /\ RecordOutcome(o)
                                       /\ pc' \in {"idle", "alert"}
      BY <1>7 DEF ReceiptFound
    <2>2. dailyPnl' = dailyPnl + o.profit - o.gas
      BY <2>1 DEF RecordOutcome
    <2>3. o.profit \in 0..MaxProfit /\ o.gas \in 0..MaxGas
      BY NoProfitOutcomes DEF Outcomes
    <2>4. dailyPnl >= -MaxDailyLoss
      BY <1>0, <1>7 DEF ReceiptFound
    <2>5. QED
      BY <1>0, <2>1, <2>2, <2>3, <2>4
  <1>8. CASE PollTimesOut
    BY <1>3, <1>8, NoProfitOutcomes DEF PollTimesOut
  <1>9. CASE Chain
    BY <1>0, <1>9 DEF Chain, Mine, Drop, riskVars
  <1>10. CASE ClockTick
    BY <1>0, <1>10 DEF ClockTick, PassTime
  <1>11. CASE Midnight
    BY <1>0, <1>11 DEF Midnight, ResetDaily, tradeVars
  <1>12. CASE Signal \/ Shutdown
    BY <1>0, <1>12 DEF Signal, Shutdown, riskVars
  <1>13. CASE Restart
    BY <1>13 DEF Restart, RiskBoot
  <1>14. CASE UNCHANGED vars
    BY <1>0, <1>14 DEF vars, tradeVars, riskVars
  <1>15. QED
    BY <1>1, <1>2, <1>4, <1>5, <1>6, <1>7, <1>8, <1>9, <1>10, <1>11, <1>12,
       <1>13, <1>14 DEF Next, Proceed

\* The mode of a process is fixed when it starts.
LEMMA DryRunPart == TradingInv /\ [Next]_vars => DryRunStaysLocal'
  <1> SUFFICES ASSUME TradingInv, [Next]_vars PROVE DryRunStaysLocal'
    OBVIOUS
  <1>0. DryRunStaysLocal
    BY DEF TradingInv
  <1> USE DEF DryRunStaysLocal, Goto
  <1>1. CASE NewBlock \/ EndScan \/ FindOpportunity \/ Decline \/ Prepared \/ AlertDone
    BY <1>0, <1>1 DEF NewBlock, EndScan, FindOpportunity, Decline, Prepared,
                      AlertDone
  <1>2. CASE BeginTrade \/ DryRunTrade \/ AttemptRaises
    BY <1>0, <1>2 DEF BeginTrade, DryRunTrade, AttemptRaises
  <1>3. ASSUME NEW t \in TxIds, Submit(t) \/ SubmitLost(t) PROVE DryRunStaysLocal'
    BY <1>0, <1>3 DEF Submit, SubmitLost
  <1>4. CASE ReceiptFound \/ PollTimesOut
    BY <1>0, <1>4 DEF ReceiptFound, PollTimesOut
  <1>5. CASE Chain \/ ClockTick \/ Midnight
    BY <1>0, <1>5 DEF Chain, Mine, Drop, ClockTick, Midnight, tradeVars
  <1>6. CASE Signal \/ Shutdown \/ Restart
    BY <1>0, <1>6 DEF Signal, Shutdown, Restart
  <1>7. CASE UNCHANGED vars
    BY <1>0, <1>7 DEF vars, tradeVars
  <1>8. QED
    BY <1>1, <1>2, <1>3, <1>4, <1>5, <1>6, <1>7 DEF Next, Proceed

LEMMA InitTradingInv == Init => TradingInv
  <1> SUFFICES ASSUME Init PROVE TradingInv
    OBVIOUS
  <1>1. RiskInv
    BY InitInv DEF Init
  <1>2. TradingTypeOK
    BY <1>1 DEF Init, TradingTypeOK, RiskInv, Points
  <1>3. /\ dailyPnl <= PnlCap
        /\ PositionHeld /\ AwaitsInPoll /\ PositionMatchesTrade
        /\ VerdictHolds /\ SerialLossBounded /\ DryRunStaysLocal
    BY DEF Init, RiskInit, PositionHeld, AwaitsInPoll, PositionMatchesTrade,
           VerdictHolds, SerialLossBounded, DryRunStaysLocal, InTrade
  <1>4. QED
    BY <1>1, <1>2, <1>3 DEF TradingInv

-----------------------------------------------------------------------------
\* The inductive invariant holds in every reachable state of the lifecycle.
THEOREM TradingInvariant == Spec => []TradingInv
  <1>1. TradingInv /\ [Next]_vars => TradingInv'
    BY RiskPart, TypePart, PositionPart, LossPart, DryRunPart DEF TradingInv
  <1>2. QED
    BY InitTradingInv, <1>1, PTL DEF Spec

\* Type correctness of the lifecycle, RiskManager's counters included.
THEOREM TradingTypeCorrect == Spec => []TradingTypeOK
  <1>1. TradingInv => TradingTypeOK
    BY DEF TradingInv
  <1>2. QED
    BY <1>1, TradingInvariant, PTL

\* In live mode the single position is held exactly while a trade is between
\* record_trade_start and record_outcome.
THEOREM PositionIsExact == Spec => []PositionMatchesTrade
  <1>1. TradingInv => PositionMatchesTrade
    BY DEF TradingInv
  <1>2. QED
    BY <1>1, TradingInvariant, PTL

\* The recorded loss of a day passes the limit by at most one trade's gas.
THEOREM LossIsSerial == Spec => []SerialLossBounded
  <1>1. TradingInv => SerialLossBounded
    BY DEF TradingInv
  <1>2. QED
    BY <1>1, TradingInvariant, PTL

\* The verdict of pre_trade_check outlives every await of the trade.
THEOREM VerdictOutlivesAwaits == Spec => []VerdictHolds
  <1>1. TradingInv => VerdictHolds
    BY DEF TradingInv
  <1>2. QED
    BY <1>1, TradingInvariant, PTL

\* A transaction enters the mempool by a submission, and by nothing else.
LEMMA OnlySubmissionsSend ==
  ASSUME Next, ~(mempool' \subseteq mempool)
  PROVE  \E t \in TxIds : Submit(t) \/ SubmitLost(t)
  BY DEF Next, Proceed, Chain, NewBlock, EndScan, FindOpportunity, Decline,
         BeginTrade, DryRunTrade, Prepared, AttemptRaises, ReceiptFound,
         PollTimesOut, AlertDone, Mine, Drop, ClockTick, Midnight, tradeVars,
         Signal, Shutdown, Restart

\* No transaction is submitted with the breaker open or past the loss limit.
THEOREM SubmissionsAreCovered == Spec => SubmitWithinLimits
  <1>1. TradingInv /\ [Next]_vars => [SubmissionIsCovered]_vars
    <2> SUFFICES ASSUME TradingInv, Next, ~(mempool' \subseteq mempool)
                 PROVE  ~IsCircuitBroken /\ dailyPnl >= -MaxDailyLoss
      BY DEF SubmissionIsCovered
    <2>1. PICK t \in TxIds : Submit(t) \/ SubmitLost(t)
      BY OnlySubmissionsSend
    <2>2. InTrade
      BY <2>1 DEF Submit, SubmitLost, Goto, InTrade
    <2>3. QED
      BY <2>2 DEF TradingInv, VerdictHolds
  <1>2. QED
    BY <1>1, TradingInvariant, PTL DEF Spec, SubmitWithinLimits

\* In a dry run nothing leaves the process, whatever an earlier process has
\* left in the mempool, at any interleaving with shutdowns and restarts.
THEOREM DryRunsSendNothing == Spec => DryRunSubmitsNothing
  <1>1. TradingInv /\ [Next]_vars => [dryRun => mempool' \subseteq mempool]_vars
    <2> SUFFICES ASSUME TradingInv, Next, dryRun, ~(mempool' \subseteq mempool)
                 PROVE  FALSE
      OBVIOUS
    <2>1. PICK t \in TxIds : Submit(t) \/ SubmitLost(t)
      BY OnlySubmissionsSend
    <2>2. pc = "send"
      BY <2>1 DEF Submit, SubmitLost, Goto
    <2>3. QED
      BY <2>2 DEF TradingInv, DryRunStaysLocal
  <1>2. QED
    BY <1>1, TradingInvariant, PTL DEF Spec, DryRunSubmitsNothing

\* The orchestrator implements the protocol of RiskManager: every behaviour
\* of the lifecycle is one of the component, restarts apart.
THEOREM ImplementsRiskProtocol == Spec => RiskProtocol
  <1>1. Init => RiskInit
    BY DEF Init
  <1>2. QED
    BY <1>1, StepIsRiskStep, TradingInvariant, PTL DEF Spec, RiskProtocol
=============================================================================
