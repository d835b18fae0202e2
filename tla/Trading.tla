------------------------------- MODULE Trading -------------------------------
(***************************************************************************)
(* The trade lifecycle of nexus_arb/orchestrator.py: the block-driven      *)
(* coroutine with a control point at each await where it can be suspended, *)
(* composed with RiskManager, the submission of flash_loan_executor.py,    *)
(* the receipt poll of tx_monitor.py, the midnight reset, shutdown and     *)
(* restart. Between two awaits the coroutine runs alone (one event loop),  *)
(* so each action is the code from one await to the next.                  *)
(*                                                                         *)
(* The chain is external: it may mine, drop or hold a transaction, and a   *)
(* node may accept one and still answer with an error.                     *)
(***************************************************************************)
EXTENDS RiskManager, FiniteSets

CONSTANTS
  TxIds,           \* bound of the model: transactions in the mempool at once
  NoTx,            \* no transaction is being waited for
  ReceiptTimeout,  \* TxMonitor._timeout, in ticks
  RecentWindow,    \* the length _recent_successes is trimmed to
  RecentBound      \* bound of the model: longer lists are not told apart

ASSUME TradingAssumption ==
  /\ NoTx \notin TxIds
  /\ ReceiptTimeout \in Nat
  /\ RecentWindow \in Nat
  /\ RecentBound \in Nat
  /\ RecentWindow < RecentBound

VARIABLES
  pc,        \* where the block coroutine is suspended
  running,   \* Orchestrator.running
  dryRun,    \* Orchestrator.dry_run, read from the environment at start
  current,   \* the tx_hash wait_for_receipt polls for
  mempool,   \* submitted transactions the chain has not included
  mined,     \* included transactions whose receipt is still wanted
  pollLeft,  \* deadline - time.time() of wait_for_receipt, never negative
  recentLen  \* len(_recent_successes)

tradeVars == <<pc, running, dryRun, current, mempool, mined, pollLeft,
               recentLen>>
vars == <<riskVars, tradeVars>>

\* idle: waiting for a block; scan: gas price, prices and liquidity are being
\* read; balance: the wallet balance is; prepare: gas estimate, fees and nonce
\* are; send: the transaction is being submitted; poll: its receipt is being
\* polled; alert: the Telegram message is; stopped: the process is gone.
Points == {"idle", "scan", "balance", "prepare", "send", "poll", "alert",
           "stopped"}

\* Between record_trade_start and record_outcome.
InTrade == pc \in {"prepare", "send", "poll"}

Alive == pc # "stopped"

\* What a receipt can say: only an executed arbitrage has a profit.
ReceiptOutcomes == {o \in Outcomes : ~o.success => o.profit = 0}

\* What record_outcome is told when execute or wait_for_receipt raised, with
\* the estimated gas, and when no receipt came.
RaisedOutcomes == {o \in Outcomes : ~o.success /\ o.profit = 0}
TimeoutOutcome == [profit |-> 0, gas |-> 0, success |-> FALSE]

Init ==
  /\ RiskInit
  /\ pc = "idle"
  /\ running = TRUE
  /\ dryRun \in BOOLEAN
  /\ current = NoTx
  /\ mempool = {}
  /\ mined = {}
  /\ pollLeft = 0
  /\ recentLen = 0

Goto(from, to) == pc \in from /\ pc' = to

-----------------------------------------------------------------------------
\* on_new_block: a block is ignored once running is cleared.
NewBlock ==
  /\ running
  /\ Goto({"idle"}, "scan")
  /\ UNCHANGED <<riskVars, running, dryRun, current, mempool, mined, pollLeft,
                 recentLen>>

\* A scan that raises (logged and dropped) or finds no opportunity.
EndScan ==
  /\ Goto({"scan"}, "idle")
  /\ UNCHANGED <<riskVars, running, dryRun, current, mempool, mined, pollLeft,
                 recentLen>>

FindOpportunity ==
  /\ Goto({"scan"}, "balance")
  /\ UNCHANGED <<riskVars, running, dryRun, current, mempool, mined, pollLeft,
                 recentLen>>

\* The balance cannot be read, PPO says SKIP or WAIT, no route is built or
\* pre_trade_check denies.
Decline ==
  /\ Goto({"balance"}, "idle")
  /\ UNCHANGED <<riskVars, running, dryRun, current, mempool, mined, pollLeft,
                 recentLen>>

\* pre_trade_check to the first await of execute. In a dry run only its checks
\* before the dry-run return can follow.
BeginTrade ==
  /\ Goto({"balance"}, "prepare")
  /\ \E c \in Candidates : PreTradeCheck(c)
  /\ RecordTradeStart
  /\ UNCHANGED <<running, dryRun, current, mempool, mined, pollLeft, recentLen>>

\* execute returns None and the attempt ends without record_outcome.
DryRunTrade ==
  /\ dryRun
  /\ Goto({"balance"}, "idle")
  /\ \E c \in Candidates : PreTradeCheck(c)
  /\ RecordTradeStart
  /\ UNCHANGED <<running, dryRun, current, mempool, mined, pollLeft, recentLen>>

\* A faulty dry run that only skips the wait for the receipt.
PreparedInDryRun ==
  /\ Goto({"prepare"}, "send")
  /\ UNCHANGED <<riskVars, running, dryRun, current, mempool, mined, pollLeft,
                 recentLen>>

\* Gas limit, fees under the cap and nonce are known; the transaction is signed.
Prepared ==
  /\ ~dryRun
  /\ Goto({"prepare"}, "send")
  /\ UNCHANGED <<riskVars, running, dryRun, current, mempool, mined, pollLeft,
                 recentLen>>

-----------------------------------------------------------------------------
\* A faulty handler that leaves the outcome unrecorded.
HandleExceptionSilently == UNCHANGED <<riskVars, recentLen>>

\* The exception handler, which appends without trimming: one more outcome.
HandleException ==
  /\ \E o \in RaisedOutcomes : RecordOutcome(o)
  /\ recentLen' = IF recentLen < RecentBound THEN recentLen + 1 ELSE recentLen

\* The trimming after an outcome with a receipt or a timeout: append, then pop
\* the oldest when there are more than RecentWindow.
RememberOutcome ==
  recentLen' = IF recentLen < RecentWindow THEN recentLen + 1 ELSE recentLen

\* No endpoint, a fee over the cap, a failed read or a rejected transaction.
AttemptRaises ==
  /\ Goto({"prepare", "send"}, "idle")
  /\ HandleException
  /\ UNCHANGED <<running, dryRun, current, mempool, mined, pollLeft>>

\* The transaction is accepted and its hash returned.
Submit(t) ==
  /\ Goto({"send"}, "poll")
  /\ t \notin mempool
  /\ mempool' = mempool \cup {t}
  /\ current' = t
  /\ pollLeft' = ReceiptTimeout
  /\ UNCHANGED <<riskVars, running, dryRun, mined, recentLen>>

\* The transaction is accepted, but the answer is an error, or no endpoint is
\* healthy when wait_for_receipt picks one.
SubmitLost(t) ==
  /\ Goto({"send"}, "idle")
  /\ t \notin mempool
  /\ mempool' = mempool \cup {t}
  /\ HandleException
  /\ UNCHANGED <<running, dryRun, current, mined, pollLeft>>

\* wait_for_receipt returns the receipt of the awaited transaction. A success
\* with a large profit is announced before the handler ends.
ReceiptFound ==
  /\ pc = "poll"
  /\ current \in mined
  /\ \E o \in ReceiptOutcomes :
       /\ dailyPnl + o.profit - o.gas <= PnlCap
       /\ RecordOutcome(o)
       /\ pc' \in (IF o.success THEN {"idle", "alert"} ELSE {"idle"})
  /\ mined' = {}
  /\ current' = NoTx
  /\ pollLeft' = 0
  /\ RememberOutcome
  /\ UNCHANGED <<running, dryRun, mempool>>

\* A faulty timeout that returns with nothing recorded.
PollTimesOutUnrecorded ==
  /\ pollLeft = 0
  /\ Goto({"poll"}, "idle")
  /\ mined' = {} /\ current' = NoTx
  /\ UNCHANGED <<riskVars, running, dryRun, mempool, pollLeft, recentLen>>

\* The deadline passes without a receipt: a failure that cost nothing, while
\* the transaction may still be in the mempool.
PollTimesOut ==
  /\ pollLeft = 0
  /\ Goto({"poll"}, "idle")
  /\ RecordOutcome(TimeoutOutcome)
  /\ mined' = {}
  /\ current' = NoTx
  /\ RememberOutcome
  /\ UNCHANGED <<running, dryRun, mempool, pollLeft>>

AlertDone ==
  /\ Goto({"alert"}, "idle")
  /\ UNCHANGED <<riskVars, running, dryRun, current, mempool, mined, pollLeft,
                 recentLen>>

-----------------------------------------------------------------------------
\* The chain includes a transaction; only an awaited one has a reader.
Mine(t) ==
  /\ t \in mempool
  /\ mempool' = mempool \ {t}
  /\ mined' = IF t = current THEN mined \cup {t} ELSE mined
  /\ UNCHANGED <<riskVars, pc, running, dryRun, current, pollLeft, recentLen>>

\* The chain forgets a transaction.
Drop(t) ==
  /\ t \in mempool
  /\ mempool' = mempool \ {t}
  /\ UNCHANGED <<riskVars, pc, running, dryRun, current, mined, pollLeft, recentLen>>

\* A faulty wait whose deadline moves with the clock.
ClockTickMovingDeadline ==
  /\ Alive
  /\ circuitBreakLeft > 0 \/ sinceFailure < FailureCooldown
  /\ PassTime
  /\ UNCHANGED tradeVars

ClockTick ==
  /\ Alive
  /\ circuitBreakLeft > 0 \/ sinceFailure < FailureCooldown \/ pollLeft > 0
  /\ PassTime
  /\ pollLeft' = IF pollLeft > 0 THEN pollLeft - 1 ELSE 0
  /\ UNCHANGED <<pc, running, dryRun, current, mempool, mined, recentLen>>

\* A faulty reset that also forgives the failures of the day.
MidnightForgives ==
  /\ Alive
  /\ dailyPnl' = 0 /\ consecutiveFailures' = 0
  /\ UNCHANGED <<circuitBreakLeft, openPositions, returnsLen, varLimit,
                 sinceFailure, tradeVars>>

\* _daily_reset_loop wakes at midnight, whatever the block coroutine awaits.
Midnight ==
  /\ Alive
  /\ ResetDaily
  /\ UNCHANGED tradeVars

Signal ==
  /\ Alive
  /\ running' = FALSE
  /\ UNCHANGED <<riskVars, pc, dryRun, current, mempool, mined, pollLeft, recentLen>>

\* run() cancels the tasks: CancelledError passes through every handler, so
\* nothing is recorded. A killed process ends in the same state.
Shutdown ==
  /\ ~running
  /\ Alive
  /\ pc' = "stopped"
  /\ UNCHANGED <<riskVars, running, dryRun, current, mempool, mined, pollLeft,
                 recentLen>>

\* The supervisor starts a new process, possibly in the other mode: memory is
\* fresh, the mempool is not.
Restart ==
  /\ ~Alive
  /\ RiskBoot
  /\ pc' = "idle"
  /\ running' = TRUE
  /\ dryRun' \in BOOLEAN
  /\ current' = NoTx
  /\ mined' = {}
  /\ pollLeft' = 0
  /\ recentLen' = 0
  /\ UNCHANGED mempool

-----------------------------------------------------------------------------
\* The steps the event loop and the RPC timeouts bring about: every await of
\* the coroutine returns or raises.
Proceed ==
  \/ EndScan \/ FindOpportunity \/ Decline \/ BeginTrade \/ DryRunTrade
  \/ Prepared \/ AttemptRaises
  \/ \E t \in TxIds : Submit(t) \/ SubmitLost(t)
  \/ ReceiptFound \/ PollTimesOut \/ AlertDone

Chain == \E t \in TxIds : Mine(t) \/ Drop(t)

Next ==
  \/ NewBlock \/ Proceed \/ Chain
  \/ ClockTick \/ Midnight
  \/ Signal \/ Shutdown \/ Restart

Spec == Init /\ [][Next]_vars

\* Blocks, signals, restarts and the chain owe nothing; the event loop runs
\* whatever is ready and the clock advances.
FairSpec == Spec /\ WF_vars(Proceed) /\ WF_vars(ClockTick)

-----------------------------------------------------------------------------
TradingTypeOK ==
  /\ RiskTypeOK
  /\ pc \in Points
  /\ running \in BOOLEAN /\ dryRun \in BOOLEAN
  /\ current \in TxIds \cup {NoTx}
  /\ mempool \subseteq TxIds
  /\ mined \subseteq (TxIds \cap {current}) \ mempool
  /\ pollLeft \in 0..ReceiptTimeout
  /\ recentLen \in 0..RecentBound

\* Whatever an await of a trade does (raise, time out, answer late), the one
\* position of a live process is held exactly from record_trade_start to
\* record_outcome: neither leaked, which max_open_positions would turn into a
\* halt, nor released twice.
PositionMatchesTrade ==
  (~dryRun /\ Alive) => openPositions = IF InTrade THEN 1 ELSE 0

\* One coroutine trades at a time, so the recorded loss of a day passes the
\* limit by the gas of one trade at most, whatever max_open_positions is.
SerialLossBounded == dailyPnl >= -(MaxDailyLoss + MaxGas)

\* What pre_trade_check established still holds at every later await of the
\* trade, although the midnight reset and the clock run in between.
VerdictHolds ==
  InTrade => (dailyPnl >= -MaxDailyLoss /\ ~IsCircuitBroken)

\* In a dry run too, a trade holds a position of its own.
PositionHeld == InTrade => openPositions > 0

\* A live process waits for a transaction exactly while it polls.
AwaitsInPoll == Alive => (pc = "poll" <=> current # NoTx)

\* A dry run never comes to the point where a transaction is submitted, nor
\* to those after it: a process that was waiting for one when it went away is
\* not taken up again in the other mode.
DryRunStaysLocal == dryRun => pc \notin {"send", "poll", "alert"}

\* The inductive invariant of the lifecycle: the component's own, the loss
\* split by whether a trade is in progress, and the position held.
TradingInv ==
  /\ TradingTypeOK
  /\ RiskInv
  /\ dailyPnl <= PnlCap
  /\ PositionHeld
  /\ AwaitsInPoll
  /\ PositionMatchesTrade
  /\ VerdictHolds
  /\ SerialLossBounded
  /\ DryRunStaysLocal

\* A dry run may hold positions and record failures, but nothing leaves it,
\* whatever an earlier process has left in the mempool.
DryRunSubmitsNothing == [][dryRun => mempool' \subseteq mempool]_vars

\* Every transaction leaves for the network with the breaker closed and the
\* loss of the day inside the limit, several awaits after the check.
SubmissionIsCovered ==
  ~(mempool' \subseteq mempool) =>
    (~IsCircuitBroken /\ dailyPnl >= -MaxDailyLoss)

SubmitWithinLimits == [][SubmissionIsCovered]_vars

\* The orchestrator keeps the protocol RiskManager relies on: an approved
\* check before each start, one outcome for each start, and nothing else
\* until the process is replaced.
RiskProtocol == RiskInit /\ [][RiskNext \/ RiskBoot]_riskVars

\* Every trade that was started is concluded unless the process goes away: a
\* transaction that is never included does not hold the position for good.
TradeConcludes == InTrade ~> ~InTrade

-----------------------------------------------------------------------------
\* config.yaml, max_open_positions: "Only 1 flash loan at a time". Broken when
\* a receipt times out, an accepted transaction is answered with an error, or a
\* new process takes over: the position is free, the transaction still pending.
OneFlashLoanAtATime == Cardinality(mempool) <= 1

\* risk_manager.py, record_outcome: "Must be called after every trade
\* attempt." A dry-run attempt returns without it, and the position it
\* opened is never released.
OutcomeAfterEveryAttempt == pc = "idle" => openPositions = 0
=============================================================================
