# NEXUS-ARB: specification, model checking and proofs

TLA+ modules that model the arbitrage bot in `src/`: what its components do,
how they interleave, what they promise. TLC checks small instances, TLAPS
proves the safety properties for every value of the constants. Paths below are
relative to `src/`.

## 1. The system

NEXUS-ARB watches pool prices on Arbitrum, finds cycles of exchanges that gain,
and executes one with a flash loan through its own contract. One Python process,
one asyncio event loop; concurrency is only at `await`.

| Component | State it keeps | Operations | Hard behaviour |
|---|---|---|---|
| Orchestrator `nexus_arb/orchestrator.py` | `running`, `dry_run`, `_recent_successes` | block loop, scan, evaluate and execute, midnight reset, shutdown | four awaits between the risk check and the transaction; exceptions at each; cancellation |
| RiskManager `risk_manager.py` | failures, breaker, open positions, loss of the day, returns | `pre_trade_check`, `record_trade_start`, `record_outcome`, `reset_daily` | callers must pair start and outcome; cooldown against the clock and late outcomes |
| FlashLoanExecutor `flash_loan_executor.py` | the wallet | `execute`, `estimate_gas`, `get_fee_params` | a transaction accepted and answered with an error |
| TxMonitor `tx_monitor.py` | none | `wait_for_receipt` | timeout racing a late receipt |
| Web3Manager `web3_manager.py` | endpoint pool and statistics | `best_http`, health loop, multicall, block subscription | concurrent health checks against readers |
| MarketData `market_data.py` | the price graph | `refresh` (Uniswap batch, then Curve and Balancer concurrently) | partial failures, old quotes |
| LiquidityMonitor `liquidity_monitor.py` | reserves nobody reads | `refresh_all` | - |
| BellmanFord `algorithms/bellman_ford.py` | none (a function of the graph) | `detect` | early termination, order of the edges, rebuilding a cycle |
| ExecutionRouter `execution_router.py` | a counter | `build_route` | sizes and minimum outputs of a chain of hops over tokens of different decimals |
| CMA-ES `algorithms/cma_es.py` | best size and profit of a search | `optimize` | two orders of one population |
| PPO `algorithms/ppo.py` | rollout buffer, number of updates, checkpoint file | `select_action`, `store_transition`, `update` | five ways a trade ends, restarts, torn saves |
| Thompson sampling `algorithms/thompson_sampling.py` | a posterior for each arm | `record_outcome`, `record_failure` | any number of trades |
| UKF `algorithms/ukf.py` | filter state nobody reads | `update` | - |
| NexusFlashReceiver `contracts/NexusFlashReceiver.sol` | roles, pause flag; its balances and allowances in the tokens | `executeArbitrage`, `executeOperation`, administration | all-or-nothing transaction over calls to foreign contracts |
| `scripts/deploy.py`, `scripts/validate_mainnet.py` | `.env` | one run each, by the operator | cut between sending and saving; rerun; an account shared with the bot |
| Vault `vault.py` | the key | `get_account` | three stores, of which the scripts know one |
| Rust core `nexus_core/` | none | not called | - |

Interactions: a block starts a scan; a scan reads gas price, prices and (every
5 s) liquidity through `best_http`, runs the detector on the graph, reads the
wallet, asks PPO, builds a route, asks RiskManager, submits through the
executor, waits in TxMonitor, records the outcome. Beside it run the health
loop, the midnight reset and the signal handler. The chain decides what becomes
of a transaction; the contract runs inside one transaction.

What makes each correct: RiskManager - the loss of a day and the distance of
trades from failures are bounded. Orchestrator - each started trade has one
outcome, the verdict still holds when the transaction leaves, every trade ends.
Detector - flags are exact, cycles trade and gain, none is missed. Contract -
the loan is repaid exactly, nothing is left behind, neither tokens nor rights
to pull them. Market data - the graph does not change under a trade.
Web3Manager - a good endpoint is used again, a bad one is left. Router - the loan passes the size gates uncut, its profit is not
overstated, the route chains, its minimums are within the tolerance. Scripts -
the address in use is of a contract the account deployed, and there is one.
Learning - on-policy, little lost by a restart, old evidence forgotten. The
hazards behind these, each at its line, are in `PROJECT.json`; those no property
covers (what a restart forgets, a kill during a save, blocks that wait, the
validation without an endpoint, and others) say there why.

## 2. Modules

```
RiskManager  <--EXTENDS--  Trading            Web3Manager <--EXTENDS-- MarketData
SwapRoutes   <--EXTENDS--  ExecutionRouter    Deployment, Learning <--EXTENDS-- Operations
             <--EXTENDS--  NexusFlashReceiver ==implements==> AtomicLoan
Walks        <--EXTENDS--  BellmanFord
             <--EXTENDS--  WalkLemmas (lemmas on walks, sums and induction)
MCx                        instance definitions for TLC
xProofs                    theorems about x
```

The modules meet in what one promises and the next assumes. BellmanFord's cycles
(`CyclesAreTradable`) are the opportunities ExecutionRouter takes
(`IsOpportunity`); its routes (`RoutesAreCycles`) are those NexusFlashReceiver
strands nothing of (`NothingStranded`, the same `IsCycleOf` in SwapRoutes); its
loans (`SizeWithinGates`) are above the minimum and never cut, which is why
RiskManager needs no case for a cut loan; Trading keeps the protocol RiskManager
is driven by (`RiskProtocol`); MarketData's `execute` is Trading's lifecycle.

**RiskManager.** Each variable is a field of `RiskManager.__init__`. Amounts are
integers in one unit of ETH. `_circuit_break_until` is the time left until it,
`_trade_history` the age of its last failure (only a ghost of the code's list:
the breaker property needs it). Profit, gas price, gas multiple and wallet
reserve are one Boolean of the candidate: all four read only the candidate and
the arguments. VaR is the largest loan it admits, arbitrary once ten returns
exist, because its statistics are floats. On its own the module is driven by
any caller that checks, starts and then records once per start; `ConcludeTrade`
may come at any time and in any order.

**Trading** replaces that caller by the code. One action is the code from one
await to the next. `pc` names the await:

| `pc` | suspended in |
|---|---|
| idle | `subscribe_new_blocks` |
| scan | gas price, prices, liquidity (one point here, four in MarketData) |
| balance | `get_wallet_balance_eth` |
| prepare | gas estimate, fee parameters, nonce |
| send | `send_raw_transaction` |
| poll | `wait_for_receipt` |
| alert | the Telegram message |
| stopped | the process is gone |

`DryRunTrade` is the dry-run return; `AttemptRaises` and `SubmitLost` are the
exception handler, the latter with the transaction accepted; `PollTimesOut` the
deadline; `Midnight` and `Signal` can come at any point; `Shutdown` cancels the
coroutine wherever it is (CancelledError passes every handler) and stands for a
kill as well, but for the flag it needs first; `Restart` is the supervisor's
(`docker-compose.yml`, `restart: unless-stopped`), with fresh memory, the old
mempool, and either mode. The dry run is a variable for that reason: a dry-run
process can follow one that left a transaction behind.

**BellmanFord** runs `detect` one loop iteration per action: relaxation passes,
the V-th pass, the walk back, the trail. The order in which pools were first
quoted (the order of the dict) is part of the initial state. Weights are
integers for -log(rate); the tolerance 1e-12 disappears with them. Walks and
their weights are in **Walks**, with the graph as a parameter, so that what is
proved of them in WalkLemmas holds of the graph of any state.

**NexusFlashReceiver** has one action per external call of a transaction, and
one per administration function. A revert restores what the transaction found.
`Swap` covers the dispatcher and the three exchanges: the approval, the exact
pull, any payment from the minimum up. `MCNexusFlashReceiver` lists the routes:
two the bot builds, one with an explicit amount, one with an unknown `dexType`.

**AtomicLoan** is what the contract promises to everybody outside a transaction:
a call begins, and either commits - nothing left of the borrowed token nor of a
cycle's tokens, no other token touched, no right to pull granted - or leaves
everything as it was. The refinement mapping (`Atomic` in NexusFlashReceiver) is
the EVM's: `held` and `rights` are the balances and allowances at the start of
the transaction until it commits (`CommittedHeld`, `CommittedRights`), `call` is
the borrowed token and the route while one is running.

**ExecutionRouter** takes an opportunity through the size search of `cma_es.py`
and the loop of `build_route`. One `Generation` is one iteration of the search:
the samples are any sizes within the bounds, the profit of each size is any
function; what is kept is the code's comparison, which takes the profit of the
worst sample (`fk[order[::-1]]` is ascending) and the size of the best.
`EndSearch` tries the mean and turns the size into raw units of 18 decimals,
whatever the token. `AddHop` is one hop, with the integer arithmetic of the
minimum output; `Routable` is the look-up by the part of a pool's name before the
first underscore. The identifiers are sequences of such parts.

**Deployment** is `deploy.py` and `validate_mainnet.py`, cut at the awaits that
matter: nonce read and signed, sent, waiting, confirmed. The chain includes one
transaction for each nonce of the account, so the address of a contract is its
nonce. `EndDeploy` is a crash, a timeout or a rejection at any of these points;
the operator may start again at once.

**Learning** is the rollout buffer, the updates and the checkpoint of PPO, and
one arm of the bandit. The network is the number of its updates, a transition
the network that chose it. `StoreOnly`, `StoreNothing`, `LearnOutcome` and
`LearnNothing` are the ways a block ends in `_evaluate_and_execute`: `update()`
is reached by the last two only. Evidence is in `Whole` parts of one outcome and
decays by `DecayNum/DecayDen`, rounded down.

**Operations** composes both with the bot's process: it takes the address from
the environment of its container (fixed when the container is created:
`load_dotenv` does not override it), the account from its vault, the checkpoint
from the data volume; its trades use up nonces, of the deployer's account when
the key comes from `PRIVATE_KEY`. Nobody but the script is assumed to edit `.env`.

**Web3Manager** keeps for each endpoint its present condition, whether it has a
connection and whether it is healthy; its checks run concurrently. Scores are
abstracted: `best_http` may return any usable endpoint.

**MarketData** is `_scan_and_execute` await by await. A quote is its age. Curve
and Balancer run side by side; each read may fail in part. What follows the
balance read is one point, `execute`, which Trading expands.

## 3. Runs

Checked with TLC; every property has a mutant of the code that breaks it
(`PROJECT.json`, "mutants"; the faulty operators stand beside the real ones).

| Run | Shows | Distinct states |
|---|---|---|
| risk_manager | two positions at once: loss bounded by limit plus the gas in flight, breaker spaced and finally open | 1 490 |
| trading | positions exact, limits at submission, the risk protocol implemented, every trade ends | 45 060 |
| bellman_ford | every graph of 3 tokens, up to 5 edges, every order of edges, two weights | 1 174 753 |
| flash_receiver | four routes, two loans, donations, administration; AtomicLoan implemented | 24 032 |
| market_data | four quotes of three exchanges, two endpoints that come and go: no query outlives the refresh, scans end, good endpoints are used again, bad ones left | 447 165 |
| router | cycles over all four exchanges, any profit of each size, three generations | 20 328 |
| operations | two deployments, three nonces, validations, a bot that trades, learns, dies and restarts | 6 328 160 |

Runs that end in a violation, each a statement of a document or comment the
code does not keep (`PROJECT.json`, "findings", quotes both):

| Run | Statement | What happens |
|---|---|---|
| one_flash_loan | "Only 1 flash loan at a time" | a timeout or a lost answer frees the position, the transaction is still pending |
| dry_run_leak | "Must be called after every trade attempt." | the dry run returns without an outcome; the position stays open |
| profit_missed | "Find all profitable arbitrage cycles" | a node flagged in the V-th pass has no predecessor yet |
| stale_opportunity | "Opportunity expires after 500ms" | nothing reads the TTL; failed reads keep old quotes |
| slippage_tolerance | "0.5% max slippage tolerance" | minimums ignore decimals: 18 to 6 always reverts, 6 to 18 is unprotected |

`profit_missed` was confirmed by running the detector on the graph TLC found.

Facts met while modelling that have no run of their own:

- Shutdown cancels the coroutine wherever it is, so a pending transaction is
  abandoned and unrecorded, although `orchestrator.py:32` announces a "Graceful
  shutdown with position cleanup" (`Shutdown` in Trading).
- `_recent_successes`, the "Last 20 outcomes", outgrows its window by one with
  each exception (`orchestrator.py:401`; `recentLen` in Trading).
- The contract's check is on its balance: a trade at a loss is committed when
  the contract held enough of the token before (`NexusFlashReceiver.sol:173`).
- No Balancer pool of `config.yaml` can be traded: their names have an
  underscore, and pools are looked up by what comes before the first one. The
  whole opportunity is dropped, whatever its other hops.
- `validate_mainnet.py` prints "ALL CHECKS PASSED" without the checks of wallet,
  contract, exchanges and prices when the endpoint search fails and the
  endpoints answer a moment later (line 245). `ReadyIsServed` is about the
  passes of a validation that had an endpoint and does not cover this; its owner check looks at the
  length of the answer only.
- A bot whose key comes from KMS or HashiCorp trades with another account than
  `deploy.py` made owner and executor, so each of its trades reverts
  (`Authorized` in Operations).
- `deploy.py` reads the nonce without the pending transactions: that a rerun
  replaces a pending deployment instead of adding one rests on it
  (`RerunReplaces`; the mutant counts them).

### Bounds

- `FailCap`: failure counts above the threshold are not told apart; the code
  only compares with it.
- `PnlCap`: profits of a day; the loss side needs no bound, the gates stop it.
- `TxIds`: two transactions in the mempool, enough for one abandoned and one new.
- `ReceiptTimeout`, `FailureCooldown`, `OpportunityTtl`: ticks; two or three let
  every event fall before, at and after a deadline.
- `RecentWindow`/`RecentBound`: 1 and 2, a full list and one too long.
- `MaxEdges` 5 of the 6 edges of three tokens, `Tokens` 3: cycles of two and
  three hops, shared nodes, sources without predecessors; a graph with all six
  edges only multiplies orders.
- `MaxOut`, `HeldCap` 3: loss, break-even and profit on a debt of 2 or 3.
- `AgeCap`: older quotes are not told apart.
- `EthUnit` 100, `Unit` 100, 20 and 10, `RateOne` 10: the decimals keep their
  order, rounding bites; three rates above, at and below parity.
- `MaxIter` 3 generations, sizes 1 to 3: the best pair is replaced, kept and
  mixed; the profit takes every function from sizes to -1..2.
- `MaxRuns` 2, `MaxNonce` 3: a deployment pending beside its rerun, one that
  loses its nonce to a trade, and one left over.
- `BatchSize` 2, `MaxLen` 3, `SaveEvery` 2, `MaxUpdates` 3: a full buffer is
  reached between updates, a save is due, skipped, torn. `Whole` 2 with a decay
  of 1/2 reaches the bound of the posterior.

### Fairness

Liveness assumes what the event loop and the timeouts give. In Trading every
await of the coroutine returns or raises (`WF(Proceed)`: HTTP requests time out,
`AsyncHTTPProvider(timeout=5)`) and the clock advances (`WF(ClockTick)`); nothing
is assumed of blocks, signals, restarts or the chain, so a transaction need
never be mined or dropped. In MarketData the same for the scan, the health loop
and each endpoint's check; nothing is assumed of the endpoints, and the two
properties about them are conditional: an endpoint that in the end stays fast is
used again, one that in the end stays slow or down is left. The second rests on
the health loop alone, since a read that fails does not mark its endpoint
(`web3_manager.py:267`). RiskManager alone assumes that started trades are
concluded, which `TradeConcludes` shows of the code. The detector is one
synchronous function. Deployments, the search and the contract are checked
for safety only: nothing makes the operator run a script or the chain include
a transaction.

## 4. Proofs

Eight modules, all obligations checked by TLAPS, for every value of the
constants that meets the named assumptions.

- **RiskManagerProofs.** `DailyLossBounded` is not inductive: the gate reads the
  loss before the gas of open trades is known. `LossReserve` keeps one `MaxGas`
  in reserve for each position still open; `CooldownAccounted` keeps remaining
  cooldown plus age of the last failure at the whole cooldown. Both with the
  types are `RiskInv`.
- **TradingProofs** reuses the lemmas on RiskManager's operators. `TradingInv`
  adds that the verdict holds during a trade (only `record_outcome` lowers the
  loss, the failure count is not touched by midnight) and that a trade holds its
  position. From it: the position is exact, the loss passes the limit by one
  trade's gas only, submissions are covered, and every step is a step of
  `RiskNext`, of `RiskBoot`, or a stutter (`ImplementsRiskProtocol`).
  `DryRunSubmitsNothing` needs `DryRunStaysLocal`: a dry run never suspends
  where a transaction is sent or awaited, so neither of the two actions that add
  to the mempool is its own, whatever a process in the other mode left there.
- **WalkLemmas.** The weight of a walk is a recursive function, so it is first
  shown to exist and to be the last of a sequence of sums; every other lemma is
  about these sums. Induction is by the least counterexample (< is well founded
  on the naturals), stated for sets (`NaturalsAreInductive`).
  `ShortWalksAreLightest` is what bounds the passes: a walk longer than the
  graph visits a node twice (`NodeRepeats`, the pigeonhole principle), the part
  between is closed and can be cut out without gaining weight, and the shortest
  walk left is no longer than the graph.
- **BellmanFordProofs.** For every finite set of token indices, every graph and
  every order of its edges. `StructureInv`: predecessors are edges, the trail
  follows them, so closed trails trade; a quiet pass leaves no relaxable edge.
  `CyclesAreNegative` is not inductive: a cycle is rebuilt long after the
  relaxation that closed it. `PredCyclesGain` says it of every cycle of
  predecessors at any time. A node's distance is never below that of its
  predecessor plus the weight of the hop, for the predecessor can only have got
  lower since; summed around the cycle a relaxation closes (`PotentialAbove`),
  with that relaxation strict, the weight is below zero. `FlagsAreExact` has two
  halves. A negative cycle has a relaxable edge whatever the distances
  (`PotentialBelow`), and the last pass flags its head (`FlagsMark`). Without
  one, pass `p` accounts for all walks of `p` nodes and for those of `p + 1`
  whose last hop it has seen (`PassesBound`), so after V-1 passes no walk is
  lighter than the distance of its last node, a relaxable edge would be a
  lighter walk, and none is flagged.
- **NexusFlashReceiverProofs.** `ReceiverInv`: allowances are nil but for Aave's
  during repayment, and of a cycle's tokens only the current one is held.
  `ReceiverIsAtomic` proves the refinement: the swaps stutter, `Repaid` is a
  commit because the debt is all that is left of the borrowed token and
  `OffRouteUntouched` holds of the others, `Revert` is an abort because `before`
  is what the transaction found.
- **ExecutionRouterProofs.** `RouterInv`: the tracked profit never exceeds the
  profit of the tracked size, because a generation's worst sample gains no more
  than its best; the steps follow the cycle hop by hop. `EqualDecimalsExecute`
  rests on `MinimumsFollowRates`: the running amount and every minimum are those
  of the recursion the code unrolls (`RoutedAlong`). For equal decimals the
  recursion at the quoted rates is the same one, hop by hop (`ChainsAgree`),
  because a factor of both sides of a floor division cancels (`CommonFactor`).
- **OperationsProofs.** `NoncesInOrder` is what makes `RerunReplaces` and
  `ReceiverIsOurs` inductive: a run's nonce is the account's at its start, the
  pending ones lie ahead of the account, the included ones behind it, and runs
  start in the order of their nonces. Each step moves the chain in one of four
  ways and what was learned in one of five (`ChainMoves`, `LearningMoves`), and
  the invariants are proved for those. `PosteriorForgets` is a sum that one
  decay takes at least a reward from: `PullBounded`.
- **MarketDataProofs.** `MarketInv`: outside the refresh no query is pending, so
  nothing replaces a quote after detection, however reads fail and whatever the
  health checks do meanwhile.

Assumptions: naturals where the code has counts and amounts, a cooldown
threshold of at least one (`BreakerAssumption`), the Balancer queries in some
order (`EdgeAssumption`), loans above zero (`ReceiverAssumption`, the contract's
ZeroAmount check), closed cycles of matching pools (`RouterAssumption`), a decay
of at least one half (`LearningAssumption`; 0.995 in the code), an empty
address that is no contract's (`DeploymentAssumption`). TLC evaluates all of them.

Every safety property of a run is a theorem. Only model-checked: all liveness
(`BreakerReopens`, `TradeConcludes`, `Terminates`, `ScanEnds`,
`EndpointRecovers`, `UnfitEndpointLeaves`), which is out of the prover's reach, and the five
violations, each a behaviour TLC exhibits.

## 5. Not modelled

- The Unscented Kalman filter: floating point, fed with the constant 1.0
  (`orchestrator.py:244`), and nothing reads its output.
- The network of PPO, its gradients and advantages, and the draws from the
  bandit's posteriors: floating point. PPO's SKIP and WAIT are nondeterministic;
  the bandit's choice is used by no route. An exception inside the gradient
  steps, and a save that cannot open its file, are left out.
- The distribution of the size search (mean, step size, covariance) and the
  profit function: any sizes within the bounds, any profits. Pool depths only
  enter there and in scores.
- Prices in MarketData (a quote is its age), scores of endpoints and cycles.
- ABI encoding, signing, key decryption, metrics, logging, Telegram.
- The gas a timed-out transaction costs when it is mined later: it is never
  recorded, so the bounds are on the recorded loss.
- Reentrancy through foreign tokens, tokens with transfer fees, and the gas
  stipend of ETH transfers. `totalProfitWei` and events, which nothing in the
  contract reads.
- `Web3Manager.call`, `replace_stuck_tx`: no caller. The pauses between two
  websocket connections: a block comes or does not.
- The Rust core: no Python code imports it.

## 6. Plan

Done, in this order: RiskManager, Trading (composes it), BellmanFord,
NexusFlashReceiver, Web3Manager, MarketData (composes it), their proofs;
SwapRoutes, AtomicLoan and the refinement, ExecutionRouter with the size search,
Deployment and Learning composed in Operations, their proofs.

Left, most important first:

1. The cost of abandoned transactions: the wallet and a real loss of a day beside
   the recorded one, once the code tracks either.
2. Trading and MarketData as one module, so that a trade is executed on the
   quotes of its scan.
3. The block subscription: the backlog of blocks during a trade, the backoff.
4. The Rust port of the detector against BellmanFord.
